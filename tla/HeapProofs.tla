----------------------------- MODULE HeapProofs -----------------------------
(***************************************************************************)
(* Proofs about Heap, for every size of the heap, every alignment, every   *)
(* set of threads and every set of request sizes.                          *)
(***************************************************************************)
EXTENDS Heap, FiniteSetTheorems, WellFoundedInduction, TLAPS

(* Arithmetic of sizes *)

\* Aligning rounds up.
LEMMA AlignUp ==
  ASSUME NEW n \in Nat
  PROVE  RT_ALIGN(n) \in Nat /\ RT_ALIGN(n) >= n
<1> DEFINE A == RT_ALIGN_SIZE
           k == (n + A - 1) \div A
<1>1. A \in Nat /\ A >= 1 BY HeapAssumption
<1>2. n + A - 1 \in Nat BY <1>1
<1>3. k \in Nat /\ k * A <= n + A - 1 /\ n + A - 1 < (k + 1) * A
  BY <1>1, <1>2, SMTT(30)
<1>4. k * A \in Nat /\ (k + 1) * A = k * A + A BY <1>1, <1>3
<1>5. RT_ALIGN(n) = k * A BY DEF RT_ALIGN
<1> HIDE DEF k, A
<1> QED BY <1>1, <1>3, <1>4, <1>5

\* The sizes of headers, of the smallest block and of the heap.
LEMMA Sizes ==
  /\ SIZEOF_STRUCT_MEM \in Nat /\ SIZEOF_STRUCT_MEM >= 12
  /\ MIN_SIZE_ALIGNED \in Nat /\ MIN_SIZE_ALIGNED >= 12
  /\ mem_size_aligned \in Nat /\ heap_end \in Nat
  /\ heap_end >= SIZEOF_STRUCT_MEM /\ mem_size_aligned <= heap_end
<1>1. RT_ALIGN(12) \in Nat /\ RT_ALIGN(12) >= 12 BY AlignUp
<1> QED BY <1>1, HeapAssumption
        DEF SIZEOF_STRUCT_MEM, MIN_SIZE_ALIGNED, MIN_SIZE, heap_end

\* The size rt_malloc searches for holds what was asked for.
LEMMA AtLeastOK ==
  ASSUME NEW n \in Nat
  PROVE  /\ AtLeast(n) \in Nat /\ AtLeast(n) >= n /\ AtLeast(n) >= MIN_SIZE_ALIGNED
<1> QED BY AlignUp, Sizes DEF AtLeast

\* A set of naturals that is not empty has a least element.
LEMMA LeastOK ==
  ASSUME NEW S \in SUBSET Nat, S # {}
  PROVE  Min(S) \in S
<1>1. PICK x \in S : \A y \in S : ~ (<<y, x>> \in OpToRel(<, Nat))
  BY NatLessThanWellFounded, WFMin, Zenon
<1>2. ASSUME NEW y \in S PROVE x =< y
  <2>1. ~ (<<y, x>> \in OpToRel(<, Nat)) BY <1>1
  <2>2. ~ (y < x) BY <2>1, Zenon DEF OpToRel
  <2> QED BY <2>2
<1> QED BY <1>2, Zenon DEF Min

-----------------------------------------------------------------------------
(* The chain of headers m *)

\* The headers are linked both ways and leave no gaps.
Chain(m) ==
  /\ DOMAIN m \subseteq Offset /\ m \in [DOMAIN m -> Header]
  /\ {0, heap_end} \subseteq DOMAIN m
  /\ m[0].prev = 0 /\ m[heap_end].used
  /\ \A a \in DOMAIN m \ {heap_end} :
       /\ m[a].next \in DOMAIN m /\ m[a].next >= a + SIZEOF_STRUCT_MEM
       /\ \A b \in DOMAIN m : b <= a \/ b >= m[a].next
       /\ m[a].next # heap_end => m[m[a].next].prev = a
       /\ a # 0 => m[a].prev \in DOMAIN m \ {heap_end} /\ m[m[a].prev].next = a

\* No two free blocks are neighbours, but for pairs with a block of E.
Apart(m, E) ==
  \A a \in DOMAIN m \ {heap_end} :
    a \in E \/ m[a].next \in E \/ m[a].used \/ m[m[a].next].used

\* The bytes of the used blocks.
Bytes(m) ==
  {o \in Offset : \E a \in DOMAIN m \ {heap_end} : m[a].used /\ a <= o /\ o < m[a].next}

\* The links of two blocks a < x: x starts where a ends or later.
LEMMA Ordered ==
  ASSUME NEW m, Chain(m), NEW a \in DOMAIN m \ {heap_end}
  PROVE  /\ a \in Nat /\ m[a].next \in Nat /\ a < m[a].next /\ m[a].next <= heap_end
         /\ m[a] \in Header
         /\ \A x \in DOMAIN m \ {heap_end} : x # a =>
              \/ x >= m[a].next
              \/ m[x].next <= a
<1> USE Sizes
<1>1. /\ a \in Nat /\ m[a].next \in Nat /\ a < m[a].next /\ m[a].next <= heap_end
      /\ m[a] \in Header
  BY DEF Chain, Header, Offset
<1>2. ASSUME NEW x \in DOMAIN m \ {heap_end}, x # a PROVE x >= m[a].next \/ m[x].next <= a
  <2>1. x \in Nat /\ m[x].next \in Nat BY DEF Chain, Header, Offset
  <2>2. x <= a \/ x >= m[a].next BY DEF Chain
  <2>3. a <= x \/ a >= m[x].next BY DEF Chain
  <2> QED BY <1>1, <2>1, <2>2, <2>3, <1>2
<1> QED BY <1>1, <1>2

\* plug_holes: joining two neighbours keeps the chain.
LEMMA JoinOK ==
  ASSUME NEW m, Chain(m), NEW a \in DOMAIN m \ {heap_end}, NEW b, b = m[a].next,
         b # heap_end, NEW r, r = Join(m, a, b)
  PROVE  /\ Chain(r) /\ DOMAIN r = DOMAIN m \ {b} /\ a # b /\ b \in DOMAIN m
         /\ r[a].next = m[b].next
         /\ \A x \in DOMAIN r : r[x].used = m[x].used /\ (x # a => r[x].next = m[x].next)
<1> DEFINE n == m[b].next
<1> USE Sizes
<1>1. b \in DOMAIN m \ {heap_end} /\ a \in Nat /\ b \in Nat /\ a < b BY Ordered DEF Chain
<1>2. n \in Nat /\ b < n /\ n \in DOMAIN m /\ n <= heap_end BY <1>1, Ordered DEF Chain
<1>3. DOMAIN r = DOMAIN m \ {b} BY DEF Join, Restrict
<1>4. \A x \in DOMAIN r :
        r[x] = [m EXCEPT ![a].next = m[b].next, ![m[b].next].prev = a][x]
  BY <1>3 DEF Join, Restrict
<1>5. \A x \in DOMAIN m : m[x] \in Header BY DEF Chain
<1>6. ASSUME NEW x \in DOMAIN r
      PROVE  /\ r[x] \in Header
             /\ r[x].used = m[x].used
             /\ r[x].next = IF x = a THEN n ELSE m[x].next
             /\ r[x].prev = IF x = n THEN a ELSE m[x].prev
  <2>1. x \in DOMAIN m /\ n # a /\ a \in Offset /\ n \in Offset /\ m[x] \in Header
    BY <1>1, <1>2, <1>3, <1>5 DEF Offset, Chain
  <2>2. r[x] = [m EXCEPT ![a].next = m[b].next, ![m[b].next].prev = a][x] BY <1>4
  <2>3. CASE x = a BY <2>1, <2>2, <2>3 DEF Header
  <2>4. CASE x = n BY <2>1, <2>2, <2>4 DEF Header
  <2>5. CASE x # a /\ x # n BY <2>1, <2>2, <2>5 DEF Header
  <2> QED BY <2>3, <2>4, <2>5
<1> HIDE DEF n
<1>7. DOMAIN r \subseteq Offset /\ r \in [DOMAIN r -> Header]
  <2>1. r = [x \in DOMAIN r |-> r[x]] BY DEF Join, Restrict
  <2> QED BY <2>1, <1>3, <1>6 DEF Chain
<1>8. {0, heap_end} \subseteq DOMAIN r /\ r[0].prev = 0 /\ r[heap_end].used
  <2>1. b # 0 /\ n # 0 BY <1>1, <1>2
  <2> QED BY <1>1, <1>3, <1>6, <2>1 DEF Chain
<1>9. ASSUME NEW x \in DOMAIN r \ {heap_end}
      PROVE  /\ r[x].next \in DOMAIN r /\ r[x].next >= x + SIZEOF_STRUCT_MEM
             /\ \A y \in DOMAIN r : y <= x \/ y >= r[x].next
             /\ r[x].next # heap_end => r[r[x].next].prev = x
             /\ x # 0 => r[x].prev \in DOMAIN r \ {heap_end} /\ r[r[x].prev].next = x
  <2>1. x \in DOMAIN m \ {heap_end} /\ x # b /\ x \in Nat /\ m[x].next \in Nat
    BY <1>3, Ordered
  <2>2. \A y \in DOMAIN m : y \in Nat BY DEF Chain, Offset
  <2>3. CASE x = a
    <3>1. r[x].next = n /\ n # b /\ n \in DOMAIN r BY <1>1, <1>2, <1>3, <1>6, <2>3
    <3>2. n >= x + SIZEOF_STRUCT_MEM BY <1>1, <1>2, <2>3 DEF Chain
    <3>3. ASSUME NEW y \in DOMAIN r PROVE y <= x \/ y >= n
      <4>1. y \in DOMAIN m /\ y # b /\ y \in Nat BY <1>3, <2>2
      <4>2. (y <= a \/ y >= b) /\ (y <= b \/ y >= n) BY <1>1, <4>1 DEF Chain, n
      <4> QED BY <4>1, <4>2, <1>1, <2>3
    <3>4. r[n].prev = x BY <3>1, <1>6, <2>3
    <3>5. ASSUME x # 0 PROVE r[x].prev \in DOMAIN r \ {heap_end} /\ r[r[x].prev].next = x
      <4>1. m[x].prev \in DOMAIN m \ {heap_end} /\ m[m[x].prev].next = x
        BY <2>1, <3>5 DEF Chain
      <4>2. m[x].prev \in Nat /\ m[x].prev < x BY <4>1, Ordered
      <4>3. m[x].prev # b /\ m[x].prev # a /\ x # n BY <4>2, <1>1, <1>2, <2>3
      <4> QED BY <4>1, <4>3, <1>3, <1>6
    <3> QED BY <3>1, <3>2, <3>3, <3>4, <3>5
  <2>4. CASE x # a
    <3>1. r[x].next = m[x].next BY <1>6, <2>4
    <3>2. m[x].next \in DOMAIN m /\ m[x].next >= x + SIZEOF_STRUCT_MEM
          /\ \A y \in DOMAIN m : y <= x \/ y >= m[x].next
      BY <2>1 DEF Chain
    <3>3. m[x].next # b
      <4>1. b >= m[x].next \/ x >= m[b].next \/ b = x BY <1>1, <2>1, Ordered
      <4>2. SUFFICES ASSUME m[x].next = b PROVE FALSE OBVIOUS
      <4>3. m[b].prev = x /\ m[b].prev = a BY <2>1, <4>2, <1>1 DEF Chain
      <4> QED BY <4>3, <2>4
    <3>4. r[x].next \in DOMAIN r BY <3>1, <3>2, <3>3, <1>3
    <3>5. r[x].next # heap_end => r[r[x].next].prev = x
      <4>1. SUFFICES ASSUME m[x].next # heap_end PROVE r[m[x].next].prev = x BY <3>1
      <4>2. m[m[x].next].prev = x BY <4>1, <2>1 DEF Chain
      <4>3. m[x].next # n
        <5>1. SUFFICES ASSUME m[x].next = n PROVE FALSE OBVIOUS
        <5>2. m[n].prev = x /\ m[n].prev = b BY <5>1, <4>1, <2>1, <1>1 DEF Chain, n
        <5> QED BY <5>2, <2>1
      <4> QED BY <4>2, <4>3, <3>1, <3>4, <1>6
    <3>6. ASSUME x # 0 PROVE r[x].prev \in DOMAIN r \ {heap_end} /\ r[r[x].prev].next = x
      <4>1. m[x].prev \in DOMAIN m \ {heap_end} /\ m[m[x].prev].next = x
        BY <2>1, <3>6 DEF Chain
      <4>2. CASE x = n
        <5>1. r[x].prev = a /\ a \in DOMAIN r BY <1>1, <1>3, <1>6, <4>2
        <5> QED BY <5>1, <1>6, <4>2
      <4>3. CASE x # n
        <5>1. m[x].prev # b BY <4>1, <4>3 DEF n
        <5>2. m[x].prev # a BY <4>1, <2>1
        <5> QED BY <5>1, <5>2, <4>1, <4>3, <1>3, <1>6
      <4> QED BY <4>2, <4>3
    <3> QED BY <3>1, <3>2, <3>4, <3>5, <3>6, <1>3
  <2> QED BY <2>3, <2>4
<1>10. Chain(r) BY <1>7, <1>8, <1>9 DEF Chain
<1> QED BY <1>1, <1>3, <1>6, <1>10 DEF n

\* The block a has room for size bytes and another header.
Room(m, a, size) ==
  /\ a \in DOMAIN m \ {heap_end} /\ size \in Nat
  /\ a + SIZEOF_STRUCT_MEM + size + SIZEOF_STRUCT_MEM <= m[a].next

\* r is m with the block a cut at b.
SplitShape(m, a, b, r) ==
  /\ Chain(r) /\ DOMAIN r = DOMAIN m \cup {b} /\ b \notin DOMAIN m
  /\ b \in Nat /\ b # heap_end
  /\ ~r[b].used /\ r[b].next = m[a].next /\ r[a].next = b
  /\ \A x \in DOMAIN m : r[x].used = m[x].used /\ (x # a => r[x].next = m[x].next)

\* rt_malloc, rt_realloc: splitting a block keeps the chain.
LEMMA SplitOK ==
  ASSUME NEW m, Chain(m), NEW a, NEW size, Room(m, a, size)
  PROVE  SplitShape(m, a, a + SIZEOF_STRUCT_MEM + size, Split(m, a, size))
<1>20. PICK b : b = a + SIZEOF_STRUCT_MEM + size OBVIOUS
<1>21. PICK r : r = Split(m, a, size) OBVIOUS
<1>22. /\ a \in DOMAIN m \ {heap_end} /\ size \in Nat
       /\ a + SIZEOF_STRUCT_MEM + size + SIZEOF_STRUCT_MEM <= m[a].next
  BY DEF Room
<1> DEFINE n == m[a].next
           mm == [m EXCEPT ![a].next = b, ![n].prev = IF n # heap_end THEN b ELSE @]
<1> USE Sizes
<1>2. r = [o \in DOMAIN m \cup {b} |->
             IF o = b THEN [used |-> FALSE, next |-> n, prev |-> a] ELSE mm[o]]
  BY <1>20, <1>21 DEF Split
<1>3. /\ a \in Nat /\ n \in Nat /\ n \in DOMAIN m /\ n <= heap_end /\ b \in Nat
      /\ a < b /\ b < n /\ n >= b + SIZEOF_STRUCT_MEM /\ b >= a + SIZEOF_STRUCT_MEM
  BY <1>20, <1>22, Ordered DEF Chain
<1>4. b \notin DOMAIN m BY <1>3, <1>22 DEF Chain
<1>5. DOMAIN r = DOMAIN m \cup {b} BY <1>2
<1>6. \A x \in DOMAIN m : m[x] \in Header BY DEF Chain
<1>7. r[b] = [used |-> FALSE, next |-> n, prev |-> a] BY <1>2
<1>8. ASSUME NEW x \in DOMAIN m
      PROVE  /\ r[x] \in Header
             /\ r[x].used = m[x].used
             /\ r[x].next = IF x = a THEN b ELSE m[x].next
             /\ r[x].prev = IF x = n /\ n # heap_end THEN b ELSE m[x].prev
  <2>1. n # a /\ b \in Offset /\ m[x] \in Header /\ x # b BY <1>3, <1>4, <1>6 DEF Offset
  <2>2. r[x] = mm[x] BY <1>2, <2>1
  <2>3. CASE x = a BY <2>1, <2>2, <2>3 DEF Header
  <2>4. CASE x = n BY <2>1, <2>2, <2>4 DEF Header
  <2>5. CASE x # a /\ x # n BY <2>1, <2>2, <2>5 DEF Header
  <2> QED BY <2>3, <2>4, <2>5
<1>9. r = [x \in DOMAIN r |-> r[x]] BY <1>2
<1> HIDE DEF n, mm
<1>10. DOMAIN r \subseteq Offset /\ r \in [DOMAIN r -> Header]
  <2>1. a \in Offset /\ n \in Offset /\ b \in Offset BY <1>3, <1>22 DEF Offset, Chain
  <2>2. r[b] \in Header
    <3>1. [used |-> FALSE, next |-> n, prev |-> a] \in Header BY <2>1 DEF Header
    <3> QED BY <3>1, <1>7
  <2> QED BY <1>5, <1>8, <1>9, <2>1, <2>2 DEF Chain
<1>11. {0, heap_end} \subseteq DOMAIN r /\ r[0].prev = 0 /\ r[heap_end].used
  <2>1. n # 0 BY <1>3
  <2> QED BY <1>5, <1>8, <2>1 DEF Chain
<1>12. ASSUME NEW x \in DOMAIN r \ {heap_end}
       PROVE  /\ r[x].next \in DOMAIN r /\ r[x].next >= x + SIZEOF_STRUCT_MEM
              /\ \A y \in DOMAIN r : y <= x \/ y >= r[x].next
              /\ r[x].next # heap_end => r[r[x].next].prev = x
              /\ x # 0 => r[x].prev \in DOMAIN r \ {heap_end} /\ r[r[x].prev].next = x
  <2>1. \A y \in DOMAIN r : y \in Nat BY <1>10 DEF Offset
  <2>2. CASE x = b
    <3>1. r[x].next = n /\ r[x].prev = a BY <1>7, <2>2
    <3>2. ASSUME NEW y \in DOMAIN r PROVE y <= x \/ y >= n
      <4>1. y \in DOMAIN m => (y <= a \/ y >= n) BY <1>22 DEF Chain, n
      <4> QED BY <4>1, <1>3, <1>5, <2>1, <2>2
    <3>3. n # heap_end => r[n].prev = x BY <1>3, <1>8, <1>22, <2>2
    <3>4. r[a].next = x BY <1>8, <1>22, <2>2
    <3> QED BY <3>1, <3>2, <3>3, <3>4, <1>3, <1>5, <1>22, <2>2
  <2>3. CASE x = a
    <3>1. r[x].next = b BY <1>8, <1>22, <2>3
    <3>2. ASSUME NEW y \in DOMAIN r PROVE y <= x \/ y >= b
      <4>1. y \in DOMAIN m => (y <= a \/ y >= n) BY <1>22 DEF Chain, n
      <4> QED BY <4>1, <1>3, <1>5, <2>1, <2>3
    <3>3. r[b].prev = x BY <1>7, <2>3
    <3>4. ASSUME x # 0 PROVE r[x].prev \in DOMAIN r \ {heap_end} /\ r[r[x].prev].next = x
      <4>1. m[x].prev \in DOMAIN m \ {heap_end} /\ m[m[x].prev].next = x
        BY <1>22, <2>3, <3>4 DEF Chain
      <4>2. m[x].prev # a /\ x # n BY <4>1, <1>3, <2>3 DEF n
      <4> QED BY <4>1, <4>2, <1>5, <1>8, <1>22, <2>3
    <3> QED BY <3>1, <3>2, <3>3, <3>4, <1>3, <1>5, <1>22, <2>3
  <2>4. CASE x # a /\ x # b
    <3>1. x \in DOMAIN m \ {heap_end} /\ r[x].next = m[x].next BY <1>5, <1>8, <2>4
    <3>2. /\ m[x].next \in DOMAIN m /\ m[x].next >= x + SIZEOF_STRUCT_MEM
          /\ \A y \in DOMAIN m : y <= x \/ y >= m[x].next
      BY <3>1 DEF Chain
    <3>3. b <= x \/ b >= m[x].next
      <4>1. x >= n \/ m[x].next <= a BY <1>22, <3>1, <2>4, Ordered DEF n
      <4>2. m[x].next \in Nat /\ x \in Nat BY <3>1, Ordered
      <4> QED BY <4>1, <4>2, <1>3
    <3>4. m[x].next # heap_end => r[m[x].next].prev = x
      <4>1. SUFFICES ASSUME m[x].next # heap_end PROVE r[m[x].next].prev = x OBVIOUS
      <4>2. m[m[x].next].prev = x BY <4>1, <3>1 DEF Chain
      <4>3. m[x].next # n
        <5>1. SUFFICES ASSUME m[x].next = n PROVE FALSE OBVIOUS
        <5>2. m[n].prev = a BY <1>22, <4>1, <5>1 DEF Chain, n
        <5> QED BY <5>1, <5>2, <4>2, <2>4
      <4> QED BY <4>2, <4>3, <3>2, <1>8
    <3>5. ASSUME x # 0 PROVE r[x].prev \in DOMAIN r \ {heap_end} /\ r[r[x].prev].next = x
      <4>1. m[x].prev \in DOMAIN m \ {heap_end} /\ m[m[x].prev].next = x
        BY <3>1, <3>5 DEF Chain
      <4>2. CASE x = n
        <5>1. r[x].prev = b BY <1>3, <1>8, <3>1, <4>2
        <5> QED BY <5>1, <1>3, <1>5, <1>7, <4>2
      <4>3. CASE x # n
        <5>1. m[x].prev # a BY <4>1, <4>3 DEF n
        <5> QED BY <5>1, <4>1, <4>3, <3>1, <1>5, <1>8
      <4> QED BY <4>2, <4>3
    <3> QED BY <3>1, <3>2, <3>3, <3>4, <3>5, <1>5
  <2> QED BY <2>2, <2>3, <2>4
<1>13. Chain(r) BY <1>10, <1>11, <1>12 DEF Chain
<1>14. SplitShape(m, a, b, r)
  BY <1>3, <1>4, <1>5, <1>7, <1>8, <1>13, <1>22 DEF n, SplitShape
<1> QED BY <1>14, <1>20, <1>21

\* The chain with the block a marked used or free.
Marked(m, a, v) == [m EXCEPT ![a].used = v]

\* r is m with another mark on a.
MarkShape(m, a, v, r) ==
  /\ Chain(r) /\ DOMAIN r = DOMAIN m /\ r[a].used = v
  /\ \A x \in DOMAIN m : r[x].next = m[x].next /\ (x # a => r[x].used = m[x].used)

\* Marking a block used or free keeps the chain.
LEMMA MarkOK ==
  ASSUME NEW m, Chain(m), NEW a \in DOMAIN m \ {heap_end}, NEW v \in BOOLEAN
  PROVE  MarkShape(m, a, v, Marked(m, a, v))
<1> DEFINE r == Marked(m, a, v)
<1>1. DOMAIN r = DOMAIN m BY DEF Marked
<1>2. ASSUME NEW x \in DOMAIN m
      PROVE  /\ r[x] \in Header /\ r[x].next = m[x].next /\ r[x].prev = m[x].prev
             /\ r[x].used = IF x = a THEN v ELSE m[x].used
  <2>1. m[x] \in Header BY DEF Chain
  <2> QED BY <2>1 DEF Header, Marked
<1>3. r = [x \in DOMAIN r |-> r[x]] BY DEF Marked
<1> HIDE DEF r
<1>7. r \in [DOMAIN r -> Header] BY <1>1, <1>2, <1>3
<1>4. r[heap_end].used /\ r[0].prev = 0 /\ {0, heap_end} \subseteq DOMAIN r
  BY <1>1, <1>2 DEF Chain
<1>5. ASSUME NEW x \in DOMAIN r \ {heap_end}
      PROVE  /\ r[x].next \in DOMAIN r /\ r[x].next >= x + SIZEOF_STRUCT_MEM
             /\ \A y \in DOMAIN r : y <= x \/ y >= r[x].next
             /\ r[x].next # heap_end => r[r[x].next].prev = x
             /\ x # 0 => r[x].prev \in DOMAIN r \ {heap_end} /\ r[r[x].prev].next = x
  <2>1. /\ m[x].next \in DOMAIN m /\ m[x].next >= x + SIZEOF_STRUCT_MEM
        /\ \A y \in DOMAIN m : y <= x \/ y >= m[x].next
        /\ m[x].next # heap_end => m[m[x].next].prev = x
        /\ x # 0 => m[x].prev \in DOMAIN m \ {heap_end} /\ m[m[x].prev].next = x
    BY <1>1 DEF Chain
  <2> QED BY <2>1, <1>1, <1>2
<1>6. Chain(r)
  <2>1. DOMAIN r \subseteq Offset BY <1>1 DEF Chain
  <2> QED BY <2>1, <1>7, <1>4, <1>5 DEF Chain
<1> QED BY <1>1, <1>2, <1>6 DEF MarkShape, r

-----------------------------------------------------------------------------
(* The bytes in use *)

\* r has the used blocks of m, with the same extent.
Keeps(m, r) ==
  /\ \A x \in DOMAIN m \ {heap_end} :
       m[x].used => x \in DOMAIN r /\ r[x].used /\ r[x].next = m[x].next
  /\ \A x \in DOMAIN r \ {heap_end} : r[x].used => x \in DOMAIN m /\ m[x].used

\* The same used blocks cover the same bytes.
LEMMA SameBytes ==
  ASSUME NEW m, NEW r, Keeps(m, r)
  PROVE  Bytes(r) = Bytes(m)
<1>1. ASSUME NEW o \in Offset
      PROVE  (\E a \in DOMAIN r \ {heap_end} : r[a].used /\ a <= o /\ o < r[a].next)
               <=> (\E a \in DOMAIN m \ {heap_end} : m[a].used /\ a <= o /\ o < m[a].next)
  BY Zenon DEF Keeps
<1> QED BY <1>1 DEF Bytes

\* The used bytes are finitely many and lie inside the heap.
LEMMA BytesFinite ==
  ASSUME NEW m, Chain(m)
  PROVE  IsFiniteSet(Bytes(m)) /\ Cardinality(Bytes(m)) \in Offset
<1> USE Sizes
<1>1. ASSUME NEW o \in Bytes(m) PROVE o \in 0 .. (heap_end - 1)
  <2>1. o \in Offset BY DEF Bytes
  <2>2. PICK a \in DOMAIN m \ {heap_end} : m[a].used /\ a <= o /\ o < m[a].next
    BY DEF Bytes
  <2>3. m[a].next \in Nat /\ m[a].next <= heap_end BY Ordered
  <2> QED BY <2>1, <2>2, <2>3 DEF Offset
<1>2. IsFiniteSet(0 .. (heap_end - 1)) /\ Cardinality(0 .. (heap_end - 1)) <= heap_end
  BY FS_Interval
<1>3. Bytes(m) \in SUBSET (0 .. (heap_end - 1)) BY <1>1
<1>4. /\ IsFiniteSet(Bytes(m))
      /\ Cardinality(Bytes(m)) <= Cardinality(0 .. (heap_end - 1))
  BY <1>2, <1>3, FS_Subset
<1>5. Cardinality(Bytes(m)) \in Nat /\ Cardinality(0 .. (heap_end - 1)) \in Nat
  BY <1>2, <1>4, FS_CardinalityType
<1> QED BY <1>2, <1>4, <1>5 DEF Offset

\* A set of bytes and an interval outside of it.
LEMMA AddInterval ==
  ASSUME NEW S, IsFiniteSet(S), NEW a \in Nat, NEW n \in Nat, a < n,
         S \cap (a .. (n - 1)) = {}
  PROVE  Cardinality(S \cup (a .. (n - 1))) = Cardinality(S) + (n - a)
<1>1. IsFiniteSet(a .. (n - 1)) /\ Cardinality(a .. (n - 1)) = n - a BY FS_Interval
<1>2. Cardinality(S \cup (a .. (n - 1)))
        = Cardinality(S) + Cardinality(a .. (n - 1)) - Cardinality(S \cap (a .. (n - 1)))
  BY <1>1, FS_Union
<1>3. Cardinality(S \cap (a .. (n - 1))) = 0 BY FS_EmptySet
<1>4. Cardinality(S) \in Nat BY FS_CardinalityType
<1> QED BY <1>1, <1>2, <1>3, <1>4

\* r has one used block more than m, at a.
LEMMA OneMoreBlock ==
  ASSUME NEW m, Chain(m), NEW r, Chain(r),
         NEW a \in DOMAIN r \ {heap_end}, r[a].used,
         a \in DOMAIN m => ~m[a].used,
         \A x \in DOMAIN r \ {heap_end, a} :
           r[x].used => x \in DOMAIN m /\ m[x].used /\ m[x].next = r[x].next,
         \A x \in DOMAIN m \ {heap_end, a} :
           m[x].used => x \in DOMAIN r /\ r[x].used /\ r[x].next = m[x].next
  PROVE  Cardinality(Bytes(r)) = Cardinality(Bytes(m)) + (r[a].next - a)
<1> DEFINE n == r[a].next
           I == a .. (n - 1)
<1> USE Sizes
<1>1. a \in Nat /\ n \in Nat /\ a < n /\ n <= heap_end BY Ordered
<1>2. Bytes(r) = Bytes(m) \cup I
  <2>1. ASSUME NEW o \in Bytes(r) PROVE o \in Bytes(m) \cup I
    <3>1. o \in Offset BY DEF Bytes
    <3>2. PICK x \in DOMAIN r \ {heap_end} : r[x].used /\ x <= o /\ o < r[x].next
      BY DEF Bytes
    <3>3. CASE x = a BY <1>1, <3>1, <3>2, <3>3 DEF Offset
    <3>4. CASE x # a
      <4>1. x \in DOMAIN m \ {heap_end} /\ m[x].used /\ m[x].next = r[x].next
        BY <3>2, <3>4
      <4> QED BY <3>1, <3>2, <4>1 DEF Bytes
    <3> QED BY <3>3, <3>4
  <2>2. ASSUME NEW o \in I PROVE o \in Bytes(r)
    <3>1. o \in Nat /\ a <= o /\ o < n BY <1>1
    <3>2. o \in Offset BY <3>1, <1>1 DEF Offset
    <3> QED BY <3>1, <3>2 DEF Bytes
  <2>3. ASSUME NEW o \in Bytes(m) PROVE o \in Bytes(r)
    <3>1. o \in Offset BY DEF Bytes
    <3>2. PICK x \in DOMAIN m \ {heap_end} : m[x].used /\ x <= o /\ o < m[x].next
      BY DEF Bytes
    <3>3. x \in DOMAIN r \ {heap_end} /\ r[x].used /\ r[x].next = m[x].next BY <3>2
    <3> QED BY <3>1, <3>2, <3>3 DEF Bytes
  <2> QED BY <2>1, <2>2, <2>3
<1>3. Bytes(m) \cap I = {}
  <2>1. SUFFICES ASSUME NEW o \in Bytes(m), o \in I PROVE FALSE OBVIOUS
  <2>2. PICK x \in DOMAIN m \ {heap_end} : m[x].used /\ x <= o /\ o < m[x].next
    BY <2>1 DEF Bytes
  <2>3. x # a /\ x \in DOMAIN r \ {heap_end} /\ r[x].next = m[x].next BY <2>2
  <2>4. x >= n \/ r[x].next <= a BY <2>3, Ordered
  <2>5. x \in Nat /\ m[x].next \in Nat BY Ordered
  <2>6. o \in Nat /\ a <= o /\ o < n BY <2>1, <1>1
  <2> QED BY <2>2, <2>3, <2>4, <2>5, <2>6, <1>1
<1>4. IsFiniteSet(Bytes(m)) BY BytesFinite
<1> HIDE DEF n
<1>5. Cardinality(Bytes(m) \cup I) = Cardinality(Bytes(m)) + (n - a)
  BY <1>1, <1>3, <1>4, AddInterval
<1> QED BY <1>2, <1>5 DEF n

-----------------------------------------------------------------------------
(* plug_holes *)

\* lfree is at a free block or at the end of the heap.
Usable(h) == h.lfree \in DOMAIN h.mem /\ (h.lfree = heap_end \/ ~h.mem[h.lfree].used)

\* A heap in which only the free block a may have free neighbours.
Pluggable(h, a) ==
  /\ h = [mem |-> h.mem, lfree |-> h.lfree]
  /\ Chain(h.mem) /\ Usable(h) /\ Apart(h.mem, {a})
  /\ a \in DOMAIN h.mem \ {heap_end} /\ ~h.mem[a].used

\* The hole after a is joined to a.
LEMMA PlugForwardOK ==
  ASSUME NEW h, NEW a, Pluggable(h, a), NEW r, r = PlugForward(h, a)
  PROVE  /\ Pluggable(r, a) /\ r.mem[r.mem[a].next].used
         /\ Keeps(h.mem, r.mem)
<1> DEFINE m == h.mem
           n == m[a].next
<1> USE Sizes
<1>1. Chain(m) /\ a \in DOMAIN m \ {heap_end} /\ ~m[a].used /\ Apart(m, {a}) /\ Usable(h)
  BY DEF Pluggable
<1>2. n # a /\ n \in DOMAIN m BY <1>1, Ordered DEF Chain
<1>3. CASE m[n].used \/ n = heap_end
  <2>1. r = h BY <1>3, <1>2 DEF PlugForward, Chain
  <2>2. m[n].used BY <1>1, <1>3 DEF Chain
  <2>3. Keeps(m, m) BY Zenon DEF Keeps
  <2> QED BY <2>1, <2>2, <2>3
<1>4. CASE ~m[n].used /\ n # heap_end
  <2> DEFINE q == Join(m, a, n)
  <2>1. r = [mem |-> q, lfree |-> IF h.lfree = n THEN a ELSE h.lfree]
    BY <1>2, <1>4 DEF PlugForward
  <2>2. r.mem = q /\ r.lfree = (IF h.lfree = n THEN a ELSE h.lfree) BY <2>1
  <2> HIDE DEF m, n, q
  <2>3. /\ Chain(q) /\ DOMAIN q = DOMAIN m \ {n} /\ a # n
        /\ q[a].next = m[n].next
        /\ \A x \in DOMAIN q : q[x].used = m[x].used /\ (x # a => q[x].next = m[x].next)
    BY <1>1, <1>4, JoinOK DEF n, q
  <2>4. a \in DOMAIN q \ {heap_end} /\ ~q[a].used BY <1>1, <2>3
  <2>5. Usable(r) BY <1>1, <1>4, <2>2, <2>3, <2>4 DEF Usable, m
  <2>6. q[q[a].next].used
    <3>1. n \in DOMAIN m \ {heap_end} /\ ~m[n].used BY <1>2, <1>4
    <3>2. a < n /\ n < m[n].next /\ a \in Nat /\ n \in Nat /\ m[n].next \in Nat
      BY <1>1, <3>1, Ordered DEF n
    <3>3. m[n].next # a /\ m[n].next # n BY <3>2
    <3>4. m[m[n].next].used BY <1>1, <3>1, <3>3, <2>3 DEF Apart
    <3>5. m[n].next \in DOMAIN q BY <1>1, <3>1, <3>3, <2>3 DEF Chain
    <3> QED BY <3>4, <3>5, <2>3
  <2>7. Apart(q, {a})
    <3>1. SUFFICES ASSUME NEW x \in DOMAIN q \ {heap_end}, x # a, q[x].next # a
                   PROVE  q[x].used \/ q[q[x].next].used
      BY DEF Apart
    <3>2. x \in DOMAIN m \ {heap_end} /\ q[x].next = m[x].next /\ q[x].used = m[x].used
      BY <3>1, <2>3
    <3>3. m[x].used \/ m[m[x].next].used BY <1>1, <3>1, <3>2 DEF Apart
    <3>4. q[x].next \in DOMAIN q BY <3>1, <2>3 DEF Chain
    <3> QED BY <3>2, <3>3, <3>4, <2>3
  <2>8. Keeps(m, q)
    <3>1. ASSUME NEW x \in DOMAIN m \ {heap_end}, m[x].used
          PROVE  x \in DOMAIN q /\ q[x].used /\ q[x].next = m[x].next
      <4>1. x # n /\ x # a BY <1>1, <1>4, <3>1
      <4> QED BY <4>1, <2>3, <3>1
    <3>2. ASSUME NEW x \in DOMAIN q \ {heap_end}, q[x].used
          PROVE  x \in DOMAIN m /\ m[x].used
      BY <3>2, <2>3
    <3> QED BY <3>1, <3>2 DEF Keeps
  <2>9. r = [mem |-> r.mem, lfree |-> r.lfree] BY <2>1, <2>2
  <2> QED BY <2>2, <2>3, <2>4, <2>5, <2>6, <2>7, <2>8, <2>9 DEF Pluggable, m
<1> QED BY <1>3, <1>4

\* The hole before a is joined to a.
LEMMA PlugBackwardOK ==
  ASSUME NEW h, NEW a, Pluggable(h, a), h.mem[h.mem[a].next].used,
         NEW r, r = PlugBackward(h, a)
  PROVE  /\ r = [mem |-> r.mem, lfree |-> r.lfree]
         /\ Chain(r.mem) /\ Usable(r) /\ Apart(r.mem, {})
         /\ Keeps(h.mem, r.mem)
<1> DEFINE m == h.mem
           p == m[a].prev
<1> USE Sizes
<1>1. Chain(m) /\ a \in DOMAIN m \ {heap_end} /\ ~m[a].used /\ Apart(m, {a}) /\ Usable(h)
      /\ m[m[a].next].used
  BY DEF Pluggable
<1>2. p # a => p \in DOMAIN m \ {heap_end} /\ m[p].next = a BY <1>1 DEF Chain
<1>3. CASE p = a \/ m[p].used
  <2>1. r = h BY <1>3 DEF PlugBackward
  <2>2. ASSUME NEW x \in DOMAIN m \ {heap_end}, m[x].next = a PROVE m[x].used
    <3>1. p = x BY <1>1, <2>2 DEF Chain
    <3>2. x # a BY <2>2, Ordered, <1>1
    <3> QED BY <3>1, <3>2, <1>3
  <2>3. Apart(m, {}) BY <1>1, <2>2 DEF Apart
  <2>4. Keeps(m, m) BY Zenon DEF Keeps
  <2> QED BY <2>1, <2>3, <2>4 DEF Pluggable
<1>4. CASE p # a /\ ~m[p].used
  <2> DEFINE q == Join(m, p, a)
  <2>1. r = [mem |-> q, lfree |-> IF h.lfree = a THEN p ELSE h.lfree]
    BY <1>4 DEF PlugBackward
  <2>2. r.mem = q /\ r.lfree = (IF h.lfree = a THEN p ELSE h.lfree) BY <2>1
  <2> HIDE DEF m, p, q
  <2>3. /\ Chain(q) /\ DOMAIN q = DOMAIN m \ {a} /\ q[p].next = m[a].next
        /\ \A x \in DOMAIN q : q[x].used = m[x].used /\ (x # p => q[x].next = m[x].next)
    BY <1>1, <1>2, <1>4, JoinOK DEF q
  <2>4. p \in DOMAIN q \ {heap_end} /\ ~q[p].used BY <1>2, <1>4, <2>3
  <2>5. Usable(r) BY <1>1, <1>4, <2>2, <2>3, <2>4 DEF Usable, m
  <2>6. Apart(q, {})
    <3>1. SUFFICES ASSUME NEW x \in DOMAIN q \ {heap_end}
                   PROVE  q[x].used \/ q[q[x].next].used
      BY DEF Apart
    <3>2. q[x].next \in DOMAIN q /\ q[x].next # a BY <2>3 DEF Chain
    <3>3. CASE x = p BY <3>2, <3>3, <1>1, <2>3
    <3>4. CASE x # p
      <4>1. x \in DOMAIN m \ {heap_end} /\ x # a /\ q[x].next = m[x].next
        BY <2>3, <3>4
      <4>2. m[x].used \/ m[m[x].next].used BY <1>1, <4>1, <3>2 DEF Apart
      <4> QED BY <4>1, <4>2, <3>2, <2>3
    <3> QED BY <3>3, <3>4
  <2>7. Keeps(m, q)
    <3>1. ASSUME NEW x \in DOMAIN m \ {heap_end}, m[x].used
          PROVE  x \in DOMAIN q /\ q[x].used /\ q[x].next = m[x].next
      <4>1. x # p /\ x # a BY <1>1, <1>4, <3>1
      <4> QED BY <4>1, <2>3, <3>1
    <3>2. ASSUME NEW x \in DOMAIN q \ {heap_end}, q[x].used
          PROVE  x \in DOMAIN m /\ m[x].used
      BY <3>2, <2>3
    <3> QED BY <3>1, <3>2 DEF Keeps
  <2>8. r = [mem |-> r.mem, lfree |-> r.lfree] BY <2>1, <2>2
  <2> QED BY <2>2, <2>3, <2>5, <2>6, <2>7, <2>8 DEF m
<1> QED BY <1>3, <1>4

\* plug_holes leaves no free neighbours and the used blocks as they were.
LEMMA PlugHolesOK ==
  ASSUME NEW h, NEW a, Pluggable(h, a), NEW r, r = plug_holes(h, a)
  PROVE  /\ Chain(r.mem) /\ Usable(r) /\ Apart(r.mem, {})
         /\ Keeps(h.mem, r.mem)
<1> DEFINE f == PlugForward(h, a)
<1>1. Pluggable(f, a) /\ f.mem[f.mem[a].next].used /\ Keeps(h.mem, f.mem)
  BY PlugForwardOK
<1>2. r = PlugBackward(f, a) BY DEF plug_holes
<1> HIDE DEF f
<1>3. /\ Chain(r.mem) /\ Usable(r) /\ Apart(r.mem, {})
      /\ Keeps(f.mem, r.mem)
  BY <1>1, <1>2, PlugBackwardOK
<1>4. Keeps(h.mem, r.mem) BY <1>1, <1>3, Zenon DEF Keeps
<1> QED BY <1>3, <1>4

-----------------------------------------------------------------------------
(* rt_malloc, rt_free and the shrinking rt_realloc on the chain *)

\* A heap at rest.
Sound(h) == Chain(h.mem) /\ Usable(h) /\ Apart(h.mem, {})

\* r has the used blocks of m but a.
Loses(m, r, a) ==
  /\ \A x \in DOMAIN m \ {heap_end, a} :
       m[x].used => x \in DOMAIN r /\ r[x].used /\ r[x].next = m[x].next
  /\ \A x \in DOMAIN r \ {heap_end} :
       r[x].used => x # a /\ x \in DOMAIN m /\ m[x].used

\* rt_free gives up one block.
LEMMA FreedOK ==
  ASSUME NEW h, Sound(h), NEW a \in DOMAIN h.mem \ {heap_end}, h.mem[a].used,
         NEW r, r = Freed(h, a)
  PROVE  /\ Sound(r) /\ Loses(h.mem, r.mem, a)
         /\ Cardinality(Bytes(h.mem)) = Cardinality(Bytes(r.mem)) + Total(h.mem, a)
<1> DEFINE m == h.mem
           q == Marked(m, a, FALSE)
           l == IF a < h.lfree THEN a ELSE h.lfree
           g == [mem |-> q, lfree |-> l]
<1>1. Chain(m) /\ Apart(m, {}) /\ Usable(h) BY DEF Sound
<1>2. r = plug_holes(g, a) BY DEF Freed, Marked
<1>3. g.mem = q /\ g.lfree = l OBVIOUS
<1> HIDE DEF m, q, l
<1>4. /\ Chain(q) /\ DOMAIN q = DOMAIN m /\ ~q[a].used
      /\ \A x \in DOMAIN m : q[x].next = m[x].next /\ (x # a => q[x].used = m[x].used)
  <2>1. a \in DOMAIN m \ {heap_end} BY DEF m
  <2>2. MarkShape(m, a, FALSE, q) BY <1>1, <2>1, MarkOK DEF q
  <2> QED BY <2>2 DEF MarkShape
<1>5. a \in DOMAIN q \ {heap_end} BY <1>4 DEF m
<1>6. Usable(g)
  <2>1. l = a \/ l = h.lfree BY DEF l
  <2> QED BY <1>1, <1>3, <1>4, <1>5, <2>1 DEF Usable, m
<1>7. Apart(q, {a})
  <2>1. SUFFICES ASSUME NEW x \in DOMAIN q \ {heap_end}, x # a, q[x].next # a
                 PROVE  q[x].used \/ q[q[x].next].used
    BY DEF Apart
  <2>2. m[x].used \/ m[m[x].next].used BY <1>1, <1>4, <2>1 DEF Apart
  <2>3. m[x].next \in DOMAIN m BY <1>1, <1>4, <2>1 DEF Chain
  <2> QED BY <2>1, <2>2, <2>3, <1>4
<1>8. Pluggable(g, a) BY <1>3, <1>4, <1>5, <1>6, <1>7 DEF Pluggable, g
<1> HIDE DEF g
<1>9. Chain(r.mem) /\ Usable(r) /\ Apart(r.mem, {}) /\ Keeps(q, r.mem)
  BY <1>2, <1>3, <1>8, PlugHolesOK
<1>10. Bytes(r.mem) = Bytes(q) BY <1>9, SameBytes
<1>11. Cardinality(Bytes(m)) = Cardinality(Bytes(q)) + (m[a].next - a)
  <2>1. a \in DOMAIN m \ {heap_end} /\ m[a].used BY DEF m
  <2>2. \A x \in DOMAIN m \ {heap_end, a} :
          m[x].used => x \in DOMAIN q /\ q[x].used /\ q[x].next = m[x].next
    BY <1>4
  <2>3. \A x \in DOMAIN q \ {heap_end, a} :
          q[x].used => x \in DOMAIN m /\ m[x].used /\ m[x].next = q[x].next
    BY <1>4
  <2> QED BY <1>1, <1>4, <2>1, <2>2, <2>3, OneMoreBlock
<1>12. Loses(m, r.mem, a)
  <2>1. ASSUME NEW x \in DOMAIN m \ {heap_end, a}, m[x].used
        PROVE  x \in DOMAIN r.mem /\ r.mem[x].used /\ r.mem[x].next = m[x].next
    <3>1. x \in DOMAIN q \ {heap_end} /\ q[x].used /\ q[x].next = m[x].next
      BY <1>4, <2>1
    <3> QED BY <3>1, <1>9 DEF Keeps
  <2>2. ASSUME NEW x \in DOMAIN r.mem \ {heap_end}, r.mem[x].used
        PROVE  x # a /\ x \in DOMAIN m /\ m[x].used
    <3>1. x \in DOMAIN q /\ q[x].used BY <2>2, <1>9 DEF Keeps
    <3> QED BY <3>1, <1>4
  <2> QED BY <2>1, <2>2 DEF Loses
<1> QED BY <1>9, <1>10, <1>11, <1>12 DEF Sound, Total, m

\* rt_malloc takes one free block and splits it when it is large enough.
LEMMA TakenOK ==
  ASSUME NEW h, Sound(h), NEW a \in DOMAIN h.mem \ {heap_end}, ~h.mem[a].used,
         NEW size \in Nat, Data(h.mem, a) >= size,
         NEW r, r = Taken(h, a, size)
  PROVE  /\ Sound(r) /\ Loses(r.mem, h.mem, a)
         /\ a \in DOMAIN r.mem /\ r.mem[a].used /\ Data(r.mem, a) >= size
         /\ Counted(h.mem, a, size) \in Nat
         /\ Cardinality(Bytes(r.mem))
              = Cardinality(Bytes(h.mem)) + Counted(h.mem, a, size)
<1> DEFINE m == h.mem
           s == IF Splits(m, a, size) THEN Split(m, a, size) ELSE m
           q == Marked(s, a, TRUE)
           free == {b \in DOMAIN q : b >= a /\ ~q[b].used} \cup {heap_end}
           b == a + SIZEOF_STRUCT_MEM + size
<1> USE Sizes
<1>1. Chain(m) /\ Apart(m, {}) /\ Usable(h) BY DEF Sound
<1>2. r = [mem |-> q, lfree |-> IF h.lfree = a THEN Min(free) ELSE h.lfree]
  BY DEF Taken, Marked
<1>3. r.mem = q /\ r.lfree = (IF h.lfree = a THEN Min(free) ELSE h.lfree) BY <1>2
<1>4. a \in DOMAIN m \ {heap_end} /\ ~m[a].used /\ a \in Nat /\ m[a].next \in Nat
      /\ m[a].next - a - SIZEOF_STRUCT_MEM >= size
  BY <1>1, Ordered DEF Data
<1> HIDE DEF m, q, s, free
\* The facts about the chain s after the split, whether or not there is one.
<1>5. /\ Chain(s) /\ a \in DOMAIN s \ {heap_end}
      /\ \A x \in DOMAIN m : /\ x \in DOMAIN s /\ s[x].used = m[x].used
                             /\ x # a => s[x].next = m[x].next
      /\ \A x \in DOMAIN s \ DOMAIN m :
           x = s[a].next /\ ~s[x].used /\ s[x].next = m[a].next
      /\ s[a].next # m[a].next => s[a].next \notin DOMAIN m
      /\ s[a].next - a = Counted(m, a, size)
      /\ s[a].next - a - SIZEOF_STRUCT_MEM >= size
  <2>1. CASE Splits(m, a, size)
    <3>1. s = Split(m, a, size) BY <2>1 DEF s
    <3>2. a + SIZEOF_STRUCT_MEM + size + SIZEOF_STRUCT_MEM <= m[a].next
      BY <2>1, <1>4 DEF Splits, Data
    <3>3. b \in Nat /\ b < m[a].next BY <3>2, <1>4
    <3> HIDE DEF b
    <3>4. /\ Chain(s) /\ DOMAIN s = DOMAIN m \cup {b} /\ b \notin DOMAIN m
          /\ ~s[b].used /\ s[b].next = m[a].next /\ s[a].next = b
          /\ \A x \in DOMAIN m : s[x].used = m[x].used /\ (x # a => s[x].next = m[x].next)
      <4>1. Room(m, a, size) BY <1>4, <3>2 DEF Room
      <4>2. SplitShape(m, a, b, s) BY <1>1, <3>1, <4>1, SplitOK DEF b
      <4> QED BY <4>2 DEF SplitShape
    <3>5. b - a = Counted(m, a, size) /\ b - a - SIZEOF_STRUCT_MEM >= size
      BY <2>1, <1>4 DEF Counted, b
    <3> QED BY <1>4, <3>4, <3>5
  <2>2. CASE ~Splits(m, a, size)
    <3>1. s = m BY <2>2 DEF s
    <3>2. m[a].next - a = Counted(m, a, size) BY <2>2 DEF Counted, Total
    <3> QED BY <3>1, <3>2, <1>1, <1>4
  <2> QED BY <2>1, <2>2
<1>6. /\ Chain(q) /\ DOMAIN q = DOMAIN s /\ q[a].used
      /\ \A x \in DOMAIN s : q[x].next = s[x].next /\ (x # a => q[x].used = s[x].used)
  <2>1. MarkShape(s, a, TRUE, q) BY <1>5, MarkOK DEF q
  <2> QED BY <2>1 DEF MarkShape
<1>7. Usable(r)
  <2>1. CASE h.lfree = a
    <3>1. DOMAIN q \subseteq Nat /\ heap_end \in DOMAIN q BY <1>6 DEF Chain, Offset
    <3>2. free \in SUBSET Nat /\ free # {} BY <3>1 DEF free
    <3>3. Min(free) \in free BY <3>2, LeastOK
    <3>4. Min(free) = heap_end \/ (Min(free) \in DOMAIN q /\ ~q[Min(free)].used)
      BY <3>3 DEF free
    <3> QED BY <2>1, <3>1, <3>4, <1>3 DEF Usable
  <2>2. CASE h.lfree # a
    <3>1. h.lfree \in DOMAIN m /\ (h.lfree = heap_end \/ ~m[h.lfree].used)
      BY <1>1 DEF Usable, m
    <3> QED BY <2>2, <3>1, <1>3, <1>5, <1>6 DEF Usable
  <2> QED BY <2>1, <2>2
<1>8. Apart(q, {})
  <2>1. SUFFICES ASSUME NEW x \in DOMAIN q \ {heap_end}, x # a
                 PROVE  q[x].used \/ q[q[x].next].used
    BY <1>6 DEF Apart
  <2>2. q[x].next \in DOMAIN q /\ q[x].next = s[x].next /\ q[x].used = s[x].used
    BY <1>6, <2>1 DEF Chain
  <2>3. CASE q[x].next = a BY <2>3, <1>6
  <2>4. CASE q[x].next # a /\ x \in DOMAIN m
    <3>1. s[x].next = m[x].next /\ s[x].used = m[x].used BY <2>1, <2>4, <1>5
    <3>2. m[x].used \/ m[m[x].next].used BY <2>1, <2>4, <1>1 DEF Apart
    <3>3. m[x].next \in DOMAIN m BY <2>1, <2>4, <1>1 DEF Chain
    <3> QED BY <2>2, <2>4, <3>1, <3>2, <3>3, <1>5, <1>6
  <2>5. CASE q[x].next # a /\ x \notin DOMAIN m
    <3>1. s[x].next = m[a].next BY <2>1, <2>5, <1>5, <1>6
    <3>2. m[m[a].next].used /\ m[a].next \in DOMAIN m BY <1>1, <1>4 DEF Apart, Chain
    <3> QED BY <2>2, <2>5, <3>1, <3>2, <1>5, <1>6
  <2> QED BY <2>3, <2>4, <2>5
<1>9. ASSUME NEW x \in DOMAIN q \ {heap_end, a}, q[x].used
      PROVE  x \in DOMAIN m /\ m[x].used /\ m[x].next = q[x].next
  <2>1. x \in DOMAIN s /\ s[x].used /\ s[x].next = q[x].next BY <1>6, <1>9
  <2>2. x \in DOMAIN m BY <2>1, <1>5
  <2> QED BY <2>1, <2>2, <1>5, <1>9
<1>10. ASSUME NEW x \in DOMAIN m \ {heap_end}, m[x].used
       PROVE  x # a /\ x \in DOMAIN q /\ q[x].used /\ q[x].next = m[x].next
  BY <1>4, <1>5, <1>6, <1>10
<1>11. Loses(q, m, a) BY <1>9, <1>10 DEF Loses
<1>12. Cardinality(Bytes(q)) = Cardinality(Bytes(m)) + (q[a].next - a)
  <2>1. a \in DOMAIN q \ {heap_end} BY <1>5, <1>6
  <2> QED BY <1>1, <1>4, <1>6, <1>9, <1>10, <2>1, OneMoreBlock
<1>13. /\ q[a].next - a = Counted(m, a, size) /\ Data(q, a) >= size
       /\ Counted(m, a, size) \in Nat
  <2>1. q[a].next = s[a].next BY <1>5, <1>6
  <2>2. s[a].next \in Nat /\ a < s[a].next BY <1>5, Ordered
  <2> QED BY <1>4, <1>5, <2>1, <2>2 DEF Data
<1>14. a \in DOMAIN q BY <1>5, <1>6
<1> QED BY <1>3, <1>6, <1>7, <1>8, <1>11, <1>12, <1>13, <1>14 DEF Sound, m

\* rt_realloc cuts off the end of a block in place.
LEMMA ShrunkOK ==
  ASSUME NEW h, Sound(h), NEW a \in DOMAIN h.mem \ {heap_end}, h.mem[a].used,
         NEW size \in Nat, size + SIZEOF_STRUCT_MEM < Data(h.mem, a),
         NEW s, s = Split(h.mem, a, size),
         NEW r, r = plug_holes([mem |-> s, lfree |-> h.lfree], s[a].next)
  PROVE  /\ Sound(r)
         /\ \A x \in DOMAIN h.mem \ {heap_end} : h.mem[x].used =>
              /\ x \in DOMAIN r.mem /\ r.mem[x].used
              /\ x # a => r.mem[x].next = h.mem[x].next
         /\ \A x \in DOMAIN r.mem \ {heap_end} :
              r.mem[x].used => x \in DOMAIN h.mem /\ h.mem[x].used
         /\ Data(r.mem, a) = size
         /\ Cardinality(Bytes(r.mem))
              = Cardinality(Bytes(h.mem)) - (Data(h.mem, a) - size)
<1> DEFINE m == h.mem
           n == m[a].next
           b == a + SIZEOF_STRUCT_MEM + size
           g == [mem |-> s, lfree |-> h.lfree]
           q == Marked(m, a, FALSE)
<1> USE Sizes
<1>1. Chain(m) /\ Apart(m, {}) /\ Usable(h) BY DEF Sound
<1>2. a \in DOMAIN m \ {heap_end} /\ m[a].used /\ a \in Nat /\ n \in Nat
  BY <1>1, Ordered
<1>3. a + SIZEOF_STRUCT_MEM + size + SIZEOF_STRUCT_MEM <= n BY <1>2 DEF Data
<1>4. b \in Nat /\ a < b /\ b < n BY <1>2, <1>3
<1>5. g.mem = s /\ g.lfree = h.lfree /\ g = [mem |-> g.mem, lfree |-> g.lfree] OBVIOUS
<1>6. q = Marked(m, a, FALSE) /\ s = Split(m, a, size) OBVIOUS
<1> HIDE DEF m, q
<1>20. /\ Chain(q) /\ DOMAIN q = DOMAIN m /\ ~q[a].used
       /\ \A x \in DOMAIN m : q[x].next = m[x].next /\ (x # a => q[x].used = m[x].used)
  <2>1. MarkShape(m, a, FALSE, q) BY <1>1, <1>2, MarkOK DEF q
  <2> QED BY <2>1 DEF MarkShape
<1>7. /\ Chain(s) /\ DOMAIN s = DOMAIN m \cup {b} /\ b \notin DOMAIN m
      /\ b # heap_end
      /\ ~s[b].used /\ s[b].next = n /\ s[a].next = b
      /\ \A x \in DOMAIN m : s[x].used = m[x].used /\ (x # a => s[x].next = m[x].next)
  <2>1. Room(m, a, size) BY <1>2, <1>3 DEF Room, n
  <2> HIDE DEF b
  <2>2. SplitShape(m, a, b, s) BY <1>1, <1>6, <2>1, SplitOK DEF b
  <2> QED BY <2>2 DEF SplitShape, n
<1>8. r = plug_holes(g, b) BY <1>7
<1> HIDE DEF n, b, g
<1>9. Usable(g) BY <1>1, <1>5, <1>7 DEF Usable, m
<1>10. Apart(s, {b})
  <2>1. SUFFICES ASSUME NEW x \in DOMAIN s \ {heap_end}, x # b, s[x].next # b
                 PROVE  s[x].used \/ s[s[x].next].used
    BY DEF Apart
  <2>2. x \in DOMAIN m \ {heap_end} /\ x # a BY <2>1, <1>7
  <2>3. m[x].used \/ m[m[x].next].used BY <1>1, <2>2 DEF Apart
  <2>4. m[x].next \in DOMAIN m BY <1>1, <2>2 DEF Chain
  <2> QED BY <2>2, <2>3, <2>4, <1>7
<1>11. Pluggable(g, b) BY <1>5, <1>7, <1>9, <1>10 DEF Pluggable
<1>12. Chain(r.mem) /\ Usable(r) /\ Apart(r.mem, {}) /\ Keeps(s, r.mem)
  BY <1>5, <1>8, <1>11, PlugHolesOK
<1>13. Bytes(r.mem) = Bytes(s) BY <1>12, SameBytes
<1>14. Cardinality(Bytes(m)) = Cardinality(Bytes(q)) + (n - a)
  <2>1. \A x \in DOMAIN m \ {heap_end, a} :
          m[x].used => x \in DOMAIN q /\ q[x].used /\ q[x].next = m[x].next
    BY <1>20
  <2>2. \A x \in DOMAIN q \ {heap_end, a} :
          q[x].used => x \in DOMAIN m /\ m[x].used /\ m[x].next = q[x].next
    BY <1>20
  <2> QED BY <1>1, <1>2, <1>20, <2>1, <2>2, OneMoreBlock DEF n
<1>15. Cardinality(Bytes(s)) = Cardinality(Bytes(q)) + (b - a)
  <2>1. \A x \in DOMAIN s \ {heap_end, a} :
          s[x].used => x \in DOMAIN q /\ q[x].used /\ q[x].next = s[x].next
    BY <1>20, <1>7
  <2>2. \A x \in DOMAIN q \ {heap_end, a} :
          q[x].used => x \in DOMAIN s /\ s[x].used /\ s[x].next = q[x].next
    BY <1>20, <1>7
  <2>3. a \in DOMAIN s \ {heap_end} /\ s[a].used BY <1>2, <1>7
  <2> QED BY <1>20, <1>7, <2>1, <2>2, <2>3, OneMoreBlock
<1>16. Cardinality(Bytes(r.mem)) = Cardinality(Bytes(m)) - (Data(m, a) - size)
  <2>1. Cardinality(Bytes(m)) \in Nat /\ Cardinality(Bytes(q)) \in Nat
    BY <1>1, <1>20, BytesFinite DEF Offset
  <2>2. Data(m, a) - size = n - b BY <1>2, <1>4 DEF Data, n, b
  <2> QED BY <1>2, <1>4, <1>13, <1>14, <1>15, <2>1, <2>2
<1>17. ASSUME NEW x \in DOMAIN m \ {heap_end}, m[x].used
       PROVE  /\ x \in DOMAIN r.mem /\ r.mem[x].used
              /\ r.mem[x].next = s[x].next
  <2>1. x \in DOMAIN s \ {heap_end} /\ s[x].used BY <1>7, <1>17
  <2> QED BY <2>1, <1>12 DEF Keeps
<1>18. ASSUME NEW x \in DOMAIN r.mem \ {heap_end}, r.mem[x].used
       PROVE  x \in DOMAIN m /\ m[x].used
  <2>1. x \in DOMAIN s /\ s[x].used BY <1>12, <1>18 DEF Keeps
  <2> QED BY <2>1, <1>7
<1>19. Data(r.mem, a) = size
  <2>1. r.mem[a].next = b BY <1>2, <1>7, <1>17
  <2> QED BY <2>1, <1>2 DEF Data, b
<1> QED BY <1>7, <1>12, <1>16, <1>17, <1>18, <1>19 DEF Sound, m

-----------------------------------------------------------------------------
(* The state of the heap *)

\* The blocks in use.
Used == {a \in Block : mem[a].used}

\* The chain at rest and the statistics.
HeapOK ==
  /\ Chain(mem) /\ Apart(mem, {}) /\ LfreeUsable
  /\ used_mem = Cardinality(Bytes(mem)) /\ used_mem <= max_mem
  /\ used_mem \in Offset /\ max_mem \in Offset

\* The callers and what they hold.
OwnersOK ==
  /\ DOMAIN held \subseteq Offset /\ held \in [DOMAIN held -> Nat]
  /\ moving \in [Thread -> {Idle} \cup Move]
  /\ Used = DOMAIN held \cup UNION {Busy(p) : p \in Thread}
  /\ \A p \in Thread :
       /\ Busy(p) \cap DOMAIN held = {}
       /\ \A q \in Thread \ {p} : Busy(p) \cap Busy(q) = {}
       /\ moving[p].at = "free" => /\ moving[p].from # moving[p].to
                                   /\ Data(mem, moving[p].to) >= moving[p].size
       /\ moving[p].at = "malloc" => Data(mem, moving[p].from) >= moving[p].had
  /\ \A a \in DOMAIN held : Data(mem, a) >= held[a]

\* The inductive invariant: Tiled, LfreeUsable, Owned, and that a block that
\* is being moved is as large as its caller asked for.
IInv == HeapOK /\ OwnersOK

\* The inductive invariant gives the properties of Heap.
LEMMA IInvImplies ==
  ASSUME IInv
  PROVE  Tiled /\ LfreeUsable /\ Owned
<1>1. TypeOK
  <2>1. lfree \in Offset BY DEF IInv, HeapOK, LfreeUsable, Chain
  <2> QED BY <2>1 DEF IInv, HeapOK, OwnersOK, Chain, TypeOK
<1>2. Tiled BY <1>1, Zenon DEF IInv, HeapOK, Chain, Apart, Tiled, Block
<1>3. UsedBytes = Bytes(mem) BY DEF UsedBytes, Bytes, Block
<1>4. Owned BY <1>3, Zenon DEF IInv, HeapOK, OwnersOK, Owned, Used
<1> QED BY <1>2, <1>4 DEF IInv, HeapOK

\* The heap as a record is at rest.
LEMMA StateSound ==
  ASSUME HeapOK
  PROVE  Sound(State) /\ State.mem = mem /\ State.lfree = lfree
<1>1. State.mem = mem /\ State.lfree = lfree BY DEF State
<1> QED BY <1>1 DEF HeapOK, Sound, Usable, LfreeUsable

\* A new chain that is at rest is a new state that is.
LEMMA SoundState ==
  ASSUME NEW r, Sound(r), mem' = r.mem, lfree' = r.lfree
  PROVE  Chain(mem)' /\ Apart(mem, {})' /\ LfreeUsable'
<1>1. Chain(mem') /\ Apart(mem', {}) BY DEF Sound
<1>2. LfreeUsable' BY DEF Sound, Usable, LfreeUsable
<1> QED BY <1>1, <1>2

\* rt_free: one used block less, the others as they were.
LEMMA ReleaseStep ==
  ASSUME HeapOK, NEW a \in Used, Release(a)
  PROVE  /\ HeapOK' /\ Used' = Used \ {a}
         /\ \A x \in Used' : Data(mem', x) = Data(mem, x)
<1> DEFINE r == Freed(State, a)
<1>1. Sound(State) /\ State.mem = mem /\ Chain(mem) BY StateSound DEF HeapOK
<1>2. a \in DOMAIN mem \ {heap_end} /\ mem[a].used BY DEF Used, Block
<1>3. /\ mem' = r.mem /\ lfree' = r.lfree /\ max_mem' = max_mem
      /\ used_mem' = used_mem - Total(mem, a)
  BY DEF Release
<1>4. /\ Sound(r) /\ Loses(mem, r.mem, a)
      /\ Cardinality(Bytes(mem)) = Cardinality(Bytes(r.mem)) + Total(mem, a)
  BY <1>1, <1>2, FreedOK
<1> HIDE DEF r
<1>5. Chain(mem)' /\ Apart(mem, {})' /\ LfreeUsable' BY <1>3, <1>4, SoundState
<1>6. /\ Cardinality(Bytes(mem)) \in Offset /\ Cardinality(Bytes(mem')) \in Offset
  BY <1>1, <1>5, BytesFinite
<1>7. Total(mem, a) \in Nat BY <1>1, <1>2, Ordered DEF Total
<1>8. used_mem' = Cardinality(Bytes(mem')) /\ used_mem' <= used_mem
  BY <1>3, <1>4, <1>6, <1>7, Sizes DEF HeapOK, Offset
<1>9. HeapOK'
  <2>1. used_mem' <= max_mem' /\ used_mem' \in Offset /\ max_mem' \in Offset
    BY <1>3, <1>6, <1>8, Sizes DEF HeapOK, Offset
  <2> QED BY <1>5, <1>8, <2>1 DEF HeapOK
<1>10. Used' = Used \ {a} BY <1>3, <1>4, Zenon DEF Used, Block, Loses
<1>11. \A x \in Used' : mem'[x].next = mem[x].next
  BY <1>3, <1>4, <1>10, Zenon DEF Used, Block, Loses
<1> QED BY <1>9, <1>10, <1>11 DEF Data

\* rt_malloc: one used block more, large enough, the others as they were.
LEMMA AllocateStep ==
  ASSUME HeapOK, NEW n \in Nat, ~Refused(n), NEW a, a = Found(n), Allocate(a, n)
  PROVE  /\ HeapOK' /\ a \notin Used /\ a \in Offset /\ Used' = Used \cup {a}
         /\ \A x \in Used : Data(mem', x) = Data(mem, x)
         /\ Data(mem', a) >= n
<1> DEFINE size == AtLeast(n)
           r == Taken(State, a, size)
           c == Counted(mem, a, size)
<1> USE Sizes
<1>1. Sound(State) /\ State.mem = mem /\ State.lfree = lfree /\ Chain(mem)
  BY StateSound DEF HeapOK
<1>2. size \in Nat /\ size >= n BY AtLeastOK
<1>3. Fitting(State, size) # {} /\ a = Min(Fitting(State, size)) BY DEF Refused, Found
<1>4. /\ mem' = r.mem /\ lfree' = r.lfree /\ used_mem' = used_mem + c
      /\ max_mem' = IF max_mem < used_mem + c THEN used_mem + c ELSE max_mem
  BY DEF Allocate
<1> HIDE DEF size, r, c
<1>5. a \in DOMAIN mem \ {heap_end} /\ ~mem[a].used /\ Data(mem, a) >= size
  <2>1. Fitting(State, size) \in SUBSET Nat BY <1>1 DEF Fitting, Chain, Offset
  <2>2. a \in Fitting(State, size) BY <2>1, <1>3, LeastOK
  <2>3. a \in DOMAIN mem /\ ~mem[a].used /\ Data(mem, a) >= size
    BY <2>2, <1>1 DEF Fitting
  <2> QED BY <2>3, <1>1 DEF Chain
<1>6. /\ Sound(r) /\ Loses(r.mem, mem, a)
      /\ a \in DOMAIN r.mem /\ r.mem[a].used /\ Data(r.mem, a) >= size
      /\ c \in Nat /\ Cardinality(Bytes(r.mem)) = Cardinality(Bytes(mem)) + c
  BY <1>1, <1>2, <1>5, TakenOK DEF r, c
<1>7. Chain(mem)' /\ Apart(mem, {})' /\ LfreeUsable' BY <1>4, <1>6, SoundState
<1>8. Cardinality(Bytes(mem)) \in Offset /\ Cardinality(Bytes(mem')) \in Offset
  BY <1>1, <1>7, BytesFinite
<1>9. used_mem' = Cardinality(Bytes(mem')) BY <1>4, <1>6 DEF HeapOK
<1>10. HeapOK'
  <2>1. used_mem' <= max_mem' /\ used_mem' \in Offset /\ max_mem' \in Offset
    BY <1>4, <1>8, <1>9 DEF HeapOK, Offset
  <2> QED BY <1>7, <1>9, <2>1 DEF HeapOK
<1>11. a \notin Used /\ a \in Offset BY <1>1, <1>5 DEF Used, Chain
<1>12. Used' = Used \cup {a} BY <1>4, <1>5, <1>6, Zenon DEF Used, Block, Loses
<1>13. \A x \in Used : mem'[x].next = mem[x].next
  BY <1>4, <1>5, <1>6, <1>12, Zenon DEF Used, Block, Loses
<1>14. Data(mem', a) >= n
  <2>1. a \in Nat /\ mem'[a].next \in Nat BY <1>4, <1>5, <1>6, <1>7, Ordered
  <2> QED BY <1>2, <1>4, <1>6, <2>1 DEF Data
<1> QED BY <1>10, <1>11, <1>12, <1>13, <1>14 DEF Data

-----------------------------------------------------------------------------
(* The actions *)

\* What the heap learns about its callers.
LEMMA OwnerFacts ==
  ASSUME OwnersOK
  PROVE  /\ DOMAIN held \subseteq Used
         /\ \A p \in Thread :
              /\ Busy(p) \subseteq Used
              /\ moving[p] = Idle \/ moving[p] \in Move
              /\ moving[p] = Idle => Busy(p) = {}
              /\ moving[p].at = "malloc" =>
                   /\ Busy(p) = {moving[p].from} /\ moving[p].from \in Offset
                   /\ moving[p].size \in Nat /\ moving[p].had \in Nat
              /\ moving[p].at = "free" =>
                   /\ Busy(p) = {moving[p].from, moving[p].to}
                   /\ moving[p].from \in Offset /\ moving[p].to \in Offset
                   /\ moving[p].size \in Nat
<1>1. DOMAIN held \subseteq Used BY DEF OwnersOK
<1>2. ASSUME NEW p \in Thread
      PROVE  /\ Busy(p) \subseteq Used
             /\ moving[p] = Idle \/ moving[p] \in Move
             /\ moving[p] = Idle => Busy(p) = {}
             /\ moving[p].at = "malloc" =>
                  /\ Busy(p) = {moving[p].from} /\ moving[p].from \in Offset
                  /\ moving[p].size \in Nat /\ moving[p].had \in Nat
             /\ moving[p].at = "free" =>
                  /\ Busy(p) = {moving[p].from, moving[p].to}
                  /\ moving[p].from \in Offset /\ moving[p].to \in Offset
                  /\ moving[p].size \in Nat
  <2>1. Busy(p) \subseteq Used BY Zenon DEF OwnersOK
  <2>2. moving[p] = Idle \/ moving[p] \in Move BY DEF OwnersOK
  <2>3. moving[p] = Idle => moving[p].at = "idle" BY DEF Idle
  <2>4. moving[p] = Idle => Busy(p) = {} BY <2>3 DEF Busy
  <2>5. moving[p].at = "malloc" =>
          /\ Busy(p) = {moving[p].from} /\ moving[p].from \in Offset
          /\ moving[p].size \in Nat /\ moving[p].had \in Nat
    BY <2>2, <2>3 DEF Busy, Move
  <2>6. moving[p].at = "free" =>
          /\ Busy(p) = {moving[p].from, moving[p].to}
          /\ moving[p].from \in Offset /\ moving[p].to \in Offset
          /\ moving[p].size \in Nat
    BY <2>2, <2>3 DEF Busy, Move
  <2> QED BY <2>1, <2>2, <2>4, <2>5, <2>6
<1> QED BY <1>1, <1>2

\* Calls of rt_realloc that take no step keep their blocks.
LEMMA BusySame ==
  ASSUME NEW q \in Thread, moving'[q] = moving[q]
  PROVE  Busy(q)' = Busy(q)
BY DEF Busy

\* What the callers hold stays right when their blocks stay as they are.
LEMMA OwnersRest ==
  ASSUME OwnersOK, UNCHANGED moving,
         DOMAIN held' \subseteq Offset, held' \in [DOMAIN held' -> Nat],
         Used' = DOMAIN held' \cup (Used \ DOMAIN held),
         DOMAIN held' \cap (Used \ DOMAIN held) = {},
         \A x \in Used \ DOMAIN held : Data(mem', x) = Data(mem, x),
         \A x \in DOMAIN held' : Data(mem', x) >= held'[x]
  PROVE  OwnersOK'
<1>1. \A q \in Thread : Busy(q)' = Busy(q) BY BusySame
<1>2. \A q \in Thread : Busy(q) \subseteq Used \ DOMAIN held
  BY OwnerFacts DEF OwnersOK
<1>3. Used \ DOMAIN held = UNION {Busy(q) : q \in Thread} BY <1>2 DEF OwnersOK
<1>4. Used' = (DOMAIN held \cup UNION {Busy(q) : q \in Thread})'
  BY <1>1, <1>3
<1>5. ASSUME NEW p \in Thread
      PROVE  /\ Busy(p)' \cap DOMAIN held' = {}
             /\ \A q \in Thread \ {p} : Busy(p)' \cap Busy(q)' = {}
             /\ moving'[p].at = "free" =>
                  /\ moving'[p].from # moving'[p].to
                  /\ Data(mem', moving'[p].to) >= moving'[p].size
             /\ moving'[p].at = "malloc" =>
                  Data(mem', moving'[p].from) >= moving'[p].had
  <2>1. Busy(p)' \cap DOMAIN held' = {} BY <1>1, <1>2
  <2>2. \A q \in Thread \ {p} : Busy(p)' \cap Busy(q)' = {} BY <1>1 DEF OwnersOK
  <2>3. ASSUME moving[p].at = "free"
        PROVE  /\ moving[p].from # moving[p].to
               /\ Data(mem', moving[p].to) >= moving[p].size
    <3>1. moving[p].to \in Used \ DOMAIN held BY <1>2, <2>3, OwnerFacts
    <3> QED BY <2>3, <3>1 DEF OwnersOK
  <2>4. ASSUME moving[p].at = "malloc"
        PROVE  Data(mem', moving[p].from) >= moving[p].had
    <3>1. moving[p].from \in Used \ DOMAIN held BY <1>2, <2>4, OwnerFacts
    <3> QED BY <2>4, <3>1 DEF OwnersOK
  <2> QED BY <2>1, <2>2, <2>3, <2>4
<1>6. moving' \in [Thread -> {Idle} \cup Move] BY DEF OwnersOK
<1> QED BY <1>4, <1>5, <1>6 DEF OwnersOK

\* rt_malloc keeps the invariant.
LEMMA MallocStep ==
  ASSUME IInv, NEW n \in Size, rt_malloc(n)
  PROVE  IInv'
<1> DEFINE a == Found(n)
<1>1. n \in Nat /\ HeapOK /\ OwnersOK BY HeapAssumption DEF IInv
<1>2. /\ ~Refused(n) /\ Allocate(a, n) /\ UNCHANGED moving
      /\ held' = [x \in DOMAIN held \cup {a} |-> IF x = a THEN n ELSE held[x]]
  BY DEF rt_malloc
<1> HIDE DEF a
<1>3. /\ HeapOK' /\ a \notin Used /\ a \in Offset /\ Used' = Used \cup {a}
      /\ \A x \in Used : Data(mem', x) = Data(mem, x)
      /\ Data(mem', a) >= n
  BY <1>1, <1>2, AllocateStep DEF a
<1>4. DOMAIN held \subseteq Used BY <1>1, OwnerFacts
<1>5. DOMAIN held' = DOMAIN held \cup {a} BY <1>2
<1>6. DOMAIN held' \subseteq Offset /\ held' \in [DOMAIN held' -> Nat]
  BY <1>1, <1>2, <1>3 DEF OwnersOK
<1>7. ASSUME NEW x \in DOMAIN held' PROVE Data(mem', x) >= held'[x]
  <2>1. CASE x = a BY <1>2, <1>3, <2>1
  <2>2. CASE x # a
    <3>1. x \in DOMAIN held /\ x \in Used /\ held'[x] = held[x]
      BY <1>2, <1>4, <1>5, <2>2
    <3> QED BY <3>1, <1>1, <1>3 DEF OwnersOK
  <2> QED BY <2>1, <2>2
<1>8. /\ Used' = DOMAIN held' \cup (Used \ DOMAIN held)
      /\ DOMAIN held' \cap (Used \ DOMAIN held) = {}
  BY <1>3, <1>4, <1>5
<1>9. OwnersOK' BY <1>1, <1>2, <1>3, <1>6, <1>7, <1>8, OwnersRest
<1> QED BY <1>3, <1>9 DEF IInv

\* rt_free keeps the invariant.
LEMMA FreeStep ==
  ASSUME IInv, NEW a \in DOMAIN held, rt_free(a)
  PROVE  IInv'
<1>1. HeapOK /\ OwnersOK /\ a \in Used BY OwnerFacts DEF IInv
<1>2. /\ Release(a) /\ UNCHANGED moving
      /\ held' = [x \in DOMAIN held \ {a} |-> held[x]]
  BY DEF rt_free, Restrict
<1>3. /\ HeapOK' /\ Used' = Used \ {a}
      /\ \A x \in Used' : Data(mem', x) = Data(mem, x)
  BY <1>1, <1>2, ReleaseStep
<1>4. DOMAIN held \subseteq Used BY <1>1, OwnerFacts
<1>5. DOMAIN held' = DOMAIN held \ {a} BY <1>2
<1>6. DOMAIN held' \subseteq Offset /\ held' \in [DOMAIN held' -> Nat]
  BY <1>1, <1>2, <1>5 DEF OwnersOK
<1>7. ASSUME NEW x \in DOMAIN held' PROVE Data(mem', x) >= held'[x]
  <2>1. x \in DOMAIN held /\ x \in Used' /\ held'[x] = held[x]
    BY <1>2, <1>3, <1>4, <1>5
  <2> QED BY <2>1, <1>1, <1>3 DEF OwnersOK
<1>8. /\ Used' = DOMAIN held' \cup (Used \ DOMAIN held)
      /\ DOMAIN held' \cap (Used \ DOMAIN held) = {}
      /\ \A x \in Used \ DOMAIN held : Data(mem', x) = Data(mem, x)
  BY <1>3, <1>4, <1>5
<1>9. OwnersOK' BY <1>1, <1>2, <1>6, <1>7, <1>8, OwnersRest
<1> QED BY <1>3, <1>9 DEF IInv

\* rt_realloc in place keeps the invariant.
LEMMA ShrinkStep ==
  ASSUME IInv, NEW n \in Size, NEW a \in DOMAIN held, Shrink(a, n)
  PROVE  IInv'
<1> DEFINE size == RT_ALIGN(n)
           s == Split(mem, a, size)
           r == plug_holes([mem |-> s, lfree |-> lfree], s[a].next)
<1> USE Sizes
<1>1. /\ n \in Nat /\ HeapOK /\ OwnersOK /\ a \in Used
      /\ size \in Nat /\ size >= n
  BY OwnerFacts, HeapAssumption, AlignUp DEF IInv
<1>2. /\ size + SIZEOF_STRUCT_MEM + MIN_SIZE < Data(mem, a)
      /\ mem' = r.mem /\ lfree' = r.lfree
      /\ used_mem' = used_mem - (Data(mem, a) - size)
      /\ held' = [held EXCEPT ![a] = n] /\ max_mem' = max_mem /\ moving' = moving
  BY DEF Shrink
<1> HIDE DEF size
<1>3. Sound(State) /\ State.mem = mem /\ State.lfree = lfree /\ Chain(mem)
  BY <1>1, StateSound DEF HeapOK
<1>4. /\ a \in DOMAIN mem \ {heap_end} /\ mem[a].used
      /\ a \in Nat /\ mem[a].next \in Nat
  BY <1>1, <1>3, Ordered DEF Used, Block
<1>5. size + SIZEOF_STRUCT_MEM < Data(mem, a) /\ Data(mem, a) \in Int
  BY <1>1, <1>2, <1>4 DEF Data, MIN_SIZE
<1>6. /\ Sound(r)
      /\ \A x \in DOMAIN mem \ {heap_end} : mem[x].used =>
           /\ x \in DOMAIN r.mem /\ r.mem[x].used
           /\ x # a => r.mem[x].next = mem[x].next
      /\ \A x \in DOMAIN r.mem \ {heap_end} : r.mem[x].used => x \in DOMAIN mem /\ mem[x].used
      /\ Data(r.mem, a) = size
      /\ Cardinality(Bytes(r.mem)) = Cardinality(Bytes(mem)) - (Data(mem, a) - size)
  BY <1>1, <1>3, <1>4, <1>5, ShrunkOK
<1> HIDE DEF r, s
<1>7. Chain(mem)' /\ Apart(mem, {})' /\ LfreeUsable' BY <1>2, <1>6, SoundState
<1>8. Cardinality(Bytes(mem)) \in Offset /\ Cardinality(Bytes(mem')) \in Offset
  BY <1>3, <1>7, BytesFinite
<1>9. HeapOK'
  <2>1. used_mem' = Cardinality(Bytes(mem')) BY <1>1, <1>2, <1>6 DEF HeapOK
  <2>2. used_mem' <= max_mem' /\ used_mem' \in Offset /\ max_mem' \in Offset
    BY <1>1, <1>2, <1>5, <1>8, <2>1 DEF HeapOK, Offset
  <2> QED BY <1>7, <2>1, <2>2 DEF HeapOK
<1>10. Used' = Used BY <1>2, <1>6, Zenon DEF Used, Block
<1>11. \A x \in Used : x # a => Data(mem', x) = Data(mem, x)
  BY <1>2, <1>6 DEF Used, Block, Data
<1>12. DOMAIN held' = DOMAIN held /\ DOMAIN held \subseteq Used
  BY <1>1, <1>2, OwnerFacts
<1>13. DOMAIN held' \subseteq Offset /\ held' \in [DOMAIN held' -> Nat]
  BY <1>1, <1>2, <1>12 DEF OwnersOK
<1>14. ASSUME NEW x \in DOMAIN held' PROVE Data(mem', x) >= held'[x]
  <2>1. CASE x = a BY <1>1, <1>2, <1>6, <2>1
  <2>2. CASE x # a
    <3>1. x \in Used /\ held'[x] = held[x] /\ x \in DOMAIN held BY <1>2, <1>12, <2>2
    <3> QED BY <2>2, <3>1, <1>1, <1>11 DEF OwnersOK
  <2> QED BY <2>1, <2>2
<1>15. /\ Used' = DOMAIN held' \cup (Used \ DOMAIN held)
       /\ DOMAIN held' \cap (Used \ DOMAIN held) = {}
       /\ \A x \in Used \ DOMAIN held : Data(mem', x) = Data(mem, x)
  BY <1>10, <1>11, <1>12
<1>16. OwnersOK' BY <1>1, <1>2, <1>13, <1>14, <1>15, OwnersRest
<1> QED BY <1>9, <1>16 DEF IInv

\* What the other callers hold stays right when the call of p takes a step.
LEMMA OwnersMove ==
  ASSUME OwnersOK, NEW p \in Thread, NEW X \in {Idle} \cup Move,
         moving' = [moving EXCEPT ![p] = X],
         DOMAIN held' \subseteq Offset, held' \in [DOMAIN held' -> Nat],
         NEW O, O = Used \ (DOMAIN held \cup Busy(p)),
         Used' = O \cup DOMAIN held' \cup Busy(p)',
         DOMAIN held' \cap O = {}, Busy(p)' \cap O = {},
         Busy(p)' \cap DOMAIN held' = {},
         \A x \in O : Data(mem', x) = Data(mem, x),
         \A x \in DOMAIN held' : Data(mem', x) >= held'[x],
         X.at = "free" => X.from # X.to /\ Data(mem', X.to) >= X.size,
         X.at = "malloc" => Data(mem', X.from) >= X.had
  PROVE  OwnersOK'
<1>1. moving \in [Thread -> {Idle} \cup Move] BY DEF OwnersOK
<1>2. moving' \in [Thread -> {Idle} \cup Move] /\ moving'[p] = X BY <1>1
<1>3. \A q \in Thread \ {p} : moving'[q] = moving[q] BY <1>1
<1>4. \A q \in Thread \ {p} : Busy(q)' = Busy(q) BY <1>3, BusySame
<1>5. ASSUME NEW q \in Thread \ {p} PROVE Busy(q) \subseteq O
  <2>1. Busy(q) \subseteq Used /\ Busy(q) \cap DOMAIN held = {}
    BY OwnerFacts DEF OwnersOK
  <2>2. Busy(q) \cap Busy(p) = {} BY DEF OwnersOK
  <2> QED BY <2>1, <2>2
<1>6. ASSUME NEW x \in O PROVE \E q \in Thread \ {p} : x \in Busy(q)
  <2>1. x \in UNION {Busy(q) : q \in Thread} BY Zenon DEF OwnersOK
  <2>2. PICK q \in Thread : x \in Busy(q) BY <2>1, Zenon
  <2> QED BY <2>2
<1>7. Used' = DOMAIN held' \cup UNION {Busy(q)' : q \in Thread}
  <2>1. ASSUME NEW x \in Used' PROVE x \in DOMAIN held' \cup UNION {Busy(q)' : q \in Thread}
    <3>1. x \in DOMAIN held' \/ x \in Busy(p)' \/ x \in O BY <2>1
    <3>2. x \in O => \E q \in Thread : x \in Busy(q)' BY <1>4, <1>6
    <3>3. x \in DOMAIN held' \/ \E q \in Thread : x \in Busy(q)' BY <3>1, <3>2
    <3> QED BY <3>3, Zenon
  <2>2. ASSUME NEW q \in Thread PROVE Busy(q)' \subseteq Used'
    BY <1>4, <1>5
  <2> QED BY <2>1, <2>2
<1>8. ASSUME NEW q \in Thread
      PROVE  /\ Busy(q)' \cap DOMAIN held' = {}
             /\ \A u \in Thread \ {q} : Busy(q)' \cap Busy(u)' = {}
             /\ moving'[q].at = "free" =>
                  /\ moving'[q].from # moving'[q].to
                  /\ Data(mem', moving'[q].to) >= moving'[q].size
             /\ moving'[q].at = "malloc" =>
                  Data(mem', moving'[q].from) >= moving'[q].had
  <2>1. CASE q = p
    <3>1. \A u \in Thread \ {p} : Busy(p)' \cap Busy(u)' = {} BY <1>4, <1>5
    <3> QED BY <2>1, <3>1, <1>2
  <2>2. CASE q # p
    <3>1. Busy(q)' = Busy(q) /\ Busy(q) \subseteq O /\ moving'[q] = moving[q]
      BY <1>3, <1>4, <1>5, <2>2
    <3>2. Busy(q)' \cap DOMAIN held' = {} BY <3>1
    <3>3. ASSUME NEW u \in Thread \ {q} PROVE Busy(q)' \cap Busy(u)' = {}
      <4>1. CASE u = p BY <3>1, <4>1
      <4>2. CASE u # p
        <5>1. Busy(u)' = Busy(u) BY <1>4, <4>2
        <5> QED BY <5>1, <3>1 DEF OwnersOK
      <4> QED BY <4>1, <4>2
    <3>4. ASSUME moving[q].at = "free"
          PROVE  /\ moving[q].from # moving[q].to
                 /\ Data(mem', moving[q].to) >= moving[q].size
      <4>1. moving[q].to \in O BY <3>1, <3>4, OwnerFacts
      <4> QED BY <3>4, <4>1 DEF OwnersOK
    <3>5. ASSUME moving[q].at = "malloc"
          PROVE  Data(mem', moving[q].from) >= moving[q].had
      <4>1. moving[q].from \in O BY <3>1, <3>5, OwnerFacts
      <4> QED BY <3>5, <4>1 DEF OwnersOK
    <3> QED BY <3>1, <3>2, <3>3, <3>4, <3>5
  <2> QED BY <2>1, <2>2
<1> QED BY <1>2, <1>7, <1>8 DEF OwnersOK

\* The state of the heap does not depend on its callers.
LEMMA HeapRest ==
  ASSUME HeapOK, UNCHANGED <<mem, lfree, used_mem, max_mem>>
  PROVE  /\ HeapOK' /\ Used' = Used
         /\ \A x : Data(mem', x) = Data(mem, x)
<1>1. mem' = mem /\ lfree' = lfree /\ used_mem' = used_mem /\ max_mem' = max_mem
  OBVIOUS
<1> QED BY <1>1 DEF HeapOK, LfreeUsable, Used, Block

\* rt_realloc before it moves a block keeps the invariant.
LEMMA ReallocStep ==
  ASSUME IInv, NEW n \in Size, NEW a \in DOMAIN held, NEW p \in Thread, rt_realloc(p, a, n)
  PROVE  IInv'
<1> DEFINE X == [at |-> "malloc", from |-> a, size |-> n, had |-> held[a]]
           O == Used \ (DOMAIN held \cup Busy(p))
<1>1. /\ n \in Nat /\ HeapOK /\ OwnersOK /\ a \in Used /\ held[a] \in Nat /\ a \in Offset
  BY OwnerFacts, HeapAssumption DEF IInv, OwnersOK
<1>2. /\ moving[p] = Idle /\ held' = [x \in DOMAIN held \ {a} |-> held[x]]
      /\ moving' = [moving EXCEPT ![p] = X]
      /\ UNCHANGED <<mem, lfree, used_mem, max_mem>>
  BY DEF rt_realloc, Restrict
<1>3. HeapOK' /\ Used' = Used /\ \A x : Data(mem', x) = Data(mem, x)
  BY <1>1, <1>2, HeapRest
<1>4. X \in Move /\ X.at = "malloc" /\ X.from = a /\ X.had = held[a] BY <1>1 DEF Move
<1>5. moving'[p] = X BY <1>1, <1>2 DEF OwnersOK
<1>6. Busy(p) = {} /\ DOMAIN held \subseteq Used BY <1>1, <1>2, OwnerFacts
<1> HIDE DEF X
<1>7. Busy(p)' = {a} BY <1>4, <1>5 DEF Busy
<1>8. DOMAIN held' = DOMAIN held \ {a} BY <1>2
<1>9. DOMAIN held' \subseteq Offset /\ held' \in [DOMAIN held' -> Nat]
  BY <1>1, <1>2, <1>8 DEF OwnersOK
<1>10. /\ Used' = O \cup DOMAIN held' \cup Busy(p)'
       /\ DOMAIN held' \cap O = {} /\ Busy(p)' \cap O = {}
       /\ Busy(p)' \cap DOMAIN held' = {}
  BY <1>3, <1>6, <1>7, <1>8
<1>11. \A x \in DOMAIN held' : Data(mem', x) >= held'[x]
  BY <1>1, <1>2, <1>3, <1>8 DEF OwnersOK
<1>12. X.at # "free" /\ Data(mem', X.from) >= X.had BY <1>1, <1>3, <1>4 DEF OwnersOK
<1>13. OwnersOK'
  BY <1>1, <1>2, <1>3, <1>4, <1>9, <1>10, <1>11, <1>12, OwnersMove
<1> QED BY <1>3, <1>13 DEF IInv

\* rt_realloc without a new block keeps the invariant.
LEMMA MoveRefusedStep ==
  ASSUME IInv, NEW p \in Thread, MoveRefused(p)
  PROVE  IInv'
<1> DEFINE f == moving[p].from
           d == moving[p].had
           O == Used \ (DOMAIN held \cup Busy(p))
<1>1. HeapOK /\ OwnersOK BY DEF IInv
<1>2. /\ moving[p].at = "malloc" /\ moving' = [moving EXCEPT ![p] = Idle]
      /\ held' = [x \in DOMAIN held \cup {f} |-> IF x = f THEN d ELSE held[x]]
      /\ UNCHANGED <<mem, lfree, used_mem, max_mem>>
  BY DEF MoveRefused
<1>3. HeapOK' /\ Used' = Used /\ \A x : Data(mem', x) = Data(mem, x)
  BY <1>1, <1>2, HeapRest
<1>4. /\ Busy(p) = {f} /\ f \in Offset /\ d \in Nat /\ Busy(p) \subseteq Used
      /\ DOMAIN held \subseteq Used /\ Busy(p) \cap DOMAIN held = {}
      /\ Data(mem, f) >= d
  BY <1>1, <1>2, OwnerFacts DEF OwnersOK
<1> HIDE DEF f, d
<1>5. moving'[p] = Idle /\ Idle.at = "idle" BY <1>1, <1>2 DEF OwnersOK, Idle
<1>6. Busy(p)' = {} BY <1>5 DEF Busy
<1>7. DOMAIN held' = DOMAIN held \cup {f} BY <1>2
<1>8. DOMAIN held' \subseteq Offset /\ held' \in [DOMAIN held' -> Nat]
  BY <1>1, <1>2, <1>4, <1>7 DEF OwnersOK
<1>9. /\ Used' = O \cup DOMAIN held' \cup Busy(p)'
      /\ DOMAIN held' \cap O = {} /\ Busy(p)' \cap O = {}
      /\ Busy(p)' \cap DOMAIN held' = {}
  BY <1>3, <1>4, <1>6, <1>7
<1>10. ASSUME NEW x \in DOMAIN held' PROVE Data(mem', x) >= held'[x]
  <2>1. CASE x = f BY <1>2, <1>3, <1>4, <2>1
  <2>2. CASE x # f BY <1>1, <1>2, <1>3, <1>7, <2>2 DEF OwnersOK
  <2> QED BY <2>1, <2>2
<1>11. OwnersOK'
  BY <1>1, <1>2, <1>3, <1>5, <1>8, <1>9, <1>10, OwnersMove
<1> QED BY <1>3, <1>11 DEF IInv

\* rt_realloc with a new block keeps the invariant.
LEMMA MoveMallocStep ==
  ASSUME IInv, NEW p \in Thread, MoveMalloc(p)
  PROVE  IInv'
<1> DEFINE n == moving[p].size
           f == moving[p].from
           a == Found(n)
           X == [at |-> "free", from |-> f, size |-> n, to |-> a]
           O == Used \ (DOMAIN held \cup Busy(p))
<1>1. HeapOK /\ OwnersOK BY DEF IInv
<1>2. /\ moving[p].at = "malloc" /\ ~Refused(n) /\ Allocate(a, n)
      /\ moving' = [moving EXCEPT ![p] = X] /\ held' = held
  BY DEF MoveMalloc
<1>3. /\ Busy(p) = {f} /\ f \in Offset /\ n \in Nat /\ Busy(p) \subseteq Used
      /\ DOMAIN held \subseteq Used /\ Busy(p) \cap DOMAIN held = {}
  BY <1>1, <1>2, OwnerFacts DEF OwnersOK
<1> HIDE DEF n, f, a
<1>4. /\ HeapOK' /\ a \notin Used /\ a \in Offset /\ Used' = Used \cup {a}
      /\ \A x \in Used : Data(mem', x) = Data(mem, x)
      /\ Data(mem', a) >= n
  BY <1>1, <1>2, <1>3, AllocateStep DEF a
<1>5. X \in Move /\ X.at = "free" /\ X.from = f /\ X.to = a /\ X.size = n
  BY <1>3, <1>4 DEF Move
<1>6. moving'[p] = X BY <1>1, <1>2 DEF OwnersOK
<1> HIDE DEF X
<1>7. Busy(p)' = {f, a} BY <1>5, <1>6 DEF Busy
<1>8. DOMAIN held' \subseteq Offset /\ held' \in [DOMAIN held' -> Nat]
  BY <1>1, <1>2 DEF OwnersOK
<1>9. /\ Used' = O \cup DOMAIN held' \cup Busy(p)'
      /\ DOMAIN held' \cap O = {} /\ Busy(p)' \cap O = {}
      /\ Busy(p)' \cap DOMAIN held' = {}
  BY <1>2, <1>3, <1>4, <1>7
<1>10. ASSUME NEW x \in DOMAIN held' PROVE Data(mem', x) >= held'[x]
  BY <1>1, <1>2, <1>3, <1>4 DEF OwnersOK
<1>11. X.from # X.to /\ Data(mem', X.to) >= X.size BY <1>3, <1>4, <1>5
<1>12. OwnersOK'
  BY <1>1, <1>2, <1>4, <1>5, <1>8, <1>9, <1>10, <1>11, OwnersMove
<1> QED BY <1>4, <1>12 DEF IInv

\* rt_realloc after the copy keeps the invariant.
LEMMA MoveFreeStep ==
  ASSUME IInv, NEW p \in Thread, MoveFree(p)
  PROVE  IInv'
<1> DEFINE n == moving[p].size
           f == moving[p].from
           a == moving[p].to
           O == Used \ (DOMAIN held \cup Busy(p))
<1>1. HeapOK /\ OwnersOK BY DEF IInv
<1>2. /\ moving[p].at = "free" /\ Release(f) /\ moving' = [moving EXCEPT ![p] = Idle]
      /\ held' = [x \in DOMAIN held \cup {a} |-> IF x = a THEN n ELSE held[x]]
  BY DEF MoveFree
<1>3. /\ Busy(p) = {f, a} /\ a \in Offset /\ n \in Nat /\ Busy(p) \subseteq Used
      /\ DOMAIN held \subseteq Used /\ Busy(p) \cap DOMAIN held = {}
      /\ f # a /\ Data(mem, a) >= n
  BY <1>1, <1>2, OwnerFacts DEF OwnersOK
<1> HIDE DEF n, f, a
<1>4. /\ HeapOK' /\ Used' = Used \ {f}
      /\ \A x \in Used' : Data(mem', x) = Data(mem, x)
  BY <1>1, <1>2, <1>3, ReleaseStep
<1>5. moving'[p] = Idle /\ Idle.at = "idle" BY <1>1, <1>2 DEF OwnersOK, Idle
<1>6. Busy(p)' = {} BY <1>5 DEF Busy
<1>7. DOMAIN held' = DOMAIN held \cup {a} BY <1>2
<1>8. DOMAIN held' \subseteq Offset /\ held' \in [DOMAIN held' -> Nat]
  BY <1>1, <1>2, <1>3, <1>7 DEF OwnersOK
<1>9. /\ Used' = O \cup DOMAIN held' \cup Busy(p)'
      /\ DOMAIN held' \cap O = {} /\ Busy(p)' \cap O = {}
      /\ Busy(p)' \cap DOMAIN held' = {}
      /\ O \subseteq Used' /\ DOMAIN held' \subseteq Used'
  BY <1>3, <1>4, <1>6, <1>7
<1>10. ASSUME NEW x \in DOMAIN held' PROVE Data(mem', x) >= held'[x]
  <2>1. CASE x = a BY <1>2, <1>3, <1>4, <1>9, <2>1
  <2>2. CASE x # a
    <3>1. x \in DOMAIN held /\ held'[x] = held[x] /\ x \in Used' BY <1>2, <1>7, <1>9, <2>2
    <3> QED BY <3>1, <1>1, <1>4 DEF OwnersOK
  <2> QED BY <2>1, <2>2
<1>11. OwnersOK'
  BY <1>1, <1>2, <1>4, <1>5, <1>8, <1>9, <1>10, OwnersMove
<1> QED BY <1>4, <1>11 DEF IInv

-----------------------------------------------------------------------------
(* The theorems *)

\* rt_system_heap_init establishes the invariant.
LEMMA InitOK == Init => IInv
<1> SUFFICES ASSUME Init PROVE IInv OBVIOUS
<1> USE Sizes
<1>1. DOMAIN mem = {0, heap_end} /\ 0 # heap_end BY DEF Init
<1>2. /\ mem[0] = [used |-> FALSE, next |-> heap_end, prev |-> 0]
      /\ mem[heap_end] = [used |-> TRUE, next |-> heap_end, prev |-> heap_end]
  BY <1>1 DEF Init
<1>3. 0 \in Offset /\ heap_end \in Offset BY DEF Offset
<1>4. mem \in [DOMAIN mem -> Header]
  <2>1. [used |-> FALSE, next |-> heap_end, prev |-> 0] \in Header BY <1>3 DEF Header
  <2>2. [used |-> TRUE, next |-> heap_end, prev |-> heap_end] \in Header
    BY <1>3 DEF Header
  <2>3. \A x \in DOMAIN mem : mem[x] \in Header BY <1>1, <1>2, <2>1, <2>2
  <2>4. mem = [x \in DOMAIN mem |-> mem[x]] BY DEF Init
  <2> QED BY <2>3, <2>4
<1>5. Chain(mem) BY <1>1, <1>2, <1>3, <1>4 DEF Chain
<1>6. Apart(mem, {}) BY <1>1, <1>2 DEF Apart
<1>7. Bytes(mem) = {} BY <1>1, <1>2 DEF Bytes
<1>8. HeapOK
  <2>1. Cardinality(Bytes(mem)) = 0 BY <1>7, FS_EmptySet
  <2>2. lfree = 0 /\ used_mem = 0 /\ max_mem = 0 BY DEF Init
  <2> QED BY <1>1, <1>2, <1>3, <1>5, <1>6, <2>1, <2>2 DEF HeapOK, LfreeUsable
<1>9. Used = {} BY <1>1, <1>2 DEF Used, Block
<1>10. held \in [DOMAIN held -> Nat] /\ DOMAIN held = {} BY DEF Init
<1>11. \A p \in Thread : moving[p] = Idle /\ moving[p].at = "idle" BY DEF Init, Idle
<1>12. \A p \in Thread : Busy(p) = {} BY <1>11 DEF Busy
<1>13. moving \in [Thread -> {Idle} \cup Move] BY DEF Init
<1>14. OwnersOK BY <1>9, <1>10, <1>11, <1>12, <1>13 DEF OwnersOK
<1> QED BY <1>8, <1>14 DEF IInv

\* Every step keeps the invariant.
LEMMA NextOK == IInv /\ [Next]_vars => IInv'
<1> SUFFICES ASSUME IInv, [Next]_vars PROVE IInv' OBVIOUS
<1>1. ASSUME NEW n \in Size, rt_malloc(n) PROVE IInv' BY <1>1, MallocStep
<1>2. ASSUME NEW n \in Size, NEW a \in DOMAIN held, Shrink(a, n) PROVE IInv'
  BY <1>2, ShrinkStep
<1>3. ASSUME NEW n \in Size, NEW a \in DOMAIN held, NEW p \in Thread, rt_realloc(p, a, n)
      PROVE  IInv'
  BY <1>3, ReallocStep
<1>4. ASSUME NEW a \in DOMAIN held, rt_free(a) PROVE IInv' BY <1>4, FreeStep
<1>5. ASSUME NEW p \in Thread, MoveRefused(p) PROVE IInv' BY <1>5, MoveRefusedStep
<1>6. ASSUME NEW p \in Thread, MoveMalloc(p) PROVE IInv' BY <1>6, MoveMallocStep
<1>7. ASSUME NEW p \in Thread, MoveFree(p) PROVE IInv' BY <1>7, MoveFreeStep
<1>8. CASE UNCHANGED vars
  <2>1. /\ UNCHANGED <<mem, lfree, used_mem, max_mem>> /\ held' = held /\ moving' = moving
    BY <1>8 DEF vars
  <2>2. HeapOK' /\ Used' = Used /\ \A x : Data(mem', x) = Data(mem, x)
    BY <2>1, HeapRest DEF IInv
  <2>3. OwnersOK'
    <3>1. OwnersOK /\ DOMAIN held \subseteq Used BY OwnerFacts DEF IInv
    <3>2. /\ Used' = DOMAIN held' \cup (Used \ DOMAIN held)
          /\ DOMAIN held' \cap (Used \ DOMAIN held) = {}
      BY <2>1, <2>2, <3>1
    <3>3. \A x \in DOMAIN held' : Data(mem', x) >= held'[x]
      BY <2>1, <2>2, <3>1 DEF OwnersOK
    <3>4. DOMAIN held' \subseteq Offset /\ held' \in [DOMAIN held' -> Nat]
      BY <2>1, <3>1 DEF OwnersOK
    <3> QED BY <2>1, <2>2, <3>1, <3>2, <3>3, <3>4, OwnersRest
  <2> QED BY <2>2, <2>3 DEF IInv
<1> QED BY <1>1, <1>2, <1>3, <1>4, <1>5, <1>6, <1>7, <1>8 DEF Next

\* For every heap, alignment and set of requests: the blocks tile the heap,
\* linked both ways, and no two free blocks are neighbours.
THEOREM HeapTiled == Spec => []Tiled
<1>1. Init => IInv BY InitOK
<1>2. IInv /\ [Next]_vars => IInv' BY NextOK
<1>3. IInv => Tiled BY IInvImplies
<1> QED BY <1>1, <1>2, <1>3, PTL DEF Spec

\* For every heap, alignment and set of requests: the assertion of rt_malloc
\* about lfree holds.
THEOREM LfreeAlwaysUsable == Spec => []LfreeUsable
<1>1. Init => IInv BY InitOK
<1>2. IInv /\ [Next]_vars => IInv' BY NextOK
<1>3. IInv => LfreeUsable BY IInvImplies
<1> QED BY <1>1, <1>2, <1>3, PTL DEF Spec

\* For every number of threads: no block leaks, is shared or is smaller than
\* what was asked for, and the statistics count the bytes in use.
THEOREM BlocksOwned == Spec => []Owned
<1>1. Init => IInv BY InitOK
<1>2. IInv /\ [Next]_vars => IInv' BY NextOK
<1>3. IInv => Owned BY IInvImplies
<1> QED BY <1>1, <1>2, <1>3, PTL DEF Spec
=============================================================================
