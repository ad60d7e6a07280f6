--------------------------- MODULE StorageProofs ----------------------------
(***************************************************************************)
(* Proofs about the two stores beside the database, which have nothing in  *)
(* common but this place.  The first part is about LruCache, for all keys, *)
(* values, costs and goroutines: what the map has is in the list under its *)
(* key, no more cost is accounted for than the list holds, and the cache   *)
(* implements LossyCache.  The second part is about Media, for all files,  *)
(* variants and posts: rows and files fit each other, and posts show files *)
(* that are there.                                                         *)
(***************************************************************************)
EXTENDS LruCache, Media, FiniteSetTheorems, TLAPS

-----------------------------------------------------------------------------
(***************************************************************************)
(* Map, elements and list fit together.                                    *)
(***************************************************************************)
Listed(elements, list) ==
  /\ list \in Seq(Elements) /\ IsInjective(list)
  /\ elements \in [Elements -> Item \cup {Nil}]
  /\ \A e \in ToSet(list) : elements[e] # Nil

Fits(map, elements, list) ==
  /\ Listed(elements, list)
  /\ map \in [Keys -> Elements \cup {Nil}]
  /\ \A k \in Keys :
       map[k] # Nil => map[k] \in ToSet(list) /\ elements[map[k]].key = k

\* What a Get is about to remove is still an element.
Getting(elements, gets) ==
  /\ gets \in [Getters -> Elements \cup {Nil}]
  /\ \A g \in Getters : gets[g] # Nil => elements[gets[g]] # Nil

\* What the cache answers was set last for the key.
AnswersAreLatest ==
  \A k \in Keys : items[k] # Nil => element[items[k]].data = latest[k]

CacheInv ==
  /\ now \in Nat
  /\ Fits(items, element, evictionList)
  /\ Getting(element, getter)
  /\ latest \in [Keys -> Values \cup {Nil}]
  /\ AnswersAreLatest

-----------------------------------------------------------------------------
(***************************************************************************)
(* Lists.                                                                  *)
(***************************************************************************)
LEMMA SeqRange ==
  ASSUME NEW S, NEW s \in Seq(S)
  PROVE  /\ ToSet(s) \subseteq S
         /\ \A x : x \in ToSet(s) <=> \E i \in 1 .. Len(s) : s[i] = x
BY DEF ToSet

\* The rest of an injective list is one.
LEMMA WithoutIsList ==
  ASSUME NEW list \in Seq(Elements), IsInjective(list), NEW some, NEW rest \in Without(some, list)
  PROVE  rest \in Seq(Elements) /\ IsInjective(rest) /\ ToSet(rest) = ToSet(list) \ some
<1> DEFINE others == ToSet(list) \ some
<1>1. others \subseteq Elements
  BY SeqRange
<1>2. /\ rest \in BoundedSeq(others, Len(list)) /\ ToSet(rest) = others
      /\ \A i, j \in DOMAIN rest : i < j => Before(list, rest[i], rest[j])
  BY DEF Without
<1>3. rest \in Seq(others)
  BY <1>2 DEF BoundedSeq, SeqOf
<1>4. rest \in Seq(Elements) /\ DOMAIN rest = 1 .. Len(rest) /\ Len(rest) \in Nat
  BY <1>1, <1>3
<1>5. ASSUME NEW i \in DOMAIN rest, NEW j \in DOMAIN rest, i < j PROVE rest[i] # rest[j]
  BY <1>2, <1>5 DEF Before, IsInjective
<1>6. IsInjective(rest)
  BY <1>4, <1>5 DEF IsInjective
<1> QED BY <1>2, <1>4, <1>6

\* So is a list with a new element in front.
LEMMA FrontIsList ==
  ASSUME NEW list \in Seq(Elements), IsInjective(list), NEW e \in Elements, e \notin ToSet(list)
  PROVE  /\ <<e>> \o list \in Seq(Elements) /\ IsInjective(<<e>> \o list)
         /\ ToSet(<<e>> \o list) = ToSet(list) \cup {e}
<1> DEFINE front == <<e>> \o list
<1>1. /\ front \in Seq(Elements) /\ Len(front) = Len(list) + 1 /\ front[1] = e
      /\ \A i \in 1 .. Len(list) : front[i + 1] = list[i]
  OBVIOUS
<1>2. \A i \in 2 .. Len(front) : i - 1 \in 1 .. Len(list) /\ front[i] = list[i - 1]
  BY <1>1
<1>3. \A i \in 1 .. Len(list) : list[i] # e
  BY SeqRange
<1>4. Len(front) \in Nat /\ DOMAIN front = 1 .. Len(front)
  BY <1>1
<1> HIDE DEF front
<1>5. ToSet(front) = ToSet(list) \cup {e}
  <2>1. ASSUME NEW x \in ToSet(front) PROVE x \in ToSet(list) \cup {e}
    <3>1. PICK i \in 1 .. Len(front) : front[i] = x
      BY <1>1, SeqRange
    <3>2. CASE i = 1
      BY <1>1, <3>1, <3>2
    <3>3. CASE i # 1
      <4>1. i - 1 \in 1 .. Len(list) /\ x = list[i - 1]
        BY <1>2, <1>4, <3>1, <3>3
      <4> QED BY <4>1, SeqRange
    <3> QED BY <3>2, <3>3
  <2>2. ASSUME NEW x \in ToSet(list) PROVE x \in ToSet(front)
    <3>1. PICK i \in 1 .. Len(list) : list[i] = x
      BY SeqRange
    <3>2. i + 1 \in 1 .. Len(front) /\ front[i + 1] = x
      BY <1>1, <3>1
    <3> QED BY <1>1, <3>2, SeqRange
  <2>3. e \in ToSet(front)
    BY <1>1, <1>4, SeqRange
  <2> QED BY <2>1, <2>2, <2>3
<1>6. IsInjective(front)
  <2>1. ASSUME NEW i \in 1 .. Len(front), NEW j \in 1 .. Len(front), front[i] = front[j]
        PROVE  i = j
    <3>1. CASE i = 1 \/ j = 1
      BY <1>1, <1>2, <1>3, <2>1, <3>1
    <3>2. CASE i # 1 /\ j # 1
      <4>1. i - 1 \in DOMAIN list /\ j - 1 \in DOMAIN list /\ list[i - 1] = list[j - 1]
        BY <1>2, <2>1, <3>2
      <4> QED BY <4>1 DEF IsInjective
    <3> QED BY <3>1, <3>2
  <2> QED BY <1>4, <2>1 DEF IsInjective
<1> QED BY <1>1, <1>5, <1>6 DEF front

LEMMA MovedIsList ==
  ASSUME NEW list \in Seq(Elements), IsInjective(list), NEW e \in ToSet(list),
         NEW moved \in MovedToFront(e, list)
  PROVE  moved \in Seq(Elements) /\ IsInjective(moved) /\ ToSet(moved) = ToSet(list)
<1>1. PICK rest \in Without({e}, list) : moved = <<e>> \o rest
  BY DEF MovedToFront
<1>2. rest \in Seq(Elements) /\ IsInjective(rest) /\ ToSet(rest) = ToSet(list) \ {e}
  BY WithoutIsList
<1>3. e \in Elements
  BY SeqRange
<1>4. e \notin ToSet(rest) /\ ToSet(rest) \cup {e} = ToSet(list)
  BY <1>2
<1>5. /\ <<e>> \o rest \in Seq(Elements) /\ IsInjective(<<e>> \o rest)
      /\ ToSet(<<e>> \o rest) = ToSet(rest) \cup {e}
  BY <1>2, <1>3, <1>4, FrontIsList
<1> QED BY <1>1, <1>4, <1>5

LEMMA BacksAreListed ==
  ASSUME NEW list \in Seq(Elements), NEW back \in Backs(list)
  PROVE  back \in Seq(Elements) /\ ToSet(back) \subseteq ToSet(list)
<1>1. PICK i \in 1 .. Len(list) + 1 : back = SubSeq(list, i, Len(list))
  BY DEF Backs
<1>2. back \in Seq(Elements) /\ \A j \in 1 .. Len(back) : \E n \in 1 .. Len(list) : back[j] = list[n]
  BY <1>1
<1> QED BY <1>2, SeqRange

-----------------------------------------------------------------------------
(***************************************************************************)
(* Sums of costs.  The theorems of induction of the libraries take an      *)
(* operator, which no prover here can instantiate: AllNaturals is about a  *)
(* set of numbers instead, by the pigeonhole principle.                    *)
(***************************************************************************)
\* What no injection into fewer elements leaves to induction on a set of numbers.
LEMMA AllNaturals ==
  ASSUME NEW S, 0 \in S, \A n \in Nat : n \in S => n + 1 \in S
  PROVE  Nat \subseteq S
<1> SUFFICES ASSUME NEW m \in Nat, m \notin S PROVE FALSE
  OBVIOUS
<1> DEFINE B == {k \in 0 .. m : k \in S}
           C == B \ {0}
           f == [k \in B |-> k + 1]
<1>1. IsFiniteSet(B) /\ 0 \in B
  <2>1. IsFiniteSet(0 .. m)
    BY FS_Interval
  <2>2. B \in SUBSET (0 .. m)
    OBVIOUS
  <2> QED BY <2>1, <2>2, FS_Subset
<1>2. /\ IsFiniteSet(C) /\ Cardinality(C) < Cardinality(B)
  <2>1. Cardinality(B) \in Nat /\ Cardinality(C) = Cardinality(B) - 1 /\ IsFiniteSet(C)
    BY <1>1, FS_RemoveElement, FS_CardinalityType, Zenon
  <2> QED BY <2>1
<1>3. f \in [B -> C]
  OBVIOUS
<1>4. \A x, y \in B : f[x] = f[y] => x = y
  OBVIOUS
<1> HIDE DEF B, C, f
<1> QED BY <1>1, <1>2, <1>3, <1>4, FS_PigeonHole

LEMMA LessByOne ==
  ASSUME NEW D, IsFiniteSet(D), NEW d \in D, NEW n \in Nat, Cardinality(D) = n + 1
  PROVE  Cardinality(D \ {d}) = n
<1>1. Cardinality(D \ {d}) = Cardinality(D) - 1
  BY FS_RemoveElement, Zenon
<1> QED BY <1>1

\* A sum of costs of elements, over subsets of E.
Sums(sum, E, elements) ==
  /\ sum \in [SUBSET E -> Nat] /\ sum[{}] = 0
  /\ \A s \in SUBSET E : \A e \in s : sum[s] = elements[e].cost + sum[s \ {e}]

LEMMA SumExists ==
  ASSUME NEW elements, NEW E, IsFiniteSet(E), \A e \in E : elements[e].cost \in Nat
  PROVE  \E sum : Sums(sum, E, elements)
<1> DEFINE S == {n \in Nat : \A D \in SUBSET E : Cardinality(D) = n => \E sum : Sums(sum, D, elements)}
<1>1. 0 \in S
  <2> SUFFICES ASSUME NEW D \in SUBSET E, Cardinality(D) = 0 PROVE \E sum : Sums(sum, D, elements)
    OBVIOUS
  <2>1. D = {}
    BY FS_Subset, FS_EmptySet
  <2>2. Sums([s \in SUBSET D |-> 0], D, elements)
    BY <2>1 DEF Sums
  <2> QED BY <2>2
<1>2. ASSUME NEW n \in Nat, n \in S PROVE n + 1 \in S
  <2> SUFFICES ASSUME NEW D \in SUBSET E, Cardinality(D) = n + 1 PROVE \E sum : Sums(sum, D, elements)
    OBVIOUS
  <2>1. IsFiniteSet(D) /\ D # {}
    BY FS_Subset, FS_EmptySet
  <2>2. PICK d \in D : TRUE
    BY <2>1
  <2>3. Cardinality(D \ {d}) = n
    BY <2>1, <2>2, LessByOne
  <2>4. PICK sum : Sums(sum, D \ {d}, elements)
    BY <1>2, <2>3
  <2> DEFINE c(e) == elements[e].cost
             more == [s \in SUBSET D |-> IF d \in s THEN c(d) + sum[s \ {d}] ELSE sum[s]]
  <2>5. \A s \in SUBSET D : s \ {d} \in SUBSET (D \ {d}) /\ (d \notin s => s \in SUBSET (D \ {d}))
    OBVIOUS
  <2>6. /\ \A e \in D : c(e) \in Nat
        /\ sum \in [SUBSET (D \ {d}) -> Nat] /\ sum[{}] = 0
        /\ \A s \in SUBSET (D \ {d}) : \A e \in s : sum[s] = c(e) + sum[s \ {e}]
    BY <2>4 DEF Sums
  <2> HIDE DEF c
  <2>7. more \in [SUBSET D -> Nat] /\ more[{}] = 0
    BY <2>2, <2>5, <2>6
  <2>8. ASSUME NEW s \in SUBSET D, NEW e \in s PROVE more[s] = c(e) + more[s \ {e}]
    <3>1. s \ {e} \in SUBSET D
      OBVIOUS
    <3>2. CASE d = e
      BY <3>1, <3>2
    <3>3. CASE d # e /\ d \in s
      <4>1. /\ s \ {d} \in SUBSET (D \ {d}) /\ e \in s \ {d}
            /\ (s \ {d}) \ {e} = (s \ {e}) \ {d} /\ (s \ {e}) \ {d} \in SUBSET (D \ {d})
        BY <3>3
      <4>2. sum[s \ {d}] = c(e) + sum[(s \ {e}) \ {d}]
        BY <2>6, <4>1
      <4>3. more[s] = c(d) + sum[s \ {d}] /\ more[s \ {e}] = c(d) + sum[(s \ {e}) \ {d}]
        BY <3>1, <3>3
      <4>4. c(d) \in Nat /\ c(e) \in Nat /\ sum[(s \ {e}) \ {d}] \in Nat
        BY <2>6, <4>1
      <4> QED BY <4>2, <4>3, <4>4
    <3>4. CASE d \notin s
      <4>1. s \in SUBSET (D \ {d}) /\ d \notin s \ {e}
        BY <3>4
      <4> QED BY <2>6, <3>1, <3>4, <4>1
    <3> QED BY <3>2, <3>3, <3>4
  <2>9. Sums(more, D, elements)
    BY <2>7, <2>8 DEF Sums, c
  <2> QED BY <2>9
<1>3. Nat \subseteq S
  <2> HIDE DEF S
  <2> QED BY <1>1, <1>2, AllNaturals
<1>4. Cardinality(E) \in S
  BY <1>3, FS_CardinalityType
<1> QED BY <1>4

\* Disjoint sets.
LEMMA SumSplit ==
  ASSUME NEW elements, NEW E, IsFiniteSet(E), NEW sum, Sums(sum, E, elements),
         \A e \in E : elements[e].cost \in Nat,
         NEW A \in SUBSET E, NEW B \in SUBSET E, A \cap B = {}
  PROVE  sum[A \cup B] = sum[A] + sum[B]
<1> DEFINE S == {n \in Nat : \A D \in SUBSET B : Cardinality(D) = n => sum[A \cup D] = sum[A] + sum[D]}
<1>1. 0 \in S
  <2> SUFFICES ASSUME NEW D \in SUBSET B, Cardinality(D) = 0 PROVE sum[A \cup D] = sum[A] + sum[D]
    OBVIOUS
  <2>1. D = {} /\ A \cup D = A
    BY FS_Subset, FS_EmptySet
  <2> QED BY <2>1 DEF Sums
<1>2. ASSUME NEW n \in Nat, n \in S PROVE n + 1 \in S
  <2> SUFFICES ASSUME NEW D \in SUBSET B, Cardinality(D) = n + 1 PROVE sum[A \cup D] = sum[A] + sum[D]
    BY <1>2
  <2>1. IsFiniteSet(D) /\ D # {}
    BY FS_Subset, FS_EmptySet
  <2>2. PICK d \in D : TRUE
    BY <2>1
  <2>3. Cardinality(D \ {d}) = n /\ D \ {d} \in SUBSET B
    BY <2>1, <2>2, LessByOne
  <2>4. sum[A \cup (D \ {d})] = sum[A] + sum[D \ {d}]
    BY <1>2, <2>3
  <2>5. /\ (A \cup D) \ {d} = A \cup (D \ {d}) /\ d \in A \cup D /\ A \cup D \in SUBSET E
        /\ D \in SUBSET E /\ D \ {d} \in SUBSET E
    OBVIOUS
  <2>6. sum[A \cup D] = elements[d].cost + sum[A \cup (D \ {d})] /\ sum[D] = elements[d].cost + sum[D \ {d}]
    <3>1. \A s \in SUBSET E : \A e \in s : sum[s] = elements[e].cost + sum[s \ {e}]
      BY DEF Sums
    <3>2. sum[A \cup D] = elements[d].cost + sum[(A \cup D) \ {d}]
      BY <2>5, <3>1
    <3>3. sum[D] = elements[d].cost + sum[D \ {d}]
      BY <2>2, <2>5, <3>1
    <3> QED BY <2>5, <3>2, <3>3
  <2>7. elements[d].cost \in Nat /\ sum[A] \in Nat /\ sum[D \ {d}] \in Nat
    BY <2>2, <2>5 DEF Sums
  <2> QED BY <2>4, <2>6, <2>7
<1>3. Nat \subseteq S
  <2> HIDE DEF S
  <2> QED BY <1>1, <1>2, AllNaturals
<1>4. Cardinality(B) \in S
  BY <1>3, FS_Subset, FS_CardinalityType
<1> QED BY <1>4

\* The fold of the code's list is the sum of its elements.
Adds(it, elements, list) ==
  it = [s \in SUBSET DOMAIN list |->
          IF s = {} THEN 0
          ELSE elements[list[CHOOSE i \in s : TRUE]].cost + it[s \ {CHOOSE i \in s : TRUE}]]

LEMMA TotalAdds ==
  ASSUME NEW elements, NEW list
  PROVE  Total(elements, list) = (CHOOSE it : Adds(it, elements, list))[DOMAIN list]
BY DEF Adds, Total, FoldSeq, FoldFunction, FoldFunctionOnSet, MapThenFoldSet

LEMMA TotalIsSum ==
  ASSUME NEW elements, NEW E, IsFiniteSet(E), NEW sum, Sums(sum, E, elements),
         \A e \in E : elements[e].cost \in Nat,
         NEW list \in Seq(E), IsInjective(list)
  PROVE  Total(elements, list) = sum[ToSet(list)]
<1> DEFINE I == DOMAIN list
           ElementsAt(s) == {list[i] : i \in s}
           any == [s \in SUBSET I |-> sum[ElementsAt(s)]]
           one == CHOOSE it : Adds(it, elements, list)
<1>1. I = 1 .. Len(list) /\ IsFiniteSet(I) /\ ToSet(list) = ElementsAt(I)
  BY FS_Interval DEF ToSet
<1>2. \A s \in SUBSET I : ElementsAt(s) \in SUBSET E
  OBVIOUS
<1>3. ASSUME NEW s \in SUBSET I, NEW i \in s
      PROVE  ElementsAt(s \ {i}) = ElementsAt(s) \ {list[i]} /\ list[i] \in ElementsAt(s)
  BY DEF IsInjective
<1>4. ASSUME NEW s \in SUBSET I, NEW i \in s
      PROVE  sum[ElementsAt(s)] = elements[list[i]].cost + sum[ElementsAt(s \ {i})]
  <2> HIDE DEF ElementsAt
  <2> QED BY <1>2, <1>3, <1>4 DEF Sums
<1>5. sum[ElementsAt({})] = 0
  <2>1. ElementsAt({}) = {}
    OBVIOUS
  <2> QED BY <2>1 DEF Sums
<1> HIDE DEF ElementsAt
<1>6. Adds(any, elements, list)
  <2>1. ASSUME NEW s \in SUBSET I, s # {}
        PROVE  /\ any[s] = elements[list[CHOOSE i \in s : TRUE]].cost + any[s \ {CHOOSE i \in s : TRUE}]
    <3>1. (CHOOSE i \in s : TRUE) \in s
      BY <2>1
    <3>2. s \ {CHOOSE i \in s : TRUE} \in SUBSET I
      OBVIOUS
    <3> QED BY <1>4, <3>1, <3>2
  <2>2. any[{}] = 0
    BY <1>5
  <2>3. any = [s \in SUBSET I |-> any[s]]
    OBVIOUS
  <2> HIDE DEF any
  <2>4. \A s \in SUBSET I :
          any[s] = IF s = {} THEN 0
                   ELSE elements[list[CHOOSE i \in s : TRUE]].cost + any[s \ {CHOOSE i \in s : TRUE}]
    BY <2>1, <2>2
  <2> QED BY <2>3, <2>4 DEF Adds
<1>7. Adds(one, elements, list)
  BY <1>6
<1> HIDE DEF one
<1> DEFINE S == {n \in Nat : \A s \in SUBSET I : Cardinality(s) = n => one[s] = sum[ElementsAt(s)]}
<1>8. one[{}] = 0
  BY <1>7 DEF Adds
<1>9. ASSUME NEW s \in SUBSET I, s # {}
      PROVE  \E i \in s : one[s] = elements[list[i]].cost + one[s \ {i}]
  <2>1. (CHOOSE i \in s : TRUE) \in s
    BY <1>9
  <2>2. one[s] = elements[list[CHOOSE i \in s : TRUE]].cost + one[s \ {CHOOSE i \in s : TRUE}]
    BY <1>7, <1>9 DEF Adds
  <2> QED BY <2>1, <2>2
<1>10. 0 \in S
  <2> SUFFICES ASSUME NEW s \in SUBSET I, Cardinality(s) = 0 PROVE one[s] = sum[ElementsAt(s)]
    OBVIOUS
  <2>1. s = {}
    BY <1>1, FS_Subset, FS_EmptySet
  <2> QED BY <1>5, <1>8, <2>1
<1>11. ASSUME NEW n \in Nat, n \in S PROVE n + 1 \in S
  <2> SUFFICES ASSUME NEW s \in SUBSET I, Cardinality(s) = n + 1 PROVE one[s] = sum[ElementsAt(s)]
    OBVIOUS
  <2>1. IsFiniteSet(s) /\ s # {}
    BY <1>1, FS_Subset, FS_EmptySet
  <2>2. PICK i \in s : one[s] = elements[list[i]].cost + one[s \ {i}]
    BY <1>9, <2>1
  <2>3. Cardinality(s \ {i}) = n /\ s \ {i} \in SUBSET I
    BY <2>1, <2>2, LessByOne
  <2>4. one[s \ {i}] = sum[ElementsAt(s \ {i})]
    BY <1>11, <2>3
  <2> QED BY <1>4, <2>2, <2>4
<1>12. Nat \subseteq S
  <2> HIDE DEF S
  <2> QED BY <1>10, <1>11, AllNaturals
<1>13. one[I] = sum[ElementsAt(I)]
  BY <1>1, <1>12, FS_CardinalityType
<1> QED BY <1>1, <1>13, TotalAdds DEF one

Priced(elements, list) == \A e \in ToSet(list) : elements[e].cost \in Nat

LEMMA ListFinite ==
  ASSUME NEW S, NEW list \in Seq(S)
  PROVE  IsFiniteSet(ToSet(list))
<1>1. IsFiniteSet(1 .. Len(list))
  BY FS_Interval
<1>2. list \in Surjection(1 .. Len(list), ToSet(list))
  BY SeqRange DEF Surjection
<1> QED BY <1>1, <1>2, FS_Surjection

\* One list is a second one without elements of a third one: it costs as much less at most.
LEMMA TotalsSplit ==
  ASSUME NEW elements,
         NEW list \in Seq(Elements), IsInjective(list), Priced(elements, list),
         NEW some \in Seq(Elements), IsInjective(some), Priced(elements, some),
         NEW rest \in Seq(Elements), IsInjective(rest), ToSet(rest) = ToSet(list) \ ToSet(some)
  PROVE  /\ Total(elements, list) \in Nat /\ Total(elements, some) \in Nat
         /\ Total(elements, rest) \in Nat
         /\ Total(elements, list) <= Total(elements, rest) + Total(elements, some)
<1> DEFINE E == ToSet(list) \cup ToSet(some)
<1>1. IsFiniteSet(E)
  BY ListFinite, FS_Union
<1>2. \A e \in E : elements[e].cost \in Nat
  BY DEF Priced
<1>3. /\ ToSet(list) \in SUBSET E /\ ToSet(some) \in SUBSET E /\ ToSet(rest) \in SUBSET E
      /\ list \in Seq(E) /\ some \in Seq(E) /\ rest \in Seq(E)
  <2>1. ASSUME NEW q \in Seq(Elements), ToSet(q) \subseteq E PROVE q \in Seq(E)
    BY <2>1, SeqRange
  <2> QED BY <2>1
<1> HIDE DEF E
<1>4. PICK sum : Sums(sum, E, elements)
  BY <1>1, <1>2, SumExists
<1>5. /\ Total(elements, list) = sum[ToSet(list)] /\ Total(elements, some) = sum[ToSet(some)]
      /\ Total(elements, rest) = sum[ToSet(rest)]
  <2>1. ASSUME NEW q \in Seq(E), IsInjective(q) PROVE Total(elements, q) = sum[ToSet(q)]
    BY <1>1, <1>2, <1>4, <2>1, TotalIsSum
  <2> QED BY <1>3, <2>1
<1> DEFINE L == ToSet(list)
           B == ToSet(some)
           R == ToSet(rest)
<1>6. R \cup B = L \cup (B \ L) /\ R \cap B = {} /\ L \cap (B \ L) = {} /\ B \ L \in SUBSET E
  BY <1>3
<1>7. sum[R \cup B] = sum[R] + sum[B]
  BY <1>1, <1>2, <1>3, <1>4, <1>6, SumSplit, SMTT(30)
<1>8. sum[L \cup (B \ L)] = sum[L] + sum[B \ L]
  BY <1>1, <1>2, <1>3, <1>4, <1>6, SumSplit, SMTT(30)
<1>9. sum[R] \in Nat /\ sum[B] \in Nat /\ sum[L] \in Nat /\ sum[B \ L] \in Nat
  BY <1>3, <1>4, <1>6 DEF Sums
<1>10. sum[R] + sum[B] = sum[L] + sum[B \ L]
  BY <1>6, <1>7, <1>8
<1>11. sum[L] <= sum[R] + sum[B]
  <2> HIDE DEF L, B, R
  <2> QED BY <1>9, <1>10
<1> QED BY <1>5, <1>9, <1>11

\* The order does not matter, nor anything but the costs of the elements listed.
LEMMA SameTotal ==
  ASSUME NEW elements, NEW others, NEW list \in Seq(Elements), IsInjective(list),
         NEW second \in Seq(Elements), IsInjective(second), ToSet(second) = ToSet(list),
         Priced(elements, list), \A e \in ToSet(list) : others[e].cost = elements[e].cost
  PROVE  Total(others, second) = Total(elements, list)
<1> DEFINE E == ToSet(list)
<1>1. IsFiniteSet(E) /\ list \in Seq(E) /\ second \in Seq(E)
  BY ListFinite, SeqRange
<1>2. \A e \in E : elements[e].cost \in Nat /\ others[e].cost \in Nat
  BY DEF Priced
<1> HIDE DEF E
<1>3. PICK sum : Sums(sum, E, elements)
  BY <1>1, <1>2, SumExists
<1>4. Sums(sum, E, others)
  BY <1>3 DEF Sums, E
<1>5. Total(elements, list) = sum[ToSet(list)]
  BY <1>1, <1>2, <1>3, TotalIsSum
<1>6. Total(others, second) = sum[ToSet(second)]
  BY <1>1, <1>2, <1>4, TotalIsSum, SMTT(30)
<1> QED BY <1>5, <1>6

LEMMA FrontTotal ==
  ASSUME NEW elements, NEW list \in Seq(Elements), IsInjective(list), Priced(elements, list),
         NEW e \in Elements \ ToSet(list), elements[e].cost \in Nat
  PROVE  /\ Total(elements, <<e>> \o list) = elements[e].cost + Total(elements, list)
         /\ Total(elements, list) \in Nat
<1> DEFINE front == <<e>> \o list
           E == ToSet(list) \cup {e}
<1>1. front \in Seq(Elements) /\ IsInjective(front) /\ ToSet(front) = E
  BY FrontIsList
<1> HIDE DEF front
<1>2. IsFiniteSet(E)
  BY ListFinite, FS_AddElement
<1>3. front \in Seq(E) /\ list \in Seq(E)
  BY <1>1, SeqRange
<1>4. \A d \in E : elements[d].cost \in Nat
  BY DEF Priced
<1>5. ToSet(list) = E \ {e} /\ E \in SUBSET E /\ e \in E /\ ToSet(list) \in SUBSET E
  OBVIOUS
<1> HIDE DEF E
<1>6. PICK sum : Sums(sum, E, elements)
  BY <1>2, <1>4, SumExists
<1>7. Total(elements, front) = sum[E] /\ Total(elements, list) = sum[ToSet(list)]
  BY <1>1, <1>2, <1>3, <1>4, <1>6, TotalIsSum
<1>8. sum[E] = elements[e].cost + sum[E \ {e}] /\ sum[E \ {e}] \in Nat
  BY <1>5, <1>6 DEF Sums
<1> QED BY <1>5, <1>7, <1>8 DEF front

LEMMA BacksAreInjective ==
  ASSUME NEW list \in Seq(Elements), IsInjective(list), NEW back \in Backs(list)
  PROVE  IsInjective(back)
<1>1. PICK i \in 1 .. Len(list) + 1 : back = SubSeq(list, i, Len(list))
  BY DEF Backs
<1>2. /\ Len(back) \in Nat /\ DOMAIN back = 1 .. Len(back)
      /\ \A j \in 1 .. Len(back) : j + i - 1 \in DOMAIN list /\ back[j] = list[j + i - 1]
  BY <1>1
<1>3. ASSUME NEW j \in 1 .. Len(back), NEW k \in 1 .. Len(back), back[j] = back[k] PROVE j = k
  <2>1. j + i - 1 = k + i - 1
    BY <1>2, <1>3 DEF IsInjective
  <2> QED BY <1>2, <2>1
<1> QED BY <1>2, <1>3 DEF IsInjective

-----------------------------------------------------------------------------
(***************************************************************************)
(* removeElement, in every place it is called from.                        *)
(***************************************************************************)

\* Every key keeps its element or loses it; the keys of removed elements lose
\* theirs, and elements in use stay what they are.
Shrinks(some, elements, map) ==
  /\ \A k \in Keys :
       \/ items'[k] = Nil
       \/ items'[k] = map[k] /\ element'[map[k]] = elements[map[k]] /\ map[k] \notin ToSet(some)
  /\ \A e \in ToSet(some) : items'[elements[e].key] = Nil

LEMMA Removing ==
  ASSUME NEW map, NEW elements, NEW list, NEW some, NEW cost,
         Fits(map, elements, list),
         \A e \in ToSet(some) : e \in Elements /\ elements[e] # Nil,
         Getting(elements, getter'),
         RemoveElements(some, elements, list, map, cost)
  PROVE  /\ Fits(items', element', evictionList') /\ Getting(element', getter')
         /\ Shrinks(some, elements, map)
<1> DEFINE keys == {elements[e].key : e \in ToSet(some)}
           used == ToSet(evictionList') \cup Range(getter')
<1>1. /\ evictionList' \in Without(ToSet(some), list)
      /\ items' = [k \in Keys |-> IF k \in keys THEN Nil ELSE map[k]]
      /\ element' = [e \in Elements |-> IF e \in used THEN elements[e] ELSE Nil]
  BY DEF RemoveElements, Collected
<1>2. /\ evictionList' \in Seq(Elements) /\ IsInjective(evictionList')
      /\ ToSet(evictionList') = ToSet(list) \ ToSet(some)
  BY <1>1, WithoutIsList DEF Fits, Listed
<1>3. \A g \in Getters : getter'[g] \in used
  BY DEF Getting, Range
<1>4. ToSet(list) \subseteq Elements
  BY SeqRange DEF Fits, Listed
<1>5. \A e \in ToSet(list) \ ToSet(some) : e \in used
  BY <1>2
<1> HIDE DEF used
<1>6. \A k \in Keys : map[k] # Nil /\ k \notin keys => map[k] \in ToSet(list) \ ToSet(some)
  BY DEF Fits
<1> HIDE DEF keys
<1>7. Listed(element', evictionList')
  BY <1>1, <1>2, <1>4, <1>5 DEF Fits, Listed
<1>8. \A k \in Keys :
        items'[k] # Nil =>
          /\ items'[k] = map[k] /\ k \notin keys
          /\ map[k] \in ToSet(evictionList') /\ element'[map[k]] = elements[map[k]]
  BY <1>1, <1>2, <1>4, <1>5, <1>6
<1>9. Fits(items', element', evictionList')
  BY <1>1, <1>7, <1>8 DEF Fits
<1>10. Getting(element', getter')
  BY <1>1, <1>3 DEF Getting
<1>11. Shrinks(some, elements, map)
  <2>1. \A e \in ToSet(some) : elements[e].key \in keys /\ elements[e].key \in Keys
    BY DEF keys, Fits, Listed, Item
  <2>2. \A e \in ToSet(some) : items'[elements[e].key] = Nil
    BY <1>1, <2>1
  <2> QED BY <1>2, <1>8, <2>2 DEF Shrinks
<1> QED BY <1>9, <1>10, <1>11

-----------------------------------------------------------------------------
(***************************************************************************)
(* What a step means to those who use the cache.                           *)
(***************************************************************************)
Answer(k) == IF items[k] = Nil THEN Nil ELSE element[items[k]].data

Forgets(k) == Answer(k)' \in {Answer(k), Nil} /\ latest'[k] = latest[k]

Means ==
  \/ \A k \in Keys : Forgets(k)
  \/ \E key \in Keys :
       /\ \A k \in Keys \ {key} : Forgets(k)
       /\ \/ latest'[key] = Nil /\ Answer(key)' = Nil
          \/ \E value \in Values : latest'[key] = value /\ Answer(key)' \in {value, Nil}
  \/ \A k \in Keys : Answer(k)' = Nil /\ latest'[k] = Nil

\* A step that only removes elements forgets.
LEMMA RemovingForgets ==
  ASSUME CacheInv, NEW some,
         \A e \in ToSet(some) : e \in Elements /\ element[e] # Nil,
         Getting(element, getter'), now' = now,
         RemoveElements(some, element, evictionList, items, currentCost)
  PROVE  /\ Fits(items', element', evictionList') /\ Getting(element', getter') /\ now' \in Nat
         /\ Shrinks(some, element, items)
         /\ \A k \in Keys : Answer(k)' \in {Answer(k), Nil}
         /\ \A k \in Keys : items'[k] # Nil => element'[items'[k]].data = latest[k]
<1>1. /\ Fits(items', element', evictionList') /\ Getting(element', getter')
      /\ Shrinks(some, element, items)
  BY Removing DEF CacheInv
<1>2. now' \in Nat
  BY DEF CacheInv
<1>3. \A k \in Keys :
        \/ items'[k] = Nil
        \/ items'[k] = items[k] /\ element'[items[k]] = element[items[k]]
  BY <1>1 DEF Shrinks
<1> QED BY <1>1, <1>2, <1>3 DEF Answer, CacheInv, AnswersAreLatest

LEMMA HitKeeps ==
  ASSUME CacheInv, NEW g \in Getters, NEW key \in Keys, Hit(g, key)
  PROVE  CacheInv' /\ Means
<1>1. items[key] \in ToSet(evictionList)
  BY DEF Hit, CacheInv, Fits
<1>2. /\ evictionList' \in Seq(Elements) /\ IsInjective(evictionList')
      /\ ToSet(evictionList') = ToSet(evictionList)
  BY <1>1, MovedIsList DEF Hit, CacheInv, Fits, Listed
<1>3. UNCHANGED <<now, items, element, getter, latest>>
  BY DEF Hit
<1>4. CacheInv'
  BY <1>2, <1>3 DEF CacheInv, Fits, Listed, Getting, AnswersAreLatest
<1>5. \A k \in Keys : Forgets(k)
  BY <1>3 DEF Forgets, Answer
<1> QED BY <1>4, <1>5 DEF Means

LEMMA FindExpiredKeeps ==
  ASSUME CacheInv, NEW g \in Getters, NEW key \in Keys, FindExpired(g, key)
  PROVE  CacheInv' /\ Means
<1>1. items[key] \in Elements /\ element[items[key]] # Nil
  BY DEF FindExpired, CacheInv, Fits, Listed
<1>2. UNCHANGED <<now, items, element, evictionList, latest>>
  BY DEF FindExpired
<1>3. Getting(element, getter')
  BY <1>1 DEF FindExpired, CacheInv, Getting
<1>4. CacheInv'
  BY <1>2, <1>3 DEF CacheInv, Fits, Listed, Getting, AnswersAreLatest
<1>5. \A k \in Keys : Forgets(k)
  BY <1>2 DEF Forgets, Answer
<1> QED BY <1>4, <1>5 DEF Means

LEMMA RemoveExpiredKeeps ==
  ASSUME CacheInv, NEW g \in Getters, RemoveExpired(g)
  PROVE  CacheInv' /\ Means
<1>1. ToSet(<<getter[g]>>) = {getter[g]}
  BY DEF ToSet
<1>2. getter[g] \in Elements /\ element[getter[g]] # Nil
  BY DEF RemoveExpired, CacheInv, Getting
<1>3. Getting(element, getter')
  BY DEF RemoveExpired, CacheInv, Getting
<1>4. RemoveElements(<<getter[g]>>, element, evictionList, items, currentCost)
  BY DEF RemoveExpired
<1>5. now' = now /\ latest' = latest
  BY DEF RemoveExpired
<1>6. /\ Fits(items', element', evictionList') /\ Getting(element', getter') /\ now' \in Nat
      /\ \A k \in Keys : Answer(k)' \in {Answer(k), Nil}
      /\ \A k \in Keys : items'[k] # Nil => element'[items'[k]].data = latest[k]
  BY <1>1, <1>2, <1>3, <1>4, <1>5, RemovingForgets
<1>7. CacheInv'
  BY <1>5, <1>6 DEF CacheInv, AnswersAreLatest
<1>8. \A k \in Keys : Forgets(k)
  BY <1>5, <1>6 DEF Forgets
<1> QED BY <1>7, <1>8 DEF Means

LEMMA EvictExpiredItemsKeeps ==
  ASSUME CacheInv, EvictExpiredItems
  PROVE  CacheInv' /\ Means
<1>1. PICK expired \in Without({e \in ToSet(evictionList) : ~Expired(e)}, evictionList) :
        RemoveElements(expired, element, evictionList, items, currentCost)
  BY DEF EvictExpiredItems
<1>2. now' = now /\ getter' = getter /\ latest' = latest
  BY DEF EvictExpiredItems
<1>3. ToSet(expired) \subseteq ToSet(evictionList)
  BY WithoutIsList DEF CacheInv, Fits, Listed
<1>4. \A e \in ToSet(evictionList) : e \in Elements /\ element[e] # Nil
  BY SeqRange DEF CacheInv, Fits, Listed
<1>5. Getting(element, getter')
  BY <1>2 DEF CacheInv
<1>6. /\ Fits(items', element', evictionList') /\ Getting(element', getter') /\ now' \in Nat
      /\ \A k \in Keys : Answer(k)' \in {Answer(k), Nil}
      /\ \A k \in Keys : items'[k] # Nil => element'[items'[k]].data = latest[k]
  BY <1>1, <1>2, <1>3, <1>4, <1>5, RemovingForgets
<1>7. CacheInv'
  BY <1>2, <1>6 DEF CacheInv, AnswersAreLatest
<1>8. \A k \in Keys : Forgets(k)
  BY <1>2, <1>6 DEF Forgets
<1> QED BY <1>7, <1>8 DEF Means

LEMMA DeleteKeeps ==
  ASSUME CacheInv, NEW key \in Keys, Delete(key)
  PROVE  CacheInv' /\ Means
<1> DEFINE e == items[key]
<1>1. ToSet(<<e>>) = {e}
  BY DEF ToSet
<1>2. e \in Elements /\ element[e] # Nil /\ element[e].key = key
  BY DEF Delete, CacheInv, Fits, Listed
<1>3. now' = now /\ getter' = getter /\ latest' = [latest EXCEPT ![key] = Nil]
  BY DEF Delete
<1>4. RemoveElements(<<e>>, element, evictionList, items, currentCost)
  BY DEF Delete
<1>5. Getting(element, getter')
  BY <1>3 DEF CacheInv
<1> HIDE DEF e
<1>6. /\ Fits(items', element', evictionList') /\ Getting(element', getter') /\ now' \in Nat
      /\ Shrinks(<<e>>, element, items)
      /\ \A k \in Keys : Answer(k)' \in {Answer(k), Nil}
      /\ \A k \in Keys : items'[k] # Nil => element'[items'[k]].data = latest[k]
  BY <1>1, <1>2, <1>3, <1>4, <1>5, RemovingForgets
<1>7. items'[key] = Nil
  BY <1>1, <1>2, <1>6 DEF Shrinks
<1>8. /\ latest' \in [Keys -> Values \cup {Nil}] /\ latest'[key] = Nil
      /\ \A k \in Keys \ {key} : latest'[k] = latest[k]
  BY <1>3 DEF CacheInv
<1>9. CacheInv'
  BY <1>6, <1>7, <1>8 DEF CacheInv, AnswersAreLatest
<1>10. \A k \in Keys \ {key} : Forgets(k)
  BY <1>6, <1>8 DEF Forgets
<1>11. Answer(key)' = Nil
  BY <1>7 DEF Answer
<1> QED BY <1>8, <1>9, <1>10, <1>11 DEF Means

LEMMA ClearKeeps ==
  ASSUME CacheInv, Clear
  PROVE  CacheInv' /\ Means
<1>1. /\ items' = [k \in Keys |-> Nil] /\ latest' = [k \in Keys |-> Nil]
      /\ evictionList' = <<>> /\ now' = now /\ getter' = getter
      /\ element' = [e \in Elements |->
                       IF e \in ToSet(<<>>) \cup Range(getter) THEN element[e] ELSE Nil]
  BY DEF Clear, Collected
<1>2. \A g \in Getters : getter[g] \in Range(getter)
  BY DEF Range, CacheInv, Getting
<1>3. Listed(element', evictionList')
  <2>1. ToSet(evictionList') = {} /\ IsInjective(evictionList') /\ evictionList' \in Seq(Elements)
    BY <1>1 DEF ToSet, IsInjective
  <2> QED BY <1>1, <2>1 DEF CacheInv, Fits, Listed
<1>4. Fits(items', element', evictionList')
  BY <1>1, <1>3 DEF Fits
<1>5. Getting(element', getter')
  BY <1>1, <1>2 DEF CacheInv, Getting
<1>6. CacheInv'
  BY <1>1, <1>4, <1>5 DEF CacheInv, AnswersAreLatest
<1>7. \A k \in Keys : Answer(k)' = Nil /\ latest'[k] = Nil
  BY <1>1 DEF Answer
<1> QED BY <1>6, <1>7 DEF Means

LEMMA TickKeeps ==
  ASSUME CacheInv, Tick
  PROVE  CacheInv' /\ Means
<1>1. now' \in Nat /\ UNCHANGED <<items, element, evictionList, getter, latest>>
  BY DEF Tick, CacheInv
<1>2. CacheInv'
  BY <1>1 DEF CacheInv, Fits, Listed, Getting, AnswersAreLatest
<1>3. \A k \in Keys : Forgets(k)
  BY <1>1 DEF Forgets, Answer
<1> QED BY <1>2, <1>3 DEF Means

-----------------------------------------------------------------------------
(***************************************************************************)
(* Set: first an element holds the new value, then a back is removed.      *)
(***************************************************************************)
LEMMA Stored ==
  ASSUME CacheInv, NEW key \in Keys, NEW value \in Values, NEW duration \in Durations,
         NEW cost \in Costs, NEW e \in Elements
  PROVE  LET elements == Store(e, key, value, duration, cost) IN
         /\ elements \in [Elements -> Item \cup {Nil}]
         /\ elements[e] # Nil /\ elements[e].key = key /\ elements[e].data = value
         /\ \A d \in Elements \ {e} : elements[d] = element[d]
<1> DEFINE item == [key |-> key, data |-> value, cost |-> cost,
                    expires |-> IF duration = 0 THEN Nil ELSE now + duration]
<1>1. item \in Item
  <2>1. (IF duration = 0 THEN Nil ELSE now + duration) \in Nat \cup {Nil}
    BY LruAssumption DEF CacheInv
  <2> QED BY <2>1 DEF Item
<1>2. item # Nil
  BY <1>1, NilAssumption
<1>3. item.key = key /\ item.data = value
  OBVIOUS
<1>4. Store(e, key, value, duration, cost) = [element EXCEPT ![e] = item]
  BY DEF Store
<1> HIDE DEF item
<1> QED BY <1>1, <1>2, <1>3, <1>4 DEF CacheInv, Fits, Listed

\* What Set leaves when the new value is stored and a back is removed.
LEMMA Evicted ==
  ASSUME CacheInv, NEW key \in Keys, NEW value \in Values, NEW elements, NEW list, NEW map, NEW cost,
         Fits(map, elements, list), Getting(elements, getter), map[key] # Nil,
         elements[map[key]].data = value,
         \A k \in Keys \ {key} : map[k] = items[k],
         \A k \in Keys \ {key} : map[k] # Nil => elements[map[k]] = element[map[k]],
         now' = now, getter' = getter, latest' = [latest EXCEPT ![key] = value],
         EvictBack(elements, list, map, cost)
  PROVE  CacheInv' /\ Means
<1>1. PICK back \in Backs(list) : RemoveElements(back, elements, list, map, cost)
  BY DEF EvictBack
<1>2. ToSet(back) \subseteq ToSet(list)
  BY BacksAreListed DEF Fits, Listed
<1>3. \A d \in ToSet(list) : d \in Elements /\ elements[d] # Nil
  BY SeqRange DEF Fits, Listed
<1>4. Getting(elements, getter')
  OBVIOUS
<1>5. /\ Fits(items', element', evictionList') /\ Getting(element', getter')
      /\ Shrinks(back, elements, map)
  BY <1>1, <1>2, <1>3, <1>4, Removing
<1>6. \A k \in Keys :
        \/ items'[k] = Nil
        \/ items'[k] = map[k] /\ element'[map[k]] = elements[map[k]]
  BY <1>5 DEF Shrinks
<1>7. /\ latest' \in [Keys -> Values \cup {Nil}] /\ latest'[key] = value
      /\ \A k \in Keys \ {key} : latest'[k] = latest[k]
  BY DEF CacheInv
<1>8. items'[key] # Nil => element'[items'[key]].data = value
  BY <1>6
<1>9. \A k \in Keys \ {key} :
        items'[k] # Nil => items'[k] = items[k] /\ element'[items'[k]] = element[items[k]]
  BY <1>6
<1>10. CacheInv'
  BY <1>5, <1>7, <1>8, <1>9 DEF CacheInv, AnswersAreLatest
<1>11. \A k \in Keys \ {key} : Forgets(k)
  BY <1>7, <1>9 DEF Forgets, Answer
<1>12. Answer(key)' \in {value, Nil}
  BY <1>8 DEF Answer
<1> QED BY <1>7, <1>10, <1>11, <1>12 DEF Means

LEMMA StoredFits ==
  ASSUME CacheInv, NEW key \in Keys, NEW value \in Values, NEW duration \in Durations, NEW cost \in Costs,
         items[key] # Nil,
         NEW list \in Seq(Elements), IsInjective(list), ToSet(list) = ToSet(evictionList)
  PROVE  LET elements == Store(items[key], key, value, duration, cost) IN
         Fits(items, elements, list) /\ Getting(elements, getter)
<1> DEFINE e == items[key]
           elements == Store(e, key, value, duration, cost)
<1>1. e # Nil /\ e \in Elements /\ e \in ToSet(evictionList)
  BY DEF CacheInv, Fits
<1>2. /\ elements \in [Elements -> Item \cup {Nil}]
      /\ elements[e] # Nil /\ elements[e].key = key
      /\ \A d \in Elements \ {e} : elements[d] = element[d]
  BY <1>1, Stored
<1>3. ToSet(evictionList) \subseteq Elements
  BY SeqRange DEF CacheInv, Fits, Listed
<1> HIDE DEF elements
<1>4. \A k \in Keys \ {key} : items[k] # Nil => items[k] # e /\ items[k] \in Elements
  BY <1>1 DEF CacheInv, Fits
<1> HIDE DEF e
<1>5. Listed(elements, list)
  BY <1>2, <1>3 DEF CacheInv, Fits, Listed
<1>6. \A k \in Keys : items[k] # Nil => items[k] \in ToSet(list) /\ elements[items[k]].key = k
  BY <1>2, <1>4 DEF CacheInv, Fits, e
<1>7. Fits(items, elements, list)
  BY <1>5, <1>6 DEF CacheInv, Fits
<1>8. Getting(elements, getter)
  BY <1>2 DEF CacheInv, Getting
<1> QED BY <1>7, <1>8 DEF elements, e

LEMMA AddedFits ==
  ASSUME CacheInv, NEW key \in Keys, NEW value \in Values, NEW duration \in Durations, NEW cost \in Costs,
         items[key] = Nil, NEW e \in Elements, e \notin Used
  PROVE  LET elements == Store(e, key, value, duration, cost) IN
         Fits([items EXCEPT ![key] = e], elements, <<e>> \o evictionList) /\ Getting(elements, getter)
<1> DEFINE elements == Store(e, key, value, duration, cost)
           list == <<e>> \o evictionList
           map == [items EXCEPT ![key] = e]
<1>1. e \notin ToSet(evictionList) /\ \A g \in Getters : getter[g] # e
  BY DEF Used, Range, CacheInv, Getting
<1>2. list \in Seq(Elements) /\ IsInjective(list) /\ ToSet(list) = ToSet(evictionList) \cup {e}
  BY <1>1, FrontIsList DEF CacheInv, Fits, Listed
<1>3. /\ elements \in [Elements -> Item \cup {Nil}]
      /\ elements[e] # Nil /\ elements[e].key = key
      /\ \A d \in Elements \ {e} : elements[d] = element[d]
  BY Stored
<1>4. ToSet(evictionList) \subseteq Elements
  BY SeqRange DEF CacheInv, Fits, Listed
<1>5. /\ map \in [Keys -> Elements \cup {Nil}] /\ map[key] = e
      /\ \A k \in Keys \ {key} : map[k] = items[k]
  BY DEF CacheInv, Fits
<1> HIDE DEF elements, list, map
<1>6. \A k \in Keys \ {key} : items[k] # Nil => items[k] \in ToSet(evictionList)
  BY DEF CacheInv, Fits
<1>7. Listed(elements, list)
  BY <1>1, <1>2, <1>3, <1>4 DEF CacheInv, Fits, Listed
<1>8. \A k \in Keys \ {key} : map[k] # Nil => elements[map[k]] = element[map[k]]
  BY <1>1, <1>3, <1>4, <1>5, <1>6
<1>9. \A k \in Keys : map[k] # Nil => map[k] \in ToSet(list) /\ elements[map[k]].key = k
  BY <1>2, <1>3, <1>5, <1>6, <1>8 DEF CacheInv, Fits
<1>10. Fits(map, elements, list)
  BY <1>5, <1>7, <1>9 DEF Fits
<1>11. Getting(elements, getter)
  BY <1>1, <1>3 DEF CacheInv, Getting
<1> QED BY <1>10, <1>11 DEF elements, list, map

LEMMA SetExistingKeeps ==
  ASSUME CacheInv, NEW key \in Keys, NEW value \in Values, NEW duration \in Durations,
         NEW cost \in Costs, SetExisting(key, value, duration, cost)
  PROVE  CacheInv' /\ Means
<1> DEFINE e == items[key]
           elements == Store(e, key, value, duration, cost)
<1>1. e # Nil /\ e \in Elements /\ e \in ToSet(evictionList)
  BY DEF SetExisting, CacheInv, Fits
<1>2. PICK list \in MovedToFront(e, evictionList) :
        EvictBack(elements, list, items, currentCost - element[e].cost + cost)
  BY DEF SetExisting
<1>3. now' = now /\ getter' = getter /\ latest' = [latest EXCEPT ![key] = value]
  BY DEF SetExisting
<1>4. list \in Seq(Elements) /\ IsInjective(list) /\ ToSet(list) = ToSet(evictionList)
  BY <1>1, MovedIsList DEF CacheInv, Fits, Listed
<1>5. Fits(items, elements, list) /\ Getting(elements, getter)
  BY <1>1, <1>4, StoredFits
<1>6. elements[e].data = value /\ \A d \in Elements \ {e} : elements[d] = element[d]
  BY <1>1, Stored
<1> HIDE DEF elements
<1>7. \A k \in Keys \ {key} : items[k] # Nil => items[k] # e /\ items[k] \in Elements
  BY <1>1 DEF CacheInv, Fits
<1>8. \A k \in Keys \ {key} : items[k] # Nil => elements[items[k]] = element[items[k]]
  BY <1>6, <1>7
<1> QED BY <1>1, <1>2, <1>3, <1>5, <1>6, <1>8, Evicted

LEMMA SetNewKeeps ==
  ASSUME CacheInv, NEW key \in Keys, NEW value \in Values, NEW duration \in Durations,
         NEW cost \in Costs, SetNew(key, value, duration, cost)
  PROVE  CacheInv' /\ Means
<1> DEFINE e == CHOOSE e \in Elements : e \notin Used
           elements == Store(e, key, value, duration, cost)
           list == <<e>> \o evictionList
           map == [items EXCEPT ![key] = e]
<1>1. EvictBack(elements, list, map, currentCost + cost)
  BY DEF SetNew
<1>2. /\ now' = now /\ getter' = getter /\ latest' = [latest EXCEPT ![key] = value]
      /\ items[key] = Nil
  BY DEF SetNew
<1>3. e \in Elements /\ e \notin Used
  BY DEF SetNew
<1> HIDE DEF e
<1>4. Fits(map, elements, list) /\ Getting(elements, getter)
  BY <1>2, <1>3, AddedFits
<1>5. elements[e].data = value /\ \A d \in Elements \ {e} : elements[d] = element[d]
  BY <1>3, Stored
<1>6. \A k \in Keys \ {key} : items[k] # Nil => items[k] \in Elements \ {e}
  BY <1>3, SeqRange DEF Used, CacheInv, Fits, Listed
<1>7. /\ map[key] = e /\ map[key] # Nil
      /\ \A k \in Keys \ {key} : map[k] = items[k]
  BY <1>3, NilAssumption DEF CacheInv, Fits
<1> HIDE DEF elements, list, map
<1>8. \A k \in Keys \ {key} : map[k] # Nil => elements[map[k]] = element[map[k]]
  BY <1>5, <1>6, <1>7
<1> QED BY <1>1, <1>2, <1>4, <1>5, <1>7, <1>8, Evicted

-----------------------------------------------------------------------------
(***************************************************************************)
(* The costs of what a step removes or adds, and what is accounted for.    *)
(***************************************************************************)
\* No more cost is accounted for than the list holds.
Covered(elements, list, cost) == cost \in Int /\ cost <= Total(elements, list)
CostInv == Covered(element, evictionList, currentCost)

LEMMA ListIsPriced ==
  ASSUME NEW elements, NEW list, Listed(elements, list)
  PROVE  Priced(elements, list)
<1>1. \A e \in ToSet(list) : e \in Elements /\ elements[e] # Nil
  BY SeqRange DEF Listed
<1>2. \A e \in ToSet(list) : elements[e] \in Item
  BY <1>1 DEF Listed
<1> QED BY <1>2, LruAssumption DEF Priced, Item

LEMMA RemovingCovers ==
  ASSUME NEW map, NEW elements, NEW list, NEW some \in Seq(Elements), NEW cost,
         Fits(map, elements, list), IsInjective(some),
         \A e \in ToSet(some) : elements[e] # Nil,
         RemoveElements(some, elements, list, map, cost), Covered(elements, list, cost)
  PROVE  CostInv'
<1>1. /\ evictionList' \in Without(ToSet(some), list)
      /\ currentCost' = cost - Total(elements, some)
      /\ element' = Collected(elements, evictionList', getter')
  BY DEF RemoveElements
<1>2. list \in Seq(Elements) /\ IsInjective(list) /\ Priced(elements, list)
  BY ListIsPriced DEF Fits, Listed
<1>3. /\ evictionList' \in Seq(Elements) /\ IsInjective(evictionList')
      /\ ToSet(evictionList') = ToSet(list) \ ToSet(some)
  BY <1>1, <1>2, WithoutIsList
<1>4. Priced(elements, some)
  <2>1. \A e \in ToSet(some) : elements[e] \in Item
    BY SeqRange DEF Fits, Listed
  <2> QED BY <2>1, LruAssumption DEF Priced, Item
<1>5. /\ Total(elements, list) \in Nat /\ Total(elements, some) \in Nat
      /\ Total(elements, evictionList') \in Nat
      /\ Total(elements, list) <= Total(elements, evictionList') + Total(elements, some)
  BY <1>2, <1>3, <1>4, TotalsSplit
<1>6. Total(element', evictionList') = Total(elements, evictionList')
  <2>1. \A e \in ToSet(evictionList') : element'[e].cost = elements[e].cost
    BY <1>1, <1>3, SeqRange DEF Collected
  <2>2. Priced(elements, evictionList')
    BY <1>2, <1>3 DEF Priced
  <2> QED BY <1>3, <2>1, <2>2, SameTotal
<1> QED BY <1>1, <1>5, <1>6 DEF Covered, CostInv

LEMMA EvictBackCovers ==
  ASSUME NEW map, NEW elements, NEW list, NEW cost, Fits(map, elements, list),
         EvictBack(elements, list, map, cost), Covered(elements, list, cost)
  PROVE  CostInv'
<1>1. PICK back \in Backs(list) : RemoveElements(back, elements, list, map, cost)
  BY DEF EvictBack
<1>2. list \in Seq(Elements) /\ IsInjective(list)
  BY DEF Fits, Listed
<1>3. back \in Seq(Elements) /\ ToSet(back) \subseteq ToSet(list) /\ IsInjective(back)
  BY <1>2, BacksAreListed, BacksAreInjective
<1>4. \A e \in ToSet(back) : elements[e] # Nil
  BY <1>3 DEF Fits, Listed
<1> QED BY <1>1, <1>3, <1>4, RemovingCovers

LEMMA SingletonList ==
  ASSUME NEW e \in Elements
  PROVE  <<e>> \in Seq(Elements) /\ IsInjective(<<e>>) /\ ToSet(<<e>>) = {e}
BY DEF IsInjective, ToSet

LEMMA GetCovers ==
  ASSUME CacheInv, CostInv, NEW g \in Getters, Get(g)
  PROVE  CostInv'
<1>1. /\ evictionList \in Seq(Elements) /\ IsInjective(evictionList)
      /\ Priced(element, evictionList)
  BY ListIsPriced DEF CacheInv, Fits, Listed
<1>2. ASSUME NEW key \in Keys, Hit(g, key) PROVE CostInv'
  <2>1. items[key] \in ToSet(evictionList)
    BY <1>2 DEF Hit, CacheInv, Fits
  <2>2. /\ evictionList' \in MovedToFront(items[key], evictionList)
        /\ element' = element /\ currentCost' = currentCost
    BY <1>2 DEF Hit
  <2>3. /\ evictionList' \in Seq(Elements) /\ IsInjective(evictionList')
        /\ ToSet(evictionList') = ToSet(evictionList)
    BY <1>1, <2>1, <2>2, MovedIsList
  <2>4. Total(element', evictionList') = Total(element, evictionList)
    BY <1>1, <2>2, <2>3, SameTotal
  <2> QED BY <2>2, <2>4 DEF CostInv, Covered
<1>3. ASSUME NEW key \in Keys, FindExpired(g, key) PROVE CostInv'
  BY <1>3 DEF FindExpired, CostInv
<1>4. ASSUME RemoveExpired(g) PROVE CostInv'
  <2> DEFINE e == getter[g]
  <2>1. e \in Elements /\ element[e] # Nil
    BY <1>4 DEF RemoveExpired, CacheInv, Getting
  <2>2. RemoveElements(<<e>>, element, evictionList, items, currentCost)
    BY <1>4 DEF RemoveExpired
  <2> HIDE DEF e
  <2> QED BY <2>1, <2>2, SingletonList, RemovingCovers DEF CacheInv, CostInv
<1> QED BY <1>2, <1>3, <1>4 DEF Get

LEMMA SetExistingCovers ==
  ASSUME CacheInv, CostInv, NEW key \in Keys, NEW value \in Values, NEW duration \in Durations,
         NEW cost \in Costs, SetExisting(key, value, duration, cost)
  PROVE  CostInv'
<1> DEFINE e == items[key]
           elements == Store(e, key, value, duration, cost)
           old == element[e].cost
<1>1. PICK list \in MovedToFront(e, evictionList) :
        EvictBack(elements, list, items, currentCost - old + cost)
  BY DEF SetExisting
<1>2. /\ e \in Elements /\ e \in ToSet(evictionList)
  BY DEF SetExisting, CacheInv, Fits
<1>3. /\ evictionList \in Seq(Elements) /\ IsInjective(evictionList)
      /\ Priced(element, evictionList)
  BY ListIsPriced DEF CacheInv, Fits, Listed
<1>4. PICK rest \in Without({e}, evictionList) : list = <<e>> \o rest
  BY DEF MovedToFront
<1>5. /\ rest \in Seq(Elements) /\ IsInjective(rest)
      /\ ToSet(rest) = ToSet(evictionList) \ {e} /\ e \notin ToSet(rest)
  BY <1>3, WithoutIsList
<1>6. list \in Seq(Elements) /\ IsInjective(list) /\ ToSet(list) = ToSet(evictionList)
  BY <1>2, <1>3, MovedIsList
<1>7. Fits(items, elements, list)
  BY <1>6, StoredFits DEF SetExisting
<1>8. /\ elements[e].cost = cost /\ cost \in Nat
      /\ \A d \in ToSet(rest) : elements[d].cost = element[d].cost
  <2>1. e \in DOMAIN element /\ ToSet(rest) \subseteq Elements
    BY <1>2, <1>5, SeqRange DEF CacheInv, Fits, Listed
  <2>2. element \in [Elements -> Item \cup {Nil}]
    BY DEF CacheInv, Fits, Listed
  <2> QED BY <1>2, <1>5, <2>1, <2>2, LruAssumption DEF Store
<1>9. Priced(element, rest) /\ old \in Nat
  BY <1>2, <1>3, <1>5 DEF Priced
<1> HIDE DEF e, elements, old
<1>10. Priced(elements, rest)
  BY <1>8, <1>9 DEF Priced
<1>11. Total(elements, list) = cost + Total(elements, rest)
  BY <1>2, <1>4, <1>5, <1>8, <1>10, FrontTotal
<1>12. Total(element, list) = old + Total(element, rest) /\ Total(element, rest) \in Nat
  BY <1>2, <1>4, <1>5, <1>9, FrontTotal DEF old
<1>13. Total(elements, rest) = Total(element, rest)
  BY <1>5, <1>8, <1>9, SameTotal
<1>14. Total(element, list) = Total(element, evictionList)
  BY <1>3, <1>6, SameTotal
<1>15. Covered(elements, list, currentCost - old + cost)
  BY <1>8, <1>9, <1>11, <1>12, <1>13, <1>14 DEF CostInv, Covered
<1> QED BY <1>1, <1>7, <1>15, EvictBackCovers

LEMMA SetNewCovers ==
  ASSUME CacheInv, CostInv, NEW key \in Keys, NEW value \in Values, NEW duration \in Durations,
         NEW cost \in Costs, SetNew(key, value, duration, cost)
  PROVE  CostInv'
<1> DEFINE e == CHOOSE e \in Elements : e \notin Used
           elements == Store(e, key, value, duration, cost)
           list == <<e>> \o evictionList
           map == [items EXCEPT ![key] = e]
<1>1. EvictBack(elements, list, map, currentCost + cost)
  BY DEF SetNew
<1>2. e \in Elements /\ e \notin Used
  BY DEF SetNew
<1> HIDE DEF e
<1>3. e \notin ToSet(evictionList)
  BY <1>2 DEF Used
<1>4. /\ evictionList \in Seq(Elements) /\ IsInjective(evictionList)
      /\ Priced(element, evictionList)
  BY ListIsPriced DEF CacheInv, Fits, Listed
<1>5. Fits(map, elements, list)
  BY <1>2, AddedFits DEF SetNew
<1>6. /\ elements[e].cost = cost /\ cost \in Nat
      /\ \A d \in ToSet(evictionList) : elements[d].cost = element[d].cost
  <2>1. e \in DOMAIN element /\ ToSet(evictionList) \subseteq Elements
    BY <1>2, <1>4, SeqRange DEF CacheInv, Fits, Listed
  <2>2. element \in [Elements -> Item \cup {Nil}]
    BY DEF CacheInv, Fits, Listed
  <2> QED BY <1>2, <1>3, <2>1, <2>2, LruAssumption DEF Store
<1> HIDE DEF elements, map
<1>7. Priced(elements, evictionList)
  BY <1>4, <1>6 DEF Priced
<1>8. /\ Total(elements, list) = cost + Total(elements, evictionList)
      /\ Total(elements, evictionList) \in Nat
  BY <1>2, <1>3, <1>4, <1>6, <1>7, FrontTotal
<1>9. Total(elements, evictionList) = Total(element, evictionList)
  BY <1>4, <1>6, SameTotal
<1> HIDE DEF list
<1>10. Covered(elements, list, currentCost + cost)
  BY <1>6, <1>8, <1>9 DEF CostInv, Covered
<1> QED BY <1>1, <1>5, <1>10, EvictBackCovers

LEMMA EmptyIsCovered ==
  ASSUME NEW elements
  PROVE  Covered(elements, <<>>, 0)
<1>1. <<>> \in Seq(Elements) /\ IsInjective(<<>>) /\ ToSet(<<>>) = {}
  BY DEF IsInjective, ToSet
<1>2. Priced(elements, <<>>)
  BY <1>1 DEF Priced
<1>3. Total(elements, <<>>) \in Nat
  BY <1>1, <1>2, TotalsSplit
<1> QED BY <1>3 DEF Covered

LEMMA CostStep == CacheInv /\ CostInv /\ [Next]_vars => CostInv'
<1> SUFFICES ASSUME CacheInv, CostInv, [Next]_vars PROVE CostInv'
  OBVIOUS
<1>1. ASSUME NEW key \in Keys, Delete(key) PROVE CostInv'
  <2> DEFINE e == items[key]
  <2>1. e \in Elements /\ element[e] # Nil
    BY <1>1 DEF Delete, CacheInv, Fits, Listed
  <2>2. RemoveElements(<<e>>, element, evictionList, items, currentCost)
    BY <1>1 DEF Delete
  <2> HIDE DEF e
  <2> QED BY <2>1, <2>2, SingletonList, RemovingCovers DEF CacheInv, CostInv
<1>2. ASSUME Clear PROVE CostInv'
  BY <1>2, EmptyIsCovered DEF Clear, CostInv
<1>3. ASSUME EvictExpiredItems PROVE CostInv'
  <2>1. PICK expired \in Without({e \in ToSet(evictionList) : ~Expired(e)}, evictionList) :
          RemoveElements(expired, element, evictionList, items, currentCost)
    BY <1>3 DEF EvictExpiredItems
  <2>2. /\ expired \in Seq(Elements) /\ IsInjective(expired)
        /\ ToSet(expired) \subseteq ToSet(evictionList)
    BY WithoutIsList DEF CacheInv, Fits, Listed
  <2>3. \A e \in ToSet(expired) : element[e] # Nil
    BY <2>2 DEF CacheInv, Fits, Listed
  <2> QED BY <2>1, <2>2, <2>3, RemovingCovers DEF CacheInv, CostInv
<1>4. ASSUME Tick \/ UNCHANGED vars PROVE CostInv'
  BY <1>4 DEF Tick, vars, CostInv
<1> QED BY <1>1, <1>2, <1>3, <1>4, GetCovers, SetExistingCovers, SetNewCovers DEF Next, Set

-----------------------------------------------------------------------------
(***************************************************************************)
(* The theorems.                                                           *)
(***************************************************************************)
LEMMA CacheInitHolds == Init => CacheInv
<1> SUFFICES ASSUME Init PROVE CacheInv
  OBVIOUS
<1>1. ToSet(<<>>) = {} /\ IsInjective(<<>>)
  BY DEF ToSet, IsInjective
<1> QED BY <1>1 DEF Init, CacheInv, Fits, Listed, Getting, AnswersAreLatest

LEMMA CacheStepKeeps == CacheInv /\ [Next]_vars => CacheInv' /\ Means
<1> SUFFICES ASSUME CacheInv, [Next]_vars PROVE CacheInv' /\ Means
  OBVIOUS
<1>1. ASSUME NEW g \in Getters, Get(g) PROVE CacheInv' /\ Means
  BY <1>1, HitKeeps, FindExpiredKeeps, RemoveExpiredKeeps DEF Get
<1>2. ASSUME Set PROVE CacheInv' /\ Means
  BY <1>2, SetExistingKeeps, SetNewKeeps DEF Set
<1>3. ASSUME UNCHANGED vars PROVE CacheInv' /\ Means
  <2>1. CacheInv'
    BY <1>3 DEF vars, CacheInv, Fits, Listed, Getting, AnswersAreLatest
  <2>2. \A k \in Keys : Forgets(k)
    BY <1>3 DEF vars, Forgets, Answer
  <2> QED BY <2>1, <2>2 DEF Means
<1> QED BY <1>1, <1>2, <1>3, DeleteKeeps, ClearKeeps, EvictExpiredItemsKeeps, TickKeeps DEF Next

LEMMA CacheInvariance == Spec => []CacheInv
<1>1. Init => CacheInv
  BY CacheInitHolds
<1>2. CacheInv /\ [Next]_vars => CacheInv'
  BY CacheStepKeeps
<1> QED BY <1>1, <1>2, PTL DEF Spec

\* moveToFront and removeElement find what the map has in the list, and Get
\* answers for the key it was asked for, whatever a Get removes late.
THEOREM MappedElementsAreListed == Spec => []MappedIsListed
<1>1. CacheInv => MappedIsListed
  BY DEF CacheInv, Fits, MappedIsListed
<1> QED BY <1>1, CacheInvariance, PTL

\* The loop of Set, which removes elements until the cost is small enough, ends and does
\* not empty the cache for costs that are not there, whatever a Get removes late.
THEOREM ListAlwaysFits == Spec => []ListFits
<1>1. Init => CostInv
  BY EmptyIsCovered DEF Init, CostInv
<1>2. CacheInv /\ CostInv /\ [Next]_vars => CostInv'
  BY CostStep
<1>3. CacheInv /\ CostInv => ListFits
  BY DEF CacheInv, Fits, CostInv, Covered, ListFits, MappedIsListed, CostIsCovered
<1> QED BY <1>1, <1>2, <1>3, CacheInvariance, PTL DEF Spec

\* Get returns what was set last for the key, and nothing after Delete or Clear.
THEOREM AnswersAreWhatWasSetLast == Spec => []AnswersAreLatest
<1>1. CacheInv => AnswersAreLatest
  BY DEF CacheInv
<1> QED BY <1>1, CacheInvariance, PTL

\* Every step of the cache is one that LossyCache allows, or none of its.
THEOREM CacheIsLossyCache == Spec => ImplementsLossyCache
<1> DEFINE store == [k \in Keys |-> IF items[k] = Nil THEN Nil ELSE element[items[k]].data]
<1>1. Init => Abstract!Init
  BY DEF Init, Abstract!Init
<1>2. CacheInv /\ CacheInv' /\ Means => [Abstract!Next]_<<store, latest>>
  <2> SUFFICES ASSUME CacheInv, CacheInv', Means PROVE Abstract!Next
    OBVIOUS
  <2>1. \A k \in Keys : Answer(k) \in Values \cup {Nil} /\ Answer(k)' \in Values \cup {Nil}
    BY DEF Answer, CacheInv, Fits, Listed, Item
  <2>2. /\ \A k \in Keys : store[k] = Answer(k) /\ store'[k] = Answer(k)'
        /\ store' \in [Keys -> Values \cup {Nil}] /\ latest' \in [Keys -> Values \cup {Nil}]
    BY <2>1 DEF Answer, CacheInv
  <2>3. CASE \A k \in Keys : Forgets(k)
    BY <2>2, <2>3 DEF Forgets, Abstract!Next, Abstract!Lose
  <2>4. ASSUME NEW key \in Keys, \A k \in Keys \ {key} : Forgets(k),
               latest'[key] = Nil, Answer(key)' = Nil
        PROVE  Abstract!Next
    BY <2>2, <2>4 DEF Forgets, Abstract!Next, Abstract!Lose, Abstract!Delete
  <2>5. ASSUME NEW key \in Keys, \A k \in Keys \ {key} : Forgets(k),
               NEW value \in Values, latest'[key] = value, Answer(key)' \in {value, Nil}
        PROVE  Abstract!Next
    BY <2>2, <2>5 DEF Forgets, Abstract!Next, Abstract!Lose, Abstract!Set
  <2>6. CASE \A k \in Keys : Answer(k)' = Nil /\ latest'[k] = Nil
    <3>1. store' = [k \in Keys |-> Nil] /\ latest' = [k \in Keys |-> Nil]
      BY <2>2, <2>6
    <3> QED BY <2>2, <3>1 DEF Abstract!Next, Abstract!Clear
  <2> QED BY <2>3, <2>4, <2>5, <2>6 DEF Means
<1>3. CacheInv /\ [Next]_vars => CacheInv' /\ Means
  BY CacheStepKeeps
<1> QED BY <1>1, <1>2, <1>3, CacheInvariance, PTL DEF Spec, ImplementsLossyCache, Abstract!Spec

-----------------------------------------------------------------------------
(***************************************************************************)
(* Files and rows.                                                         *)
(***************************************************************************)
Variants(name) == {VariantOf[name][type] : type \in Types}

Busy(p) == ~At(p, "idle")

\* What an operation works on.
Reach(p) == Touched(op[p].name)

\* Variants are listed for deletion, together with the rows of the image.
Clears(p) == op[p].at \in {"dropOld", "dropVariants"}

\* A row is what imgproxy does; a process works on one file and lists its variants.
Shaped ==
  /\ \A r \in rows : r.optimized = VariantOf[r.original][r.type]
  /\ \A p \in Procs :
       /\ Busy(p) => op[p].name \in Names /\ op[p].list \subseteq Variants(op[p].name)
       /\ ~At(p, "make") => op[p].saved = {}

\* Operations that meet make all their files suspect.
Apart ==
  \A p, q \in Procs :
    p # q /\ Busy(p) /\ Busy(q) /\ Reach(p) \cap Reach(q) # {}
      => Reach(p) \cup Reach(q) \subseteq suspect

RowsHaveFiles ==
  \A r \in rows :
    \/ {r.optimized, r.original} \subseteq files \cup suspect
    \/ \E p \in Procs : Clears(p) /\ op[p].name = r.original

FilesHaveRows ==
  \A v \in (files \ Images) \ suspect :
    \/ ByOptimized(v) # {}
    \/ \E p \in Procs :
         \/ At(p, "make") /\ \E type \in op[p].saved : v = VariantOf[op[p].name][type]
         \/ At(p, "dropFile") /\ op[p].name = v

\* A variant that is not listed any more is gone.
Cleared(p) ==
  Clears(p) =>
    \A r \in ByOriginal(op[p].name) :
      r.optimized \in files => r.optimized \in op[p].list \cup suspect

\* A variant that is about to be recorded is there, and its image.
Saved(p) ==
  At(p, "make") =>
    \A type \in op[p].saved : {op[p].name, VariantOf[op[p].name][type]} \subseteq files \cup suspect

\* Nothing names a file that is about to be deleted as its variant.
Unnamed(p) ==
  op[p].at \in {"listVariants", "dropVariants", "dropFile"} =>
    ByOptimized(op[p].name) = {} \/ op[p].name \in suspect

Unlisted(p) ==
  At(p, "dropFile") => ByOriginal(op[p].name) = {} \/ op[p].name \in suspect

FilesInv ==
  /\ Shaped /\ Apart /\ RowsHaveFiles /\ FilesHaveRows
  /\ \A p \in Procs : Cleared(p) /\ Saved(p) /\ Unnamed(p) /\ Unlisted(p)

-----------------------------------------------------------------------------
(***************************************************************************)
(* Posts and the migration of what they show.                              *)
(***************************************************************************)
Deleting(p) ==
  op[p].at \in {"isVariant", "dropRows", "listVariants", "dropVariants", "dropFile"}

\* Who deletes a file has written it down, or is the migration at its end.
DeletedIsKnown ==
  \A p \in Procs :
    Deleting(p) => op[p].name \in lost \/ (p = Migrator /\ Phase("delete"))

PlanShaped ==
  /\ plan.at \in {"off", "discover"} => plan.others = {}
  /\ plan.at \in {"off", "discover", "delete"} => plan.pairs = {}
  /\ IF plan.at \in {"posts", "save"} THEN plan.pair \in Replacement ELSE plan.pair = None
  /\ Phase("save") => plan.post \in Posts
  /\ plan.at \in {"replace", "posts", "save"} => Alone

\* What replaces a file stays.
TargetsStay ==
  \A pair \in plan.pairs \cup (IF plan.at \in {"posts", "save"} THEN {plan.pair} ELSE {}) :
    pair.to \in files \cup lost /\ pair.to \notin plan.others

\* A post that is still to be looked at, or that is about to be saved.
Awaits(post, n) ==
  /\ plan.at \in {"posts", "save"} /\ n = plan.pair.from
  /\ post \in plan.found \/ (Phase("save") /\ post = plan.post)

DoomedIsUnused ==
  \A post \in Posts, n \in Doomed : n \in posts[post] => n \in lost \/ Awaits(post, n)

CopyResolves ==
  Phase("save") =>
    /\ plan.copy \subseteq files \cup lost
    /\ \A n \in plan.copy \cap Doomed : n \in lost \/ n = plan.pair.from

PostsInv ==
  /\ DeletedIsKnown /\ PlanShaped /\ TargetsStay /\ DoomedIsUnused /\ CopyResolves
  /\ ReferencesResolve

MediaInv == MediaTypeOK /\ FilesInv /\ PostsInv

-----------------------------------------------------------------------------
(***************************************************************************)
(* Steps of operations.                                                    *)
(***************************************************************************)
LEMMA TouchedFacts ==
  ASSUME NEW name \in Names
  PROVE  /\ name \in Touched(name) /\ Variants(name) \subseteq Touched(name)
         /\ Touched(name) \subseteq Names /\ Touched(name) = {name} \cup Variants(name)
         /\ \A type \in Types : VariantOf[name][type] \in Variants(name)
BY FilesAssumption DEF Touched, Variants

\* A process changes what its file has to do with, and its own operation.
Works(p) ==
  /\ Busy(p)
  /\ \A q \in Procs \ {p} : op'[q] = op[q]
  /\ ~At(p, "idle")' =>
       op'[p].name = op[p].name /\ op'[p].list \subseteq Variants(op[p].name)
  /\ ~At(p, "make")' => op'[p].saved = {}
  /\ suspect \subseteq suspect'
  /\ \A n \in Names \ Reach(p) : n \in files' => n \in files
  /\ \A n \in Names \ Reach(p) : n \in files => n \in files'
  /\ \A r \in rows' : r \notin rows => r.original = op[p].name
  /\ \A r \in rows' : r \in Row /\ r.optimized = VariantOf[r.original][r.type]

LEMMA OpFacts ==
  ASSUME MediaTypeOK, NEW p \in Procs
  PROVE  /\ op[p] \in Operation
         /\ op[p].at \in {"idle", "list", "dropOld", "make", "isVariant", "dropRows",
                          "listVariants", "dropVariants", "dropFile"}
         /\ op[p].name \in Names \cup {None} /\ op[p].list \subseteq Names
         /\ op[p].todo \subseteq Types /\ op[p].saved \subseteq Types
BY DEF MediaTypeOK, OpTypeOK, Operation

\* What an operation relies on is not changed by another one, unless they meet.
LEMMA OthersKeep ==
  ASSUME MediaTypeOK, FilesInv, NEW p \in Procs, Works(p)
  PROVE  /\ Shaped' /\ Apart'
         /\ \A q \in Procs \ {p} : Cleared(q)' /\ Saved(q)' /\ Unnamed(q)' /\ Unlisted(q)'
<1> USE DEF Busy, At
<1>1. Shaped'
  BY DEF FilesInv, Shaped, Works
<1>2. Apart'
  <2> SUFFICES ASSUME NEW q1 \in Procs, NEW q2 \in Procs, q1 # q2, Busy(q1)', Busy(q2)',
                      Reach(q1)' \cap Reach(q2)' # {}
               PROVE  (Reach(q1) \cup Reach(q2) \subseteq suspect)'
    BY DEF Apart
  <2>1. \A q \in {q1, q2} : Busy(q) /\ Reach(q)' = Reach(q)
    BY DEF Works, Reach
  <2> QED BY <2>1 DEF FilesInv, Apart, Works
<1>3. ASSUME NEW q \in Procs \ {p} PROVE Cleared(q)' /\ Saved(q)' /\ Unnamed(q)' /\ Unlisted(q)'
  <2>1. op'[q] = op[q]
    BY DEF Works
  <2>2. CASE ~Busy(q)
    BY <2>1, <2>2 DEF Cleared, Saved, Unnamed, Unlisted, Clears
  <2>3. CASE Busy(q)
    <3>1. /\ op[p].name \in Names /\ op[q].name \in Names
          /\ op[p].name \in Reach(p) /\ op[q].name \in Reach(q)
          /\ Variants(op[q].name) \subseteq Reach(q)
          /\ Reach(p) \subseteq Names /\ Reach(q) \subseteq Names
      BY <2>3, TouchedFacts DEF FilesInv, Shaped, Works, Reach
    <3>2. \A n \in Reach(p) \cap Reach(q) : Reach(q) \subseteq suspect'
      BY <2>3 DEF FilesInv, Apart, Works
    <3>3. \A n \in Reach(q) : n \notin suspect' => n \notin Reach(p) /\ (n \in files <=> n \in files')
      BY <3>1, <3>2 DEF Works
    <3>4. \A r \in rows' : r.optimized \in Variants(r.original)
      BY FilesAssumption DEF Works, Row, Variants
    <3>5. Cleared(q)'
      <4> SUFFICES ASSUME Clears(q), NEW r \in rows', r.original = op[q].name, r.optimized \in files',
                          r.optimized \notin suspect'
                   PROVE  r.optimized \in op[q].list
        BY <2>1 DEF Cleared, Clears, ByOriginal
      <4>1. r.optimized \in Reach(q)
        BY <3>1, <3>4
      <4>2. r.original # op[p].name
        BY <3>1, <3>2, <4>1
      <4> QED BY <4>1, <4>2, <3>3 DEF FilesInv, Cleared, Works, ByOriginal
    <3>6. Saved(q)'
      <4> SUFFICES ASSUME At(q, "make"), NEW type \in op[q].saved
                   PROVE  {op[q].name, VariantOf[op[q].name][type]} \subseteq files' \cup suspect'
        BY <2>1 DEF Saved
      <4>1. {op[q].name, VariantOf[op[q].name][type]} \subseteq files \cup suspect
        BY DEF FilesInv, Saved
      <4>2. {op[q].name, VariantOf[op[q].name][type]} \subseteq Reach(q)
        BY <3>1, OpFacts DEF Variants
      <4> QED BY <4>1, <4>2, <3>3 DEF Works
    <3>7. Unnamed(q)'
      <4> SUFFICES ASSUME op[q].at \in {"listVariants", "dropVariants", "dropFile"},
                          NEW r \in rows', r.optimized = op[q].name, op[q].name \notin suspect'
                   PROVE  FALSE
        BY <2>1 DEF Unnamed, ByOptimized
      <4>1. r \notin rows
        BY DEF FilesInv, Unnamed, ByOptimized, Works
      <4>2. r.original = op[p].name
        BY <4>1 DEF Works
      <4>3. r.optimized \in Reach(p)
        BY <3>1, <3>4, <4>2, TouchedFacts DEF Reach
      <4> QED BY <3>1, <3>2, <4>3
    <3>8. Unlisted(q)'
      <4> SUFFICES ASSUME At(q, "dropFile"), NEW r \in rows', r.original = op[q].name,
                          op[q].name \notin suspect'
                   PROVE  FALSE
        BY <2>1 DEF Unlisted, ByOriginal
      <4>1. r \notin rows
        BY DEF FilesInv, Unlisted, ByOriginal, Works
      <4> QED BY <3>1, <3>2, <4>1 DEF Works
    <3> QED BY <3>5, <3>6, <3>7, <3>8
  <2> QED BY <2>2, <2>3
<1> QED BY <1>1, <1>2, <1>3

LEMMA Faults ==
  ASSUME MediaTypeOK, Fault \/ UNCHANGED faults
  PROVE  faults' \in 0 .. MaxFaults
BY FilesAssumption DEF MediaTypeOK, FilesTypeOK, Fault

LEMMA OpChanges ==
  ASSUME MediaTypeOK, NEW p \in Procs, NEW o \in Operation, op' = [op EXCEPT ![p] = o]
  PROVE  OpTypeOK' /\ op'[p] = o /\ \A q \in Procs \ {p} : op'[q] = op[q]
BY DEF MediaTypeOK, OpTypeOK

LEMMA Idles ==
  ASSUME MediaTypeOK, NEW p \in Procs, Return(p)
  PROVE  /\ OpTypeOK' /\ op'[p] = NoOp /\ At(p, "idle")' /\ op'[p].saved = {}
         /\ \A q \in Procs \ {p} : op'[q] = op[q]
<1>1. NoOp \in Operation
  BY DEF NoOp, Operation
<1>2. OpTypeOK' /\ op'[p] = NoOp /\ \A q \in Procs \ {p} : op'[q] = op[q]
  BY <1>1, OpChanges DEF Return
<1> QED BY <1>2 DEF NoOp, At

Ats == {"idle", "list", "dropOld", "make", "isVariant", "dropRows",
        "listVariants", "dropVariants", "dropFile"}

LEMMA Goes ==
  ASSUME MediaTypeOK, NEW p \in Procs, NEW at \in Ats, Goto(p, at)
  PROVE  /\ OpTypeOK' /\ op'[p] = [op[p] EXCEPT !.at = at]
         /\ op'[p].at = at /\ op'[p].name = op[p].name /\ op'[p].list = op[p].list
         /\ op'[p].todo = op[p].todo /\ op'[p].saved = op[p].saved
         /\ \A q \in Procs \ {p} : op'[q] = op[q]
<1> DEFINE o == [op[p] EXCEPT !.at = at]
<1>1. op[p] \in Operation
  BY OpFacts
<1>2. /\ o \in Operation /\ o.at = at /\ o.name = op[p].name /\ o.list = op[p].list
      /\ o.todo = op[p].todo /\ o.saved = op[p].saved
  BY <1>1 DEF Operation, Ats
<1>3. op' = [op EXCEPT ![p] = o]
  BY DEF Goto
<1> HIDE DEF o
<1>4. OpTypeOK' /\ op'[p] = o /\ \A q \in Procs \ {p} : op'[q] = op[q]
  BY <1>2, <1>3, OpChanges
<1> QED BY <1>2, <1>4 DEF o

\* The list of variants is read.
LEMMA Lists ==
  ASSUME MediaTypeOK, FilesInv, NEW p \in Procs, Busy(p), NEW at \in Ats,
         op' = [op EXCEPT ![p].at = at, ![p].list = Optimized(ByOriginal(op[p].name))]
  PROVE  /\ OpTypeOK'
         /\ op'[p].at = at /\ op'[p].name = op[p].name
         /\ op'[p].list = Optimized(ByOriginal(op[p].name))
         /\ op'[p].list \subseteq Variants(op[p].name)
         /\ op'[p].todo = op[p].todo /\ op'[p].saved = op[p].saved
         /\ \A q \in Procs \ {p} : op'[q] = op[q]
<1> DEFINE list == Optimized(ByOriginal(op[p].name))
           o == [op[p] EXCEPT !.at = at, !.list = list]
<1>1. op[p] \in Operation
  BY OpFacts
<1>2. list \subseteq Names
  BY DEF MediaTypeOK, FilesTypeOK, Row, Optimized, ByOriginal
<1>3. list \subseteq Variants(op[p].name)
  BY DEF MediaTypeOK, FilesTypeOK, Row, FilesInv, Shaped, Optimized, ByOriginal, Variants
<1> HIDE DEF list
<1>4. /\ o \in Operation /\ o.at = at /\ o.name = op[p].name /\ o.list = list
      /\ o.todo = op[p].todo /\ o.saved = op[p].saved
  BY <1>1, <1>2 DEF Operation, Ats
<1>5. op' = [op EXCEPT ![p] = o]
  BY DEF MediaTypeOK, OpTypeOK, list
<1> HIDE DEF o
<1>6. OpTypeOK' /\ op'[p] = o /\ \A q \in Procs \ {p} : op'[q] = op[q]
  BY <1>4, <1>5, OpChanges
<1> QED BY <1>3, <1>4, <1>6 DEF list

\* Variants are to be made.
LEMMA Starts ==
  ASSUME MediaTypeOK, NEW p \in Procs,
         op' = [op EXCEPT ![p].at = "make", ![p].todo = Types]
  PROVE  /\ OpTypeOK'
         /\ op'[p].at = "make" /\ op'[p].name = op[p].name /\ op'[p].list = op[p].list
         /\ op'[p].saved = op[p].saved
         /\ \A q \in Procs \ {p} : op'[q] = op[q]
<1> DEFINE o == [op[p] EXCEPT !.at = "make", !.todo = Types]
<1>1. op[p] \in Operation
  BY OpFacts
<1>2. /\ o \in Operation /\ o.at = "make" /\ o.name = op[p].name /\ o.list = op[p].list
      /\ o.saved = op[p].saved
  BY <1>1 DEF Operation
<1>3. op' = [op EXCEPT ![p] = o]
  BY DEF MediaTypeOK, OpTypeOK
<1> HIDE DEF o
<1>4. OpTypeOK' /\ op'[p] = o /\ \A q \in Procs \ {p} : op'[q] = op[q]
  BY <1>2, <1>3, OpChanges
<1> QED BY <1>2, <1>4

\* One of the listed variants is struck from the list.
LEMMA Strikes ==
  ASSUME MediaTypeOK, NEW p \in Procs, NEW v, op' = [op EXCEPT ![p].list = @ \ {v}]
  PROVE  /\ OpTypeOK'
         /\ op'[p].at = op[p].at /\ op'[p].name = op[p].name /\ op'[p].list = op[p].list \ {v}
         /\ op'[p].saved = op[p].saved
         /\ \A q \in Procs \ {p} : op'[q] = op[q]
<1> DEFINE o == [op[p] EXCEPT !.list = op[p].list \ {v}]
<1>1. op[p] \in Operation
  BY OpFacts
<1>2. /\ o \in Operation /\ o.at = op[p].at /\ o.name = op[p].name
      /\ o.list = op[p].list \ {v} /\ o.saved = op[p].saved
  BY <1>1 DEF Operation
<1>3. op' = [op EXCEPT ![p] = o]
  BY DEF MediaTypeOK, OpTypeOK
<1> HIDE DEF o
<1>4. OpTypeOK' /\ op'[p] = o /\ \A q \in Procs \ {p} : op'[q] = op[q]
  BY <1>2, <1>3, OpChanges
<1> QED BY <1>2, <1>4

\* A type is made, or skipped, or recorded.
LEMMA MakesOne ==
  ASSUME MediaTypeOK, NEW p \in Procs, NEW todo \in SUBSET Types, NEW saved \in SUBSET Types,
         NEW o, o = [op[p] EXCEPT !.todo = todo, !.saved = saved], op' = [op EXCEPT ![p] = o]
  PROVE  /\ OpTypeOK'
         /\ op'[p].at = op[p].at /\ op'[p].name = op[p].name /\ op'[p].list = op[p].list
         /\ op'[p].saved = saved
         /\ \A q \in Procs \ {p} : op'[q] = op[q]
<1>1. op[p] \in Operation
  BY OpFacts
<1>2. /\ o \in Operation /\ o.at = op[p].at /\ o.name = op[p].name /\ o.list = op[p].list
      /\ o.saved = saved
  BY <1>1 DEF Operation
<1>3. OpTypeOK' /\ op'[p] = o /\ \A q \in Procs \ {p} : op'[q] = op[q]
  BY <1>2, OpChanges
<1> QED BY <1>2, <1>3

-----------------------------------------------------------------------------
(***************************************************************************)
(* Making variants.                                                        *)
(***************************************************************************)
\* What is to be shown of a step of p.
StepKeeps(p) ==
  /\ OpTypeOK' /\ FilesTypeOK'
  /\ Works(p)
  /\ RowsHaveFiles' /\ FilesHaveRows'
  /\ Cleared(p)' /\ Saved(p)' /\ Unnamed(p)' /\ Unlisted(p)'

\* Only the operation of one process changes, and perhaps more is suspect.
LEMMA OnlyOp ==
  ASSUME MediaTypeOK, FilesInv, NEW p \in Procs, Busy(p),
         \A q \in Procs \ {p} : op'[q] = op[q],
         UNCHANGED <<files, rows>>, suspect \subseteq suspect',
         ~At(p, "idle")' =>
            op'[p].name = op[p].name /\ op'[p].list \subseteq Variants(op[p].name),
         ~At(p, "make")' => op'[p].saved = {}
  PROVE  /\ Works(p)
         /\ ~Clears(p) => RowsHaveFiles'
         /\ op[p].at \notin {"make", "dropFile"} \/ (At(p, "make") /\ op[p].saved = {}) => FilesHaveRows'
<1>1. Works(p)
  BY DEF Works, MediaTypeOK, FilesTypeOK, FilesInv, Shaped
<1>2. ASSUME ~Clears(p) PROVE RowsHaveFiles'
  BY <1>2 DEF FilesInv, RowsHaveFiles, Clears
<1>3. ASSUME op[p].at \notin {"make", "dropFile"} \/ (At(p, "make") /\ op[p].saved = {})
      PROVE  FilesHaveRows'
  <2> SUFFICES ASSUME NEW v \in (files \ Images) \ suspect', ByOptimized(v) = {}
               PROVE  \E q \in Procs :
                        (\/ At(q, "make") /\ \E type \in op[q].saved : v = VariantOf[op[q].name][type]
                         \/ At(q, "dropFile") /\ op[q].name = v)'
    BY DEF FilesHaveRows, ByOptimized
  <2>1. PICK q \in Procs :
          \/ At(q, "make") /\ \E type \in op[q].saved : v = VariantOf[op[q].name][type]
          \/ At(q, "dropFile") /\ op[q].name = v
    BY DEF FilesInv, FilesHaveRows
  <2>2. q # p
    BY <1>3, <2>1 DEF At
  <2> QED BY <2>1, <2>2 DEF At
<1> QED BY <1>1, <1>2, <1>3

LEMMA UnreachableKeeps ==
  ASSUME MediaTypeOK, FilesInv, NEW p \in Procs, Unreachable(p)
  PROVE  StepKeeps(p)
<1>1. /\ OpTypeOK' /\ At(p, "idle")' /\ op'[p].saved = {}
      /\ \A q \in Procs \ {p} : op'[q] = op[q]
  BY Idles DEF Unreachable
<1>2. Works(p) /\ RowsHaveFiles' /\ FilesHaveRows'
  BY <1>1, OnlyOp DEF Unreachable, At, Busy, Clears, fileVars
<1>3. FilesTypeOK'
  BY DEF MediaTypeOK, FilesTypeOK, Unreachable, fileVars
<1> QED BY <1>1, <1>2, <1>3 DEF StepKeeps, At, Cleared, Clears, Saved, Unnamed, Unlisted

LEMMA ListOldKeeps ==
  ASSUME MediaTypeOK, FilesInv, NEW p \in Procs, ListOld(p)
  PROVE  StepKeeps(p)
<1>1. op[p].at = "list" /\ Busy(p) /\ op[p].saved = {} /\ op[p].list \subseteq Variants(op[p].name)
  BY DEF ListOld, At, Busy, FilesInv, Shaped
<1>2. FilesTypeOK'
  BY Faults DEF MediaTypeOK, FilesTypeOK, ListOld, Certain
<1>3. CASE op' = [op EXCEPT ![p].at = "dropOld",
                            ![p].list = Optimized(ByOriginal(op[p].name))] /\ Certain
  <2>1. /\ OpTypeOK' /\ op'[p].at = "dropOld" /\ op'[p].name = op[p].name
        /\ op'[p].list = Optimized(ByOriginal(op[p].name))
        /\ op'[p].list \subseteq Variants(op[p].name) /\ op'[p].saved = {}
        /\ \A q \in Procs \ {p} : op'[q] = op[q]
    BY <1>1, <1>3, Lists DEF Ats
  <2>2. Works(p) /\ RowsHaveFiles' /\ FilesHaveRows'
    BY <1>1, <1>3, <2>1, OnlyOp DEF ListOld, Certain, Clears, At
  <2>3. Cleared(p)'
    BY <2>1 DEF ListOld, Cleared, Clears, Optimized, ByOriginal
  <2> QED BY <1>2, <2>1, <2>2, <2>3 DEF StepKeeps, At, Saved, Unnamed, Unlisted
<1>4. CASE op' = [op EXCEPT ![p].at = "make", ![p].todo = Types] /\ UNCHANGED suspect
  <2>1. /\ OpTypeOK' /\ op'[p].at = "make" /\ op'[p].name = op[p].name /\ op'[p].list = op[p].list
        /\ op'[p].saved = {} /\ \A q \in Procs \ {p} : op'[q] = op[q]
    BY <1>1, <1>4, Starts
  <2>2. Works(p) /\ RowsHaveFiles' /\ FilesHaveRows'
    BY <1>1, <1>4, <2>1, OnlyOp DEF ListOld, Clears, At
  <2> QED BY <1>2, <2>1, <2>2 DEF StepKeeps, At, Cleared, Clears, Saved, Unnamed, Unlisted
<1> QED BY <1>3, <1>4 DEF ListOld

\* The rows of an image whose variants were deleted, or all of this is in doubt.
LEMMA RowsDropped ==
  ASSUME MediaTypeOK, FilesInv, NEW p \in Procs, Clears(p), op[p].list = {},
         \A q \in Procs \ {p} : op'[q] = op[q],
         ~At(p, "idle")' => op'[p].name = op[p].name /\ op'[p].list = {},
         op'[p].saved = {}, UNCHANGED files,
         \/ rows' = rows \ ByOriginal(op[p].name) /\ UNCHANGED suspect
         \/ UNCHANGED rows /\ Doubt(Touched(op[p].name))
  PROVE  Works(p) /\ RowsHaveFiles' /\ FilesHaveRows'
<1>1. Busy(p) /\ op[p].name \in Names /\ ~At(p, "make") /\ ~At(p, "dropFile")
  BY DEF Clears, Busy, At, FilesInv, Shaped
<1>2. Works(p)
  BY <1>1 DEF Works, Doubt, MediaTypeOK, FilesTypeOK, FilesInv, Shaped
<1>3. RowsHaveFiles'
  <2> SUFFICES ASSUME NEW r \in rows', ~({r.optimized, r.original} \subseteq files' \cup suspect')
               PROVE  \E q \in Procs : (Clears(q) /\ op[q].name = r.original)'
    BY DEF RowsHaveFiles
  <2>1. r \in rows /\ ~({r.optimized, r.original} \subseteq files \cup suspect)
    BY DEF Doubt
  <2>2. PICK q \in Procs : Clears(q) /\ op[q].name = r.original
    BY <2>1 DEF FilesInv, RowsHaveFiles
  <2>3. r.original # op[p].name
    <3> SUFFICES ASSUME r.original = op[p].name PROVE FALSE
      OBVIOUS
    <3>1. rows' = rows /\ Doubt(Touched(op[p].name))
      BY DEF ByOriginal
    <3>2. {r.optimized, r.original} \subseteq Touched(op[p].name)
      BY <1>1, <2>1, TouchedFacts DEF MediaTypeOK, FilesTypeOK, Row, FilesInv, Shaped
    <3> QED BY <3>1, <3>2 DEF Doubt
  <2> QED BY <2>2, <2>3 DEF Clears
<1>4. FilesHaveRows'
  <2> SUFFICES ASSUME NEW v \in (files' \ Images) \ suspect', ByOptimized(v)' = {}
               PROVE  \E q \in Procs :
                        (\/ At(q, "make") /\ \E type \in op[q].saved : v = VariantOf[op[q].name][type]
                         \/ At(q, "dropFile") /\ op[q].name = v)'
    BY DEF FilesHaveRows
  <2>1. v \in (files \ Images) \ suspect
    BY DEF Doubt
  <2>2. ByOptimized(v) = {}
    BY <2>1 DEF FilesInv, Cleared, ByOptimized, ByOriginal
  <2>3. PICK q \in Procs :
          \/ At(q, "make") /\ \E type \in op[q].saved : v = VariantOf[op[q].name][type]
          \/ At(q, "dropFile") /\ op[q].name = v
    BY <2>1, <2>2 DEF FilesInv, FilesHaveRows
  <2>4. q # p
    BY <1>1, <2>3
  <2> QED BY <2>3, <2>4 DEF At
<1> QED BY <1>2, <1>3, <1>4

LEMMA DropOldRowsKeeps ==
  ASSUME MediaTypeOK, FilesInv, NEW p \in Procs, DropOldRows(p)
  PROVE  StepKeeps(p)
<1>1. /\ Clears(p) /\ Busy(p) /\ op[p].name \in Names /\ op[p].saved = {}
      /\ op[p].list = {} /\ UNCHANGED files
  BY DEF DropOldRows, Clears, Busy, At, FilesInv, Shaped
<1>2. /\ OpTypeOK' /\ op'[p].at = "make" /\ op'[p].name = op[p].name /\ op'[p].list = {}
      /\ op'[p].saved = {} /\ \A q \in Procs \ {p} : op'[q] = op[q]
  BY <1>1, Starts DEF DropOldRows
<1>3. \/ rows' = rows \ ByOriginal(op[p].name) /\ UNCHANGED suspect
      \/ UNCHANGED rows /\ Doubt(Touched(op[p].name))
  BY DEF DropOldRows, Certain
<1>4. Works(p) /\ RowsHaveFiles' /\ FilesHaveRows'
  BY <1>1, <1>2, <1>3, RowsDropped
<1>5. FilesTypeOK'
  BY <1>1, <1>3, TouchedFacts, Faults DEF MediaTypeOK, FilesTypeOK, DropOldRows, Certain, Doubt
<1> QED BY <1>2, <1>4, <1>5 DEF StepKeeps, At, Cleared, Clears, Saved, Unnamed, Unlisted

LEMMA DropVariantRowsKeeps ==
  ASSUME MediaTypeOK, FilesInv, NEW p \in Procs, DropVariantRows(p)
  PROVE  StepKeeps(p)
<1>1. /\ At(p, "dropVariants") /\ Clears(p) /\ Busy(p) /\ op[p].name \in Names
      /\ op[p].saved = {} /\ op[p].list = {} /\ UNCHANGED files
  BY DEF DropVariantRows, Clears, Busy, At, FilesInv, Shaped
<1>2. CASE rows' = rows \ ByOriginal(op[p].name) /\ Goto(p, "dropFile") /\ Certain
  <2>1. /\ OpTypeOK' /\ op'[p].at = "dropFile" /\ op'[p].name = op[p].name /\ op'[p].list = {}
        /\ op'[p].saved = {} /\ \A q \in Procs \ {p} : op'[q] = op[q]
    BY <1>1, <1>2, Goes DEF Ats
  <2>2. Works(p) /\ RowsHaveFiles' /\ FilesHaveRows'
    BY <1>1, <1>2, <2>1, RowsDropped DEF Certain
  <2>3. FilesTypeOK'
    BY <1>1, <1>2, Faults DEF MediaTypeOK, FilesTypeOK, DropVariantRows, Certain
  <2>4. Unnamed(p)'
    BY <1>1, <1>2, <2>1 DEF FilesInv, Unnamed, ByOptimized, At, Certain
  <2>5. Unlisted(p)'
    BY <1>2, <2>1 DEF Unlisted, ByOriginal
  <2> QED BY <2>1, <2>2, <2>3, <2>4, <2>5 DEF StepKeeps, At, Cleared, Clears, Saved
<1>3. CASE Return(p) /\ Fault /\ Doubt(Touched(op[p].name)) /\ UNCHANGED rows
  <2>1. /\ OpTypeOK' /\ At(p, "idle")' /\ op'[p].saved = {}
        /\ \A q \in Procs \ {p} : op'[q] = op[q]
    BY <1>3, Idles
  <2>2. Works(p) /\ RowsHaveFiles' /\ FilesHaveRows'
    BY <1>1, <1>3, <2>1, RowsDropped
  <2>3. FilesTypeOK'
    BY <1>1, <1>3, TouchedFacts, Faults DEF MediaTypeOK, FilesTypeOK, DropVariantRows, Doubt
  <2> QED BY <2>1, <2>2, <2>3 DEF StepKeeps, At, Cleared, Clears, Saved, Unnamed, Unlisted
<1> QED BY <1>2, <1>3 DEF DropVariantRows

\* A listed variant is deleted.
LEMMA DropListedKeeps ==
  ASSUME MediaTypeOK, FilesInv, NEW p \in Procs, Clears(p), DropListed(p)
  PROVE  StepKeeps(p)
<1>1. PICK v \in op[p].list :
        /\ op' = [op EXCEPT ![p].list = @ \ {v}]
        /\ \/ files' = files \ {v} /\ UNCHANGED faults
           \/ UNCHANGED files /\ Fault
        /\ Doubt(IF faults' > faults \/ Naming(v) \ ByOriginal(op[p].name) # {}
                 THEN {v} ELSE {})
        /\ lost' = lost \cup {v}
        /\ UNCHANGED rows
  BY DEF DropListed
<1>2. /\ Busy(p) /\ op[p].name \in Names /\ op[p].saved = {}
      /\ op[p].list \subseteq Variants(op[p].name) /\ ~At(p, "make") /\ ~At(p, "dropFile")
  BY DEF Clears, Busy, At, FilesInv, Shaped
<1>3. v \in Reach(p) /\ v \in Names
  BY <1>2, TouchedFacts DEF Reach
<1>4. /\ OpTypeOK' /\ op'[p].at = op[p].at /\ op'[p].name = op[p].name
      /\ op'[p].list = op[p].list \ {v} /\ op'[p].saved = {}
      /\ \A q \in Procs \ {p} : op'[q] = op[q]
  BY <1>1, <1>2, Strikes
<1>5. /\ v \in files' /\ v \in files => v \in suspect'
      /\ suspect \subseteq suspect' /\ files' \subseteq files /\ files \ {v} \subseteq files'
      /\ suspect' \subseteq suspect \cup {v}
  BY <1>1 DEF MediaTypeOK, FilesTypeOK, Doubt, Fault
<1>6. \A r \in rows \ ByOriginal(op[p].name) : v \in {r.original, r.optimized} => v \in suspect'
  BY <1>1 DEF Doubt, Naming, ByOriginal, ByOptimized
<1>7. Works(p)
  BY <1>1, <1>2, <1>3, <1>4, <1>5 DEF Works, MediaTypeOK, FilesTypeOK, FilesInv, Shaped
<1>8. RowsHaveFiles'
  <2> SUFFICES ASSUME NEW r \in rows, ~({r.optimized, r.original} \subseteq files' \cup suspect')
               PROVE  \E q \in Procs : (Clears(q) /\ op[q].name = r.original)'
    BY <1>1 DEF RowsHaveFiles
  <2>1. CASE r \in ByOriginal(op[p].name)
    BY <1>4, <2>1 DEF Clears, ByOriginal
  <2>2. CASE r \notin ByOriginal(op[p].name)
    <3>1. PICK q \in Procs : Clears(q) /\ op[q].name = r.original
      BY <1>5, <1>6, <2>2 DEF FilesInv, RowsHaveFiles
    <3> QED BY <1>4, <3>1 DEF Clears
  <2> QED BY <2>1, <2>2
<1>9. FilesHaveRows'
  <2> SUFFICES ASSUME NEW v1 \in (files' \ Images) \ suspect', ByOptimized(v1)' = {}
               PROVE  \E q \in Procs :
                        (\/ At(q, "make") /\ \E type \in op[q].saved : v1 = VariantOf[op[q].name][type]
                         \/ At(q, "dropFile") /\ op[q].name = v1)'
    BY DEF FilesHaveRows
  <2>1. PICK q \in Procs :
          \/ At(q, "make") /\ \E type \in op[q].saved : v1 = VariantOf[op[q].name][type]
          \/ At(q, "dropFile") /\ op[q].name = v1
    BY <1>1, <1>5 DEF FilesInv, FilesHaveRows, ByOptimized
  <2>2. q # p
    BY <1>2, <2>1
  <2> QED BY <1>4, <2>1, <2>2 DEF At
<1>10. Cleared(p)'
  BY <1>1, <1>4, <1>5 DEF FilesInv, Cleared, Clears, ByOriginal
<1>11. Unnamed(p)' /\ Unlisted(p)' /\ Saved(p)'
  BY <1>1, <1>2, <1>4, <1>5 DEF FilesInv, Unnamed, Unlisted, Saved, ByOptimized, At
<1>12. FilesTypeOK'
  BY <1>1, <1>3, <1>5, Faults DEF MediaTypeOK, FilesTypeOK
<1> QED BY <1>4, <1>7, <1>8, <1>9, <1>10, <1>11, <1>12 DEF StepKeeps

LEMMA MakeKeeps ==
  ASSUME MediaTypeOK, FilesInv, NEW p \in Procs, NEW type \in Types, Make(p, type)
  PROVE  StepKeeps(p)
<1> DEFINE V == VariantOf[op[p].name][type]
<1>1. /\ At(p, "make") /\ op[p].at = "make" /\ Busy(p) /\ ~Clears(p) /\ op[p].name \in Names
      /\ V \in Reach(p) /\ V \in Names
      /\ op[p].list \subseteq Variants(op[p].name)
      /\ UNCHANGED <<rows, suspect, lost>>
  BY TouchedFacts DEF Make, Clears, Busy, At, FilesInv, Shaped, Reach
<1>2. PICK saved \in SUBSET Types :
        /\ op' = [op EXCEPT ![p] = [op[p] EXCEPT !.todo = op[p].todo \ {type}, !.saved = saved]]
        /\ \/ /\ saved = op[p].saved \cup {type}
              /\ op[p].name \in files /\ files' = files \cup {V} /\ UNCHANGED faults
           \/ /\ saved = op[p].saved
              /\ UNCHANGED files /\ (Fault \/ UNCHANGED faults)
  <2>1. op[p] \in Operation /\ op[p].saved \in SUBSET Types
    BY OpFacts
  <2>2. CASE /\ op[p].name \in files
             /\ files' = files \cup {V}
             /\ op' = [op EXCEPT ![p].todo = @ \ {type}, ![p].saved = @ \cup {type}]
             /\ UNCHANGED faults
    <3>1. op[p].saved \cup {type} \in SUBSET Types
      BY <2>1
    <3>2. op' = [op EXCEPT ![p] = [op[p] EXCEPT !.todo = op[p].todo \ {type},
                                                !.saved = op[p].saved \cup {type}]]
      BY <2>1, <2>2 DEF MediaTypeOK, OpTypeOK, Operation
    <3> QED BY <2>2, <3>1, <3>2
  <2>3. CASE /\ UNCHANGED files
             /\ op' = [op EXCEPT ![p].todo = @ \ {type}]
             /\ IF op[p].name \in files THEN Fault ELSE UNCHANGED faults
    <3>1. op' = [op EXCEPT ![p] = [op[p] EXCEPT !.todo = op[p].todo \ {type},
                                                !.saved = op[p].saved]]
      BY <2>1, <2>3 DEF MediaTypeOK, OpTypeOK, Operation
    <3> QED BY <2>1, <2>3, <3>1
  <2> QED BY <2>2, <2>3 DEF Make
<1>3. /\ OpTypeOK' /\ op'[p].at = "make" /\ op'[p].name = op[p].name /\ op'[p].list = op[p].list
      /\ op'[p].saved = saved /\ \A q \in Procs \ {p} : op'[q] = op[q]
  <2> DEFINE todo == op[p].todo \ {type}
             o == [op[p] EXCEPT !.todo = todo, !.saved = saved]
  <2>1. todo \in SUBSET Types
    BY OpFacts
  <2>2. op' = [op EXCEPT ![p] = o]
    BY <1>2
  <2>3. o = [op[p] EXCEPT !.todo = todo, !.saved = saved]
    OBVIOUS
  <2> HIDE DEF V, o, todo
  <2>4. /\ OpTypeOK' /\ op'[p].at = op[p].at /\ op'[p].name = op[p].name
        /\ op'[p].list = op[p].list /\ op'[p].saved = saved
        /\ \A q \in Procs \ {p} : op'[q] = op[q]
    BY <2>1, <2>2, <2>3, MakesOne, ZenonT(60)
  <2> QED BY <1>1, <2>4
<1>4. files \subseteq files' /\ files' \subseteq files \cup {V} /\ op[p].saved \subseteq saved
  BY <1>2
<1> HIDE DEF V
<1>5. Works(p)
  BY <1>1, <1>3, <1>4 DEF Works, At, MediaTypeOK, FilesTypeOK, FilesInv, Shaped
<1>6. RowsHaveFiles'
  <2> SUFFICES ASSUME NEW r \in rows, ~({r.optimized, r.original} \subseteq files \cup suspect)
               PROVE  \E q \in Procs : (Clears(q) /\ op[q].name = r.original)'
    BY <1>1, <1>4 DEF RowsHaveFiles
  <2>1. PICK q \in Procs : Clears(q) /\ op[q].name = r.original
    BY DEF FilesInv, RowsHaveFiles
  <2> QED BY <1>1, <1>3, <2>1 DEF Clears
<1>7. FilesHaveRows'
  <2> SUFFICES ASSUME NEW v \in (files' \ Images) \ suspect', ByOptimized(v)' = {}
               PROVE  \E q \in Procs :
                        (\/ At(q, "make") /\ \E t \in op[q].saved : v = VariantOf[op[q].name][t]
                         \/ At(q, "dropFile") /\ op[q].name = v)'
    BY DEF FilesHaveRows
  <2>1. CASE v \in files
    <3>1. PICK q \in Procs :
            \/ At(q, "make") /\ \E t \in op[q].saved : v = VariantOf[op[q].name][t]
            \/ At(q, "dropFile") /\ op[q].name = v
      BY <1>1, <2>1 DEF FilesInv, FilesHaveRows, ByOptimized
    <3>2. CASE q = p
      BY <1>1, <1>3, <1>4, <3>1, <3>2 DEF At
    <3>3. CASE q # p
      BY <1>3, <3>1, <3>3 DEF At
    <3> QED BY <3>2, <3>3
  <2>2. CASE v \notin files
    <3>1. v = V /\ type \in saved
      BY <1>2, <1>4, <2>2
    <3> QED BY <1>3, <3>1 DEF At, V
  <2> QED BY <2>1, <2>2
<1>8. Saved(p)'
  BY <1>1, <1>2, <1>3, <1>4 DEF FilesInv, Saved, V
<1>9. FilesTypeOK'
  BY <1>1, <1>2, <1>4, Faults DEF MediaTypeOK, FilesTypeOK
<1> QED BY <1>3, <1>5, <1>6, <1>7, <1>8, <1>9 DEF StepKeeps, At, Cleared, Clears, Unnamed, Unlisted

LEMMA RecordKeeps ==
  ASSUME MediaTypeOK, FilesInv, NEW p \in Procs, NEW type \in Types, Record(p, type)
  PROVE  StepKeeps(p)
<1> DEFINE V == VariantOf[op[p].name][type]
           new == [original |-> op[p].name, type |-> type, optimized |-> V]
<1>1. /\ op[p].at = "make" /\ Busy(p) /\ ~Clears(p) /\ op[p].name \in Names
      /\ V \in Reach(p) /\ V \in Names /\ type \in op[p].saved
      /\ op[p].list \subseteq Variants(op[p].name)
      /\ UNCHANGED <<files, lost>>
  BY TouchedFacts DEF Record, Clears, Busy, At, FilesInv, Shaped, Reach
<1>2. op' = [op EXCEPT ![p] = [op[p] EXCEPT !.todo = op[p].todo, !.saved = op[p].saved \ {type}]]
  BY OpFacts DEF Record, MediaTypeOK, OpTypeOK, Operation
<1>3. /\ OpTypeOK' /\ op'[p].at = "make" /\ op'[p].name = op[p].name /\ op'[p].list = op[p].list
      /\ op'[p].saved = op[p].saved \ {type} /\ \A q \in Procs \ {p} : op'[q] = op[q]
  <2> DEFINE todo == op[p].todo
             saved == op[p].saved \ {type}
             o == [op[p] EXCEPT !.todo = todo, !.saved = saved]
  <2>1. todo \in SUBSET Types /\ saved \in SUBSET Types
    BY OpFacts
  <2>2. op' = [op EXCEPT ![p] = o]
    BY <1>2
  <2>3. o = [op[p] EXCEPT !.todo = todo, !.saved = saved]
    OBVIOUS
  <2> HIDE DEF o, todo, saved
  <2>4. /\ OpTypeOK' /\ op'[p].at = op[p].at /\ op'[p].name = op[p].name
        /\ op'[p].list = op[p].list /\ op'[p].saved = saved
        /\ \A q \in Procs \ {p} : op'[q] = op[q]
    BY <2>1, <2>2, <2>3, MakesOne, ZenonT(60)
  <2> QED BY <1>1, <2>4 DEF saved
<1>4. \/ /\ rows' = {r \in rows : r.original # op[p].name \/ r.type # type} \cup {new}
         /\ Certain
      \/ UNCHANGED rows /\ Fault /\ Doubt(Touched(op[p].name))
  BY DEF Record, InsertRow
<1>5. new \in Row /\ new.original = op[p].name /\ new.optimized = V /\ new.type = type
  BY <1>1 DEF Row
<1>6. /\ suspect \subseteq suspect' /\ suspect' \subseteq suspect \cup Reach(p)
      /\ rows' \subseteq rows \cup {new}
      /\ Fault \/ UNCHANGED faults
  BY <1>4 DEF Certain, Doubt, Reach
<1> HIDE DEF new
<1>7. Works(p)
  BY <1>1, <1>3, <1>5, <1>6 DEF Works, At, MediaTypeOK, FilesTypeOK, FilesInv, Shaped
<1>8. RowsHaveFiles'
  <2> SUFFICES ASSUME NEW r \in rows', ~({r.optimized, r.original} \subseteq files \cup suspect)
               PROVE  \E q \in Procs : (Clears(q) /\ op[q].name = r.original)'
    BY <1>1, <1>6 DEF RowsHaveFiles
  <2>1. r # new
    BY <1>1, <1>5 DEF FilesInv, Saved, At
  <2>2. PICK q \in Procs : Clears(q) /\ op[q].name = r.original
    BY <1>6, <2>1 DEF FilesInv, RowsHaveFiles
  <2> QED BY <1>1, <1>3, <2>2 DEF Clears
<1>9. FilesHaveRows'
  <2> SUFFICES ASSUME NEW v \in (files \ Images) \ suspect', ByOptimized(v)' = {}
               PROVE  \E q \in Procs :
                        (\/ At(q, "make") /\ \E t \in op[q].saved : v = VariantOf[op[q].name][t]
                         \/ At(q, "dropFile") /\ op[q].name = v)'
    BY <1>1 DEF FilesHaveRows
  <2>1. v # V
    <3>1. CASE new \in rows'
      BY <1>5, <3>1 DEF ByOptimized
    <3>2. CASE new \notin rows'
      <4>1. Doubt(Touched(op[p].name))
        BY <1>4, <3>2
      <4> QED BY <1>1, <4>1 DEF Doubt, Reach
    <3> QED BY <3>1, <3>2
  <2>2. ByOptimized(v) = {}
    <3> SUFFICES ASSUME NEW r \in rows, r.optimized = v PROVE FALSE
      BY DEF ByOptimized
    <3>1. r \notin rows'
      BY DEF ByOptimized
    <3>2. r.original = op[p].name /\ r.type = type
      BY <1>4, <3>1
    <3> QED BY <2>1, <3>2 DEF FilesInv, Shaped
  <2>3. PICK q \in Procs :
          \/ At(q, "make") /\ \E t \in op[q].saved : v = VariantOf[op[q].name][t]
          \/ At(q, "dropFile") /\ op[q].name = v
    BY <1>6, <2>2 DEF FilesInv, FilesHaveRows
  <2>4. CASE q = p
    BY <1>1, <1>3, <2>1, <2>3, <2>4 DEF At
  <2>5. CASE q # p
    BY <1>3, <2>3, <2>5 DEF At
  <2> QED BY <2>4, <2>5
<1>10. Saved(p)'
  BY <1>1, <1>3, <1>6 DEF FilesInv, Saved, At
<1>11. FilesTypeOK'
  BY <1>1, <1>5, <1>6, TouchedFacts, Faults DEF MediaTypeOK, FilesTypeOK, Reach
<1> QED BY <1>3, <1>7, <1>8, <1>9, <1>10, <1>11 DEF StepKeeps, At, Cleared, Clears, Unnamed, Unlisted

LEMMA MadeKeeps ==
  ASSUME MediaTypeOK, FilesInv, NEW p \in Procs, Made(p)
  PROVE  StepKeeps(p)
<1>1. /\ OpTypeOK' /\ At(p, "idle")' /\ op'[p].saved = {}
      /\ \A q \in Procs \ {p} : op'[q] = op[q]
  BY Idles DEF Made
<1>2. Works(p) /\ RowsHaveFiles' /\ FilesHaveRows'
  BY <1>1, OnlyOp DEF Made, At, Busy, Clears, fileVars
<1>3. FilesTypeOK'
  BY DEF MediaTypeOK, FilesTypeOK, Made, fileVars
<1> QED BY <1>1, <1>2, <1>3 DEF StepKeeps, At, Cleared, Clears, Saved, Unnamed, Unlisted

-----------------------------------------------------------------------------
(***************************************************************************)
(* Deleting a file.                                                        *)
(***************************************************************************)
LEMMA IsVariantKeeps ==
  ASSUME MediaTypeOK, FilesInv, NEW p \in Procs, IsVariant(p)
  PROVE  StepKeeps(p)
<1>1. /\ op[p].at = "isVariant" /\ Busy(p) /\ op[p].name \in Names /\ op[p].saved = {}
      /\ op[p].list \subseteq Variants(op[p].name) /\ UNCHANGED <<files, rows, lost>>
  BY DEF IsVariant, At, Busy, FilesInv, Shaped
<1>2. PICK at \in {"dropRows", "listVariants"} :
        /\ Goto(p, at)
        /\ suspect \subseteq suspect' /\ suspect' \subseteq Names
        /\ Fault \/ UNCHANGED faults
        /\ at = "listVariants" => ByOptimized(op[p].name) = {} \/ op[p].name \in suspect'
  BY <1>1 DEF IsVariant, Certain, Doubt, MediaTypeOK, FilesTypeOK
<1>3. /\ OpTypeOK' /\ op'[p].at = at /\ op'[p].name = op[p].name /\ op'[p].list = op[p].list
      /\ op'[p].saved = {} /\ \A q \in Procs \ {p} : op'[q] = op[q]
  BY <1>1, <1>2, Goes DEF Ats
<1>4. Works(p) /\ RowsHaveFiles' /\ FilesHaveRows'
  BY <1>1, <1>2, <1>3, OnlyOp DEF At, Clears
<1>5. FilesTypeOK'
  BY <1>1, <1>2, Faults DEF MediaTypeOK, FilesTypeOK
<1>6. Unnamed(p)'
  BY <1>1, <1>2, <1>3 DEF Unnamed, ByOptimized
<1> QED BY <1>3, <1>4, <1>5, <1>6 DEF StepKeeps, At, Cleared, Clears, Saved, Unlisted

LEMMA ListVariantsKeeps ==
  ASSUME MediaTypeOK, FilesInv, NEW p \in Procs, ListVariants(p)
  PROVE  StepKeeps(p)
<1>1. /\ op[p].at = "listVariants" /\ Busy(p) /\ op[p].name \in Names /\ op[p].saved = {}
      /\ UNCHANGED <<files, rows, suspect, lost>>
  BY DEF ListVariants, At, Busy, FilesInv, Shaped
<1>2. FilesTypeOK'
  BY Faults DEF MediaTypeOK, FilesTypeOK, ListVariants
<1>3. CASE op' = [op EXCEPT ![p].at = "dropVariants",
                            ![p].list = Optimized(ByOriginal(op[p].name))]
  <2>1. /\ OpTypeOK' /\ op'[p].at = "dropVariants" /\ op'[p].name = op[p].name
        /\ op'[p].list = Optimized(ByOriginal(op[p].name))
        /\ op'[p].list \subseteq Variants(op[p].name) /\ op'[p].saved = {}
        /\ \A q \in Procs \ {p} : op'[q] = op[q]
    BY <1>1, <1>3, Lists DEF Ats
  <2>2. Works(p) /\ RowsHaveFiles' /\ FilesHaveRows'
    BY <1>1, <2>1, OnlyOp DEF Clears, At
  <2>3. Cleared(p)'
    BY <1>1, <2>1 DEF Cleared, Clears, Optimized, ByOriginal
  <2>4. Unnamed(p)'
    BY <1>1, <2>1 DEF FilesInv, Unnamed, ByOptimized
  <2> QED BY <1>2, <2>1, <2>2, <2>3, <2>4 DEF StepKeeps, At, Saved, Unlisted
<1>4. CASE Return(p)
  <2>1. /\ OpTypeOK' /\ At(p, "idle")' /\ op'[p].saved = {}
        /\ \A q \in Procs \ {p} : op'[q] = op[q]
    BY <1>4, Idles
  <2>2. Works(p) /\ RowsHaveFiles' /\ FilesHaveRows'
    BY <1>1, <2>1, OnlyOp DEF Clears, At
  <2> QED BY <1>2, <2>1, <2>2 DEF StepKeeps, At, Cleared, Clears, Saved, Unnamed, Unlisted
<1> QED BY <1>3, <1>4 DEF ListVariants

LEMMA DropRowsKeeps ==
  ASSUME MediaTypeOK, FilesInv, NEW p \in Procs, DropRows(p)
  PROVE  StepKeeps(p)
<1>1. /\ op[p].at = "dropRows" /\ Busy(p) /\ ~Clears(p) /\ op[p].name \in Names /\ op[p].saved = {}
      /\ op[p].list \subseteq Variants(op[p].name)
      /\ UNCHANGED <<files, lost>>
  BY DEF DropRows, At, Busy, Clears, FilesInv, Shaped
<1>2. CASE /\ rows' = rows \ ByOptimized(op[p].name)
           /\ Goto(p, "dropFile") /\ UNCHANGED faults
           /\ Doubt(IF ByOriginal(op[p].name) \subseteq ByOptimized(op[p].name) THEN {}
                    ELSE {op[p].name})
  <2>1. /\ OpTypeOK' /\ op'[p].at = "dropFile" /\ op'[p].name = op[p].name
        /\ op'[p].list = op[p].list
        /\ op'[p].saved = {} /\ \A q \in Procs \ {p} : op'[q] = op[q]
    BY <1>1, <1>2, Goes DEF Ats
  <2>2. suspect \subseteq suspect' /\ suspect' \subseteq Names
    BY <1>1, <1>2 DEF Doubt, MediaTypeOK, FilesTypeOK
  <2>3. Works(p)
    BY <1>1, <1>2, <2>1, <2>2 DEF Works, At, MediaTypeOK, FilesTypeOK, FilesInv, Shaped
  <2>4. RowsHaveFiles'
    <3> SUFFICES ASSUME NEW r \in rows, ~({r.optimized, r.original} \subseteq files \cup suspect)
                 PROVE  \E q \in Procs : (Clears(q) /\ op[q].name = r.original)'
      BY <1>1, <1>2, <2>2 DEF RowsHaveFiles
    <3>1. PICK q \in Procs : Clears(q) /\ op[q].name = r.original
      BY DEF FilesInv, RowsHaveFiles
    <3> QED BY <1>1, <2>1, <3>1 DEF Clears
  <2>5. FilesHaveRows'
    <3> SUFFICES ASSUME NEW v \in (files \ Images) \ suspect', ByOptimized(v)' = {}, v # op[p].name
                 PROVE  \E q \in Procs :
                          (\/ At(q, "make") /\ \E type \in op[q].saved : v = VariantOf[op[q].name][type]
                           \/ At(q, "dropFile") /\ op[q].name = v)'
      BY <1>1, <2>1 DEF FilesHaveRows, At
    <3>1. ByOptimized(v) = {}
      BY <1>2 DEF ByOptimized
    <3>2. PICK q \in Procs :
            \/ At(q, "make") /\ \E type \in op[q].saved : v = VariantOf[op[q].name][type]
            \/ At(q, "dropFile") /\ op[q].name = v
      BY <2>2, <3>1 DEF FilesInv, FilesHaveRows
    <3>3. q # p
      BY <1>1, <3>2 DEF At
    <3> QED BY <2>1, <3>2, <3>3 DEF At
  <2>6. Unnamed(p)' /\ Unlisted(p)'
    BY <1>2, <2>1 DEF Unnamed, Unlisted, ByOptimized, ByOriginal, Doubt
  <2>7. FilesTypeOK'
    BY <1>1, <1>2, <2>2 DEF MediaTypeOK, FilesTypeOK
  <2> QED BY <2>1, <2>3, <2>4, <2>5, <2>6, <2>7 DEF StepKeeps, At, Cleared, Clears, Saved
<1>3. CASE Return(p) /\ Fault /\ UNCHANGED <<rows, suspect>>
  <2>1. /\ OpTypeOK' /\ At(p, "idle")' /\ op'[p].saved = {}
        /\ \A q \in Procs \ {p} : op'[q] = op[q]
    BY <1>3, Idles
  <2>2. Works(p) /\ RowsHaveFiles' /\ FilesHaveRows'
    BY <1>1, <1>3, <2>1, OnlyOp DEF At
  <2>3. FilesTypeOK'
    BY <1>1, <1>3, Faults DEF MediaTypeOK, FilesTypeOK
  <2> QED BY <2>1, <2>2, <2>3 DEF StepKeeps, At, Cleared, Clears, Saved, Unnamed, Unlisted
<1> QED BY <1>2, <1>3 DEF DropRows

LEMMA DropFileKeeps ==
  ASSUME MediaTypeOK, FilesInv, NEW p \in Procs, DropFile(p)
  PROVE  StepKeeps(p)
<1>1. /\ op[p].at = "dropFile" /\ At(p, "dropFile") /\ Busy(p) /\ ~Clears(p) /\ op[p].name \in Names
      /\ op[p].name \in Reach(p) /\ UNCHANGED <<rows, lost>>
  BY TouchedFacts DEF DropFile, At, Busy, Clears, FilesInv, Shaped, Reach
<1>2. /\ OpTypeOK' /\ At(p, "idle")' /\ op'[p].saved = {}
      /\ \A q \in Procs \ {p} : op'[q] = op[q]
  BY Idles DEF DropFile
<1>3. /\ files \ {op[p].name} \subseteq files' /\ files' \subseteq files
      /\ op[p].name \in files' => op[p].name \in suspect'
      /\ suspect \subseteq suspect' /\ suspect' \subseteq Names
      /\ Fault \/ UNCHANGED faults
  BY <1>1 DEF DropFile, Doubt, Fault, MediaTypeOK, FilesTypeOK
<1>4. Works(p)
  BY <1>1, <1>2, <1>3 DEF Works, At, MediaTypeOK, FilesTypeOK, FilesInv, Shaped
<1>5. \A r \in rows : op[p].name \in {r.original, r.optimized} => op[p].name \in suspect
  BY <1>1 DEF FilesInv, Unnamed, Unlisted, ByOptimized, ByOriginal
<1>6. RowsHaveFiles'
  <2> SUFFICES ASSUME NEW r \in rows, ~({r.optimized, r.original} \subseteq files' \cup suspect')
               PROVE  \E q \in Procs : (Clears(q) /\ op[q].name = r.original)'
    BY <1>1 DEF RowsHaveFiles
  <2>1. PICK q \in Procs : Clears(q) /\ op[q].name = r.original
    BY <1>3, <1>5 DEF FilesInv, RowsHaveFiles
  <2> QED BY <1>1, <1>2, <2>1 DEF Clears
<1>7. FilesHaveRows'
  <2> SUFFICES ASSUME NEW v \in (files' \ Images) \ suspect', ByOptimized(v)' = {}
               PROVE  \E q \in Procs :
                        (\/ At(q, "make") /\ \E type \in op[q].saved : v = VariantOf[op[q].name][type]
                         \/ At(q, "dropFile") /\ op[q].name = v)'
    BY DEF FilesHaveRows
  <2>1. PICK q \in Procs :
          \/ At(q, "make") /\ \E type \in op[q].saved : v = VariantOf[op[q].name][type]
          \/ At(q, "dropFile") /\ op[q].name = v
    BY <1>1, <1>3 DEF FilesInv, FilesHaveRows, ByOptimized
  <2>2. q # p
    BY <1>1, <1>3, <2>1 DEF At
  <2> QED BY <1>2, <2>1, <2>2 DEF At
<1>8. FilesTypeOK'
  BY <1>1, <1>3, Faults DEF MediaTypeOK, FilesTypeOK
<1> QED BY <1>2, <1>4, <1>6, <1>7, <1>8 DEF StepKeeps, At, Cleared, Clears, Saved, Unnamed, Unlisted

LEMMA OptimizationKeeps ==
  ASSUME MediaTypeOK, FilesInv, NEW p \in Procs, OptimizationStep(p)
  PROVE  FilesTypeOK' /\ OpTypeOK' /\ FilesInv' /\ Works(p)
<1>1. StepKeeps(p)
  <2>1. ASSUME DropOld(p) \/ DropVariants(p) PROVE StepKeeps(p)
    BY <2>1, DropListedKeeps DEF DropOld, DropVariants, Clears, At
  <2> QED BY <2>1, UnreachableKeeps, ListOldKeeps, DropOldRowsKeeps, MakeKeeps, RecordKeeps, MadeKeeps,
             IsVariantKeeps, DropRowsKeeps, ListVariantsKeeps, DropVariantRowsKeeps, DropFileKeeps
          DEF OptimizationStep
<1>2. /\ Shaped' /\ Apart'
      /\ \A q \in Procs \ {p} : Cleared(q)' /\ Saved(q)' /\ Unnamed(q)' /\ Unlisted(q)'
  BY <1>1, OthersKeep DEF StepKeeps
<1> QED BY <1>1, <1>2 DEF StepKeeps, FilesInv

-----------------------------------------------------------------------------
(***************************************************************************)
(* Operations begin and die.                                               *)
(***************************************************************************)
\* Files may be added: of images only, which need no row.
LEMMA BeginsKeeps ==
  ASSUME MediaTypeOK, FilesInv, NEW p \in Procs, NEW at \in {"list", "isVariant"},
         NEW name \in Names, Begins(p, at, name),
         files \subseteq files', files' \ files \subseteq Images, lost' \in SUBSET Names,
         UNCHANGED <<rows, faults>>
  PROVE  /\ FilesTypeOK' /\ OpTypeOK' /\ FilesInv'
         /\ op'[p].at = at /\ op'[p].name = name
         /\ \A q \in Procs \ {p} : op'[q] = op[q]
<1> DEFINE o == [NoOp EXCEPT !.at = at, !.name = name]
<1>1. /\ o \in Operation /\ o.at = at /\ o.name = name /\ o.list = {} /\ o.saved = {}
  BY DEF NoOp, Operation
<1>2. ~Busy(p) /\ suspect' = suspect \cup Shared(p, name) /\ op' = [op EXCEPT ![p] = o]
  BY DEF Begins, Busy
<1> HIDE DEF o
<1>3. OpTypeOK' /\ op'[p] = o /\ \A q \in Procs \ {p} : op'[q] = op[q]
  BY <1>1, <1>2, OpChanges
<1>4. Touched(name) \subseteq Names /\ name \in Touched(name)
  BY TouchedFacts
<1>5. FilesTypeOK'
  BY <1>2, FilesAssumption DEF MediaTypeOK, FilesTypeOK, Shared
<1>6. Shaped'
  BY <1>1, <1>3 DEF FilesInv, Shaped, Busy, At, Variants
<1>7. Apart'
  <2> SUFFICES ASSUME NEW q1 \in Procs, NEW q2 \in Procs, q1 # q2, Busy(q1)', Busy(q2)',
                      Reach(q1)' \cap Reach(q2)' # {}
               PROVE  (Reach(q1) \cup Reach(q2) \subseteq suspect)'
    BY DEF Apart
  <2>1. Reach(p)' = Touched(name)
    BY <1>1, <1>3 DEF Reach, Touched
  <2>2. \A q \in Procs \ {p} : Reach(q)' = Reach(q) /\ (Busy(q)' <=> Busy(q))
    BY <1>3 DEF Reach, Touched, Busy, At
  <2>3. ASSUME NEW q \in Procs \ {p}, Busy(q), Reach(q) \cap Touched(name) # {}
        PROVE  Reach(q) \cup Touched(name) \subseteq suspect'
    <3>1. op[q].name \in Names
      BY <2>3 DEF FilesInv, Shaped
    <3>2. Reach(q) \subseteq Names
      BY <3>1, TouchedFacts DEF Reach
    <3> QED BY <1>2, <1>4, <2>3, <3>2 DEF Shared, Reach, Busy
  <2>4. CASE q1 # p /\ q2 # p
    BY <1>2, <2>2, <2>4 DEF FilesInv, Apart
  <2>5. CASE q1 = p
    BY <2>1, <2>2, <2>3, <2>5
  <2>6. CASE q2 = p
    BY <2>1, <2>2, <2>3, <2>6
  <2> QED BY <2>4, <2>5, <2>6
<1>8. RowsHaveFiles'
  <2> SUFFICES ASSUME NEW r \in rows, ~({r.optimized, r.original} \subseteq files \cup suspect)
               PROVE  \E q \in Procs : (Clears(q) /\ op[q].name = r.original)'
    BY <1>2 DEF RowsHaveFiles
  <2>1. PICK q \in Procs : Clears(q) /\ op[q].name = r.original
    BY DEF FilesInv, RowsHaveFiles
  <2> QED BY <1>2, <1>3, <2>1 DEF Clears, Busy, At
<1>9. FilesHaveRows'
  <2> SUFFICES ASSUME NEW v \in (files' \ Images) \ suspect', ByOptimized(v)' = {}
               PROVE  \E q \in Procs :
                        (\/ At(q, "make") /\ \E type \in op[q].saved : v = VariantOf[op[q].name][type]
                         \/ At(q, "dropFile") /\ op[q].name = v)'
    BY DEF FilesHaveRows
  <2>1. PICK q \in Procs :
          \/ At(q, "make") /\ \E type \in op[q].saved : v = VariantOf[op[q].name][type]
          \/ At(q, "dropFile") /\ op[q].name = v
    BY <1>2 DEF FilesInv, FilesHaveRows, ByOptimized
  <2> QED BY <1>2, <1>3, <2>1 DEF Busy, At
<1>10. ASSUME NEW q \in Procs PROVE Cleared(q)' /\ Saved(q)' /\ Unnamed(q)' /\ Unlisted(q)'
  <2>1. CASE q = p
    BY <1>1, <1>3, <2>1 DEF Cleared, Clears, Saved, Unnamed, Unlisted, At
  <2>2. CASE q # p
    <3>1. op'[q] = op[q]
      BY <1>3, <2>2
    <3>2. Cleared(q)'
      <4> SUFFICES ASSUME Clears(q), NEW r \in rows, r.original = op[q].name, r.optimized \in files'
                   PROVE  r.optimized \in op[q].list \cup suspect'
        BY <3>1 DEF Cleared, Clears, ByOriginal
      <4>1. r.optimized \notin Images
        BY FilesAssumption DEF FilesInv, Shaped, MediaTypeOK, FilesTypeOK, Row
      <4> QED BY <1>2, <4>1 DEF FilesInv, Cleared, ByOriginal
    <3>3. Saved(q)'
      BY <1>2, <3>1 DEF FilesInv, Saved, At
    <3>4. Unnamed(q)' /\ Unlisted(q)'
      BY <1>2, <3>1 DEF FilesInv, Unnamed, Unlisted, ByOptimized, ByOriginal, At
    <3> QED BY <3>2, <3>3, <3>4
  <2> QED BY <2>1, <2>2
<1> QED BY <1>1, <1>3, <1>5, <1>6, <1>7, <1>8, <1>9, <1>10 DEF FilesInv

LEMMA DiesKeeps ==
  ASSUME MediaTypeOK, FilesInv, NEW some \in SUBSET Procs, Dies(some)
  PROVE  /\ FilesTypeOK' /\ OpTypeOK' /\ FilesInv'
         /\ \A q \in Procs : op'[q] = IF q \in some THEN NoOp ELSE op[q]
<1>1. /\ NoOp \in Operation /\ NoOp.at = "idle" /\ NoOp.saved = {}
  BY DEF NoOp, Operation
<1>2. /\ UNCHANGED <<files, rows, lost>>
      /\ \A q \in some : At(q, "idle")' /\ op'[q] = NoOp
      /\ \A q \in Procs \ some : op'[q] = op[q]
      /\ \A q \in some : Busy(q) => Reach(q) \subseteq suspect'
      /\ suspect \subseteq suspect'
  BY <1>1 DEF Dies, At, Busy, Reach
<1>3. OpTypeOK'
  BY <1>1 DEF Dies, MediaTypeOK, OpTypeOK
<1>4. suspect' \subseteq Names
  <2>1. \A q \in some : ~At(q, "idle") => Touched(op[q].name) \subseteq Names
    BY TouchedFacts DEF FilesInv, Shaped, Busy
  <2> QED BY <2>1 DEF Dies, MediaTypeOK, FilesTypeOK
<1>5. FilesTypeOK'
  BY <1>2, <1>4, Faults DEF Dies, MediaTypeOK, FilesTypeOK
<1>6. Shaped'
  BY <1>1, <1>2 DEF FilesInv, Shaped, Busy, At, Variants
<1>7. Apart'
  <2>1. \A q \in Procs : Busy(q)' => Busy(q) /\ Reach(q)' = Reach(q)
    BY <1>2 DEF Busy, At, Reach, Touched
  <2> QED BY <1>2, <2>1 DEF FilesInv, Apart
<1>8. RowsHaveFiles'
  <2> SUFFICES ASSUME NEW r \in rows, ~({r.optimized, r.original} \subseteq files \cup suspect')
               PROVE  \E q \in Procs : (Clears(q) /\ op[q].name = r.original)'
    BY <1>2 DEF RowsHaveFiles
  <2>1. PICK q \in Procs : Clears(q) /\ op[q].name = r.original
    BY <1>2 DEF FilesInv, RowsHaveFiles
  <2>2. q \notin some
    <3> SUFFICES ASSUME q \in some PROVE FALSE
      OBVIOUS
    <3>1. r.original \in Names /\ r.optimized \in Variants(r.original)
      BY DEF FilesInv, Shaped, MediaTypeOK, FilesTypeOK, Row, Variants
    <3>2. {r.original, r.optimized} \subseteq Reach(q)
      BY <2>1, <3>1, TouchedFacts DEF Reach
    <3> QED BY <1>2, <2>1, <3>2 DEF Clears, Busy, At
  <2> QED BY <1>2, <2>1, <2>2 DEF Clears
<1>9. FilesHaveRows'
  <2> SUFFICES ASSUME NEW v \in (files \ Images) \ suspect', ByOptimized(v)' = {}
               PROVE  \E q \in Procs :
                        (\/ At(q, "make") /\ \E type \in op[q].saved : v = VariantOf[op[q].name][type]
                         \/ At(q, "dropFile") /\ op[q].name = v)'
    BY <1>2 DEF FilesHaveRows
  <2>1. PICK q \in Procs :
          \/ At(q, "make") /\ \E type \in op[q].saved : v = VariantOf[op[q].name][type]
          \/ At(q, "dropFile") /\ op[q].name = v
    BY <1>2 DEF FilesInv, FilesHaveRows, ByOptimized
  <2>2. q \notin some
    <3>1. Busy(q) /\ op[q].name \in Names /\ op[q].saved \subseteq Types
      BY <2>1, OpFacts DEF Busy, At, FilesInv, Shaped
    <3>2. v \in Reach(q)
      BY <2>1, <3>1, TouchedFacts DEF Reach
    <3> QED BY <1>2, <3>1, <3>2
  <2> QED BY <1>2, <2>1, <2>2 DEF At
<1>10. ASSUME NEW q \in Procs PROVE Cleared(q)' /\ Saved(q)' /\ Unnamed(q)' /\ Unlisted(q)'
  <2>1. CASE q \in some
    BY <1>2, <2>1 DEF Cleared, Clears, Saved, Unnamed, Unlisted, At
  <2>2. CASE q \notin some
    BY <1>2, <2>2 DEF FilesInv, Cleared, Clears, Saved, Unnamed, Unlisted, At, ByOriginal, ByOptimized
  <2> QED BY <2>1, <2>2
<1> QED BY <1>2, <1>3, <1>5, <1>6, <1>7, <1>8, <1>9, <1>10 DEF FilesInv

LEMMA FilesFrame ==
  ASSUME MediaTypeOK, FilesInv, UNCHANGED <<files, rows, suspect, op>>,
         Fault \/ UNCHANGED faults, lost' \in SUBSET Names
  PROVE  FilesTypeOK' /\ OpTypeOK' /\ FilesInv'
<1>1. FilesTypeOK' /\ OpTypeOK'
  BY Faults DEF MediaTypeOK, FilesTypeOK, OpTypeOK
<1>2. Shaped'
  BY DEF FilesInv, Shaped, Busy, At, Variants
<1>3. Apart'
  <2>1. \A q \in Procs : (Busy(q)' <=> Busy(q)) /\ Reach(q)' = Reach(q)
    BY DEF Busy, At, Reach, Touched
  <2> QED BY <2>1 DEF FilesInv, Apart
<1>4. RowsHaveFiles' /\ FilesHaveRows'
  BY DEF FilesInv, RowsHaveFiles, FilesHaveRows, Clears, At, ByOptimized
<1>5. \A p \in Procs : Cleared(p)' /\ Saved(p)' /\ Unnamed(p)' /\ Unlisted(p)'
  BY DEF FilesInv, Cleared, Clears, Saved, Unnamed, Unlisted, At, ByOriginal, ByOptimized
<1> QED BY <1>1, <1>2, <1>3, <1>4, <1>5 DEF FilesInv

-----------------------------------------------------------------------------
(***************************************************************************)
(* Posts and the files they refer to.                                      *)
(***************************************************************************)
\* Who deletes goes on deleting the same file.
Stays(p) ==
  /\ Deleting(p)' => Deleting(p) /\ op'[p].name = op[p].name
  /\ op'[p].name \in {op[p].name, None}
  /\ lost \subseteq lost'
  /\ \A n \in files \ files' : n \in lost' \/ (At(p, "dropFile") /\ op[p].name = n)

LEMMA OptimizationStays ==
  ASSUME MediaTypeOK, FilesInv, NEW p \in Procs, OptimizationStep(p)
  PROVE  Stays(p)
<1> USE DEF At, Deleting
<1>1. ASSUME Return(p) PROVE op'[p].name = None /\ ~Deleting(p)'
  BY <1>1, Idles DEF NoOp
<1>2. CASE Unreachable(p) \/ Made(p)
  BY <1>1, <1>2 DEF Unreachable, Made, Stays, fileVars
<1>3. CASE ListOld(p)
  <2>1. op'[p].name = op[p].name /\ op'[p].at \in {"dropOld", "make"}
    BY <1>3, OpFacts DEF ListOld, MediaTypeOK, OpTypeOK, Operation
  <2> QED BY <1>3, <2>1 DEF ListOld, Stays
<1>4. CASE DropOldRows(p)
  <2>1. op'[p].name = op[p].name /\ op'[p].at = "make"
    BY <1>4, Starts DEF DropOldRows
  <2> QED BY <1>4, <2>1 DEF DropOldRows, Stays
<1>5. CASE DropListed(p)
  <2>1. PICK v \in op[p].list :
          /\ op' = [op EXCEPT ![p].list = @ \ {v}]
          /\ files' = files \ {v} \/ UNCHANGED files
          /\ lost' = lost \cup {v}
    BY <1>5 DEF DropListed
  <2>2. op'[p].name = op[p].name /\ op'[p].at = op[p].at
    BY <2>1, Strikes
  <2> QED BY <2>1, <2>2 DEF Stays
<1>6. ASSUME NEW type \in Types, Make(p, type) \/ Record(p, type) PROVE Stays(p)
  <2>1. op'[p].name = op[p].name /\ op'[p].at = op[p].at
    BY <1>6, OpFacts DEF Make, Record, MediaTypeOK, OpTypeOK, Operation
  <2> QED BY <1>6, <2>1 DEF Make, Record, Stays
<1>7. CASE IsVariant(p)
  <2>1. PICK at \in Ats : Goto(p, at)
    BY <1>7 DEF IsVariant, Ats
  <2>2. op'[p].name = op[p].name
    BY <2>1, Goes
  <2> QED BY <1>7, <2>2 DEF IsVariant, Stays
<1>8. CASE DropRows(p) \/ DropVariantRows(p)
  <2>1. ASSUME Goto(p, "dropFile") PROVE op'[p].name = op[p].name
    BY <2>1, Goes DEF Ats
  <2> QED BY <1>1, <1>8, <2>1 DEF DropRows, DropVariantRows, Stays
<1>9. CASE ListVariants(p)
  <2>1. op'[p].name = op[p].name \/ Return(p)
    BY <1>9, OpFacts DEF ListVariants, MediaTypeOK, OpTypeOK, Operation
  <2> QED BY <1>1, <1>9, <2>1 DEF ListVariants, Stays
<1>10. CASE DropFile(p)
  BY <1>1, <1>10 DEF DropFile, Stays
<1> QED BY <1>2, <1>3, <1>4, <1>5, <1>6, <1>7, <1>8, <1>9, <1>10
        DEF OptimizationStep, DropOld, DropVariants

\* Posts and plan do not change: whatever disappears is known or is not used.
LEMMA PostsFrame ==
  ASSUME MediaTypeOK, PostsInv, UNCHANGED <<posts, plan>>,
         \A p \in Procs :
           Deleting(p)' => op'[p].name \in lost' \/ (Deleting(p) /\ op'[p].name = op[p].name),
         op'[Migrator].name \in {op[Migrator].name, None},
         At(Migrator, "idle") => At(Migrator, "idle")',
         lost \subseteq lost',
         \A n \in files \ files' :
           n \in lost' \/ \E p \in Procs : At(p, "dropFile") /\ op[p].name = n
  PROVE  PostsInv'
<1>1. \A n \in (files \cup lost) \ (files' \cup lost') : Phase("delete") /\ n \in Doomed
  <2> SUFFICES ASSUME NEW n \in (files \cup lost) \ (files' \cup lost')
               PROVE  Phase("delete") /\ n \in Doomed
    OBVIOUS
  <2>1. PICK p \in Procs : At(p, "dropFile") /\ op[p].name = n
    OBVIOUS
  <2>2. p = Migrator /\ Phase("delete")
    BY <2>1 DEF PostsInv, DeletedIsKnown, Deleting, At
  <2> QED BY <2>1, <2>2 DEF Doomed, MediaTypeOK, FilesTypeOK, Alone, At
<1>2. Doomed' \subseteq Doomed \cup lost'
  BY FilesAssumption DEF Doomed, Phase, Alone
<1>3. DeletedIsKnown'
  BY DEF PostsInv, DeletedIsKnown, Phase
<1>4. PlanShaped'
  BY DEF PostsInv, PlanShaped, Phase, Alone
<1>5. TargetsStay'
  <2>1. CASE Phase("delete")
    BY <2>1 DEF PostsInv, PlanShaped, TargetsStay, Phase
  <2>2. CASE ~Phase("delete")
    BY <1>1, <2>2 DEF PostsInv, TargetsStay
  <2> QED BY <2>1, <2>2
<1>6. DoomedIsUnused'
  BY <1>2 DEF PostsInv, DoomedIsUnused, Awaits, Phase
<1>7. CopyResolves'
  <2> SUFFICES ASSUME Phase("save")
               PROVE  /\ plan.copy \subseteq files' \cup lost'
                      /\ \A n \in plan.copy \cap Doomed' : n \in lost' \/ n = plan.pair.from
    BY DEF CopyResolves, Phase
  <2> QED BY <1>1, <1>2 DEF PostsInv, CopyResolves, Phase
<1>8. ReferencesResolve'
  <2> SUFFICES ASSUME NEW post \in Posts, NEW n \in posts[post], n \notin files' \cup lost'
               PROVE  FALSE
    BY DEF ReferencesResolve
  <2>1. n \in files \cup lost
    BY DEF PostsInv, ReferencesResolve
  <2>2. Phase("delete") /\ n \in Doomed
    BY <1>1, <2>1
  <2> QED BY <2>2 DEF PostsInv, DoomedIsUnused, Awaits, Phase
<1> QED BY <1>3, <1>4, <1>5, <1>6, <1>7, <1>8 DEF PostsInv

-----------------------------------------------------------------------------
(***************************************************************************)
(* Requests.                                                               *)
(***************************************************************************)
LEMMA OptimizationStepKeeps ==
  ASSUME MediaInv, NEW p \in Procs, OptimizationStep(p), UNCHANGED <<posts, plan, text, requests>>
  PROVE  MediaInv'
<1>1. FilesTypeOK' /\ OpTypeOK' /\ FilesInv' /\ Works(p) /\ Stays(p)
  BY OptimizationKeeps, OptimizationStays DEF MediaInv
<1>2. MediaTypeOK'
  BY <1>1 DEF MediaInv, MediaTypeOK, MigrationTypeOK
<1>3. \A q \in Procs : op'[q] = op[q] \/ q = p
  BY <1>1 DEF Works
<1>4. Migrator \in Procs
  BY DEF Procs
<1>5. PostsInv'
  <2>1. \A q \in Procs : Deleting(q)' => Deleting(q) /\ op'[q].name = op[q].name
    BY <1>1, <1>3 DEF Stays, Deleting
  <2>2. /\ op'[Migrator].name \in {op[Migrator].name, None}
        /\ At(Migrator, "idle") => At(Migrator, "idle")'
    BY <1>1, <1>3, <1>4 DEF Stays, Works, Busy, At
  <2> QED BY <1>1, <2>1, <2>2, PostsFrame DEF MediaInv, Stays
<1> QED BY <1>1, <1>2, <1>5 DEF MediaInv

LEMMA RequestTypes ==
  ASSUME MediaInv, Request \/ UNCHANGED requests
  PROVE  requests' \in 0 .. MaxRequests
BY MediaAssumption DEF MediaInv, MediaTypeOK, Request

\* A client begins an operation: a deletion is written down.
LEMMA ClientBegins ==
  ASSUME MediaInv, NEW c \in Clients, NEW at \in {"list", "isVariant"}, NEW name \in Names,
         Begins(c, at, name), files \subseteq files', files' \ files \subseteq Images,
         lost' \in SUBSET Names, lost \subseteq lost', at = "isVariant" => name \in lost',
         Request, UNCHANGED <<rows, faults, posts, plan, text>>
  PROVE  MediaInv'
<1>1. c \in Procs /\ Migrator \in Procs /\ c # Migrator
  BY ProcessesAssumption DEF Procs
<1>2. /\ FilesTypeOK' /\ OpTypeOK' /\ FilesInv'
      /\ op'[c].at = at /\ op'[c].name = name
      /\ \A q \in Procs \ {c} : op'[q] = op[q]
  BY <1>1, BeginsKeeps DEF MediaInv
<1>3. MediaTypeOK'
  BY <1>2, RequestTypes DEF MediaInv, MediaTypeOK, MigrationTypeOK
<1>4. \A q \in Procs : Deleting(q)' => op'[q].name \in lost' \/ (Deleting(q) /\ op'[q].name = op[q].name)
  BY <1>2 DEF Deleting
<1>5. PostsInv'
  BY <1>1, <1>2, <1>4, PostsFrame DEF MediaInv, At
<1> QED BY <1>2, <1>3, <1>5 DEF MediaInv

LEMMA RequestsKeep ==
  ASSUME MediaInv, NEW c \in Clients, NEW name \in Names,
         (name \in Images /\ Upload(c, name)) \/ Optimize(c, name) \/ DeleteFile(c, name)
  PROVE  MediaInv'
<1>1. lost \subseteq Names /\ files \subseteq Names
  BY DEF MediaInv, MediaTypeOK, FilesTypeOK
<1>2. CASE name \in Images /\ Upload(c, name)
  BY <1>1, <1>2, ClientBegins DEF Upload, Optimizes
<1>3. CASE Optimize(c, name)
  BY <1>1, <1>3, ClientBegins DEF Optimize, Optimizes
<1>4. CASE DeleteFile(c, name)
  BY <1>1, <1>4, ClientBegins DEF DeleteFile, Deletes
<1> QED BY <1>2, <1>3, <1>4

LEMMA SaveTextKeeps ==
  ASSUME MediaInv, NEW post \in Posts, NEW more \in {{}} \cup {{n} : n \in files}, SaveText(post, more)
  PROVE  MediaInv'
<1> DEFINE refs == text[post] \cup more
<1>1. /\ refs \in SUBSET Names
      /\ posts' = [posts EXCEPT ![post] = refs]
      /\ text' = [text EXCEPT ![post] = None]
      /\ lost' = lost \cup (refs \ files) \cup (refs \cap Doomed)
      /\ Request /\ UNCHANGED <<files, rows, faults, suspect, op, plan>>
  <2>1. more \subseteq Names
    BY DEF MediaInv, MediaTypeOK, FilesTypeOK
  <2>2. text[post] \in SUBSET Names
    BY DEF SaveText, MediaInv, MediaTypeOK
  <2> QED BY <2>1, <2>2 DEF SaveText
<1> HIDE DEF refs
<1>2. FilesTypeOK' /\ OpTypeOK' /\ FilesInv'
  BY <1>1, FilesFrame DEF MediaInv, MediaTypeOK, FilesTypeOK
<1>3. MediaTypeOK'
  <2>1. posts' \in [Posts -> SUBSET Names]
    BY <1>1 DEF MediaInv, MediaTypeOK, MigrationTypeOK
  <2>2. text' \in [Posts -> (SUBSET Names) \cup {None}]
    BY <1>1 DEF MediaInv, MediaTypeOK
  <2> QED BY <1>1, <1>2, <2>1, <2>2, RequestTypes DEF MediaInv, MediaTypeOK, MigrationTypeOK
<1>4. Doomed' = Doomed /\ lost \subseteq lost'
  BY <1>1 DEF Doomed, Phase, Alone, At
<1>5. \A q \in Posts : posts'[q] = IF q = post THEN refs ELSE posts[q]
  BY <1>1 DEF MediaInv, MediaTypeOK, MigrationTypeOK
<1>6. DeletedIsKnown' /\ PlanShaped' /\ TargetsStay'
  BY <1>1 DEF MediaInv, PostsInv, DeletedIsKnown, PlanShaped, TargetsStay, Deleting, Phase, Alone, At
<1>7. DoomedIsUnused'
  BY <1>1, <1>4, <1>5 DEF MediaInv, PostsInv, DoomedIsUnused, Awaits, Phase
<1>8. CopyResolves'
  BY <1>1, <1>4 DEF MediaInv, PostsInv, CopyResolves, Phase
<1>9. ReferencesResolve'
  BY <1>1, <1>5 DEF MediaInv, PostsInv, ReferencesResolve
<1> QED BY <1>2, <1>3, <1>6, <1>7, <1>8, <1>9 DEF MediaInv, PostsInv

LEMMA OpenEditorKeeps ==
  ASSUME MediaInv, NEW post \in Posts, OpenEditor(post)
  PROVE  MediaInv'
<1>1. UNCHANGED <<files, rows, faults, suspect, lost, op, posts, plan, requests>>
  BY DEF OpenEditor, migrationVars, optVars, fileVars
<1>2. FilesTypeOK' /\ OpTypeOK' /\ FilesInv'
  BY <1>1, FilesFrame DEF MediaInv, MediaTypeOK, FilesTypeOK
<1>3. PostsInv'
  BY <1>1, PostsFrame DEF MediaInv, Deleting, At
<1>4. text' \in [Posts -> (SUBSET Names) \cup {None}]
  BY DEF OpenEditor, MediaInv, MediaTypeOK, MigrationTypeOK
<1>5. MediaTypeOK'
  BY <1>1, <1>2, <1>4 DEF MediaInv, MediaTypeOK, MigrationTypeOK
<1> QED BY <1>2, <1>3, <1>5 DEF MediaInv

LEMMA ServerDiesKeeps ==
  ASSUME MediaInv, ServerDies
  PROVE  MediaInv'
<1>1. Clients \in SUBSET Procs /\ Migrator \in Procs /\ Migrator \notin Clients
  BY ProcessesAssumption DEF Procs
<1>2. UNCHANGED <<files, lost, posts, plan, text, requests>>
  BY DEF ServerDies, Dies
<1>3. /\ FilesTypeOK' /\ OpTypeOK' /\ FilesInv'
      /\ \A q \in Procs : op'[q] = IF q \in Clients THEN NoOp ELSE op[q]
  BY <1>1, DiesKeeps DEF MediaInv, ServerDies
<1>4. PostsInv'
  <2>1. \A q \in Procs : Deleting(q)' => Deleting(q) /\ op'[q].name = op[q].name
    BY <1>3 DEF Deleting, NoOp
  <2> QED BY <1>1, <1>2, <1>3, <2>1, PostsFrame DEF MediaInv, At
<1>5. MediaTypeOK'
  BY <1>2, <1>3 DEF MediaInv, MediaTypeOK, MigrationTypeOK
<1> QED BY <1>3, <1>4, <1>5 DEF MediaInv

LEMMA StutterKeeps ==
  ASSUME MediaInv, UNCHANGED mediaVars
  PROVE  MediaInv'
<1>1. UNCHANGED <<files, rows, faults, suspect, lost, op, posts, plan, text, requests>>
  BY DEF mediaVars, migrationVars, optVars, fileVars
<1>2. FilesTypeOK' /\ OpTypeOK' /\ FilesInv'
  BY <1>1, FilesFrame DEF MediaInv, MediaTypeOK, FilesTypeOK
<1>3. PostsInv'
  BY <1>1, PostsFrame DEF MediaInv, Deleting, At
<1>4. MediaTypeOK'
  BY <1>1, <1>2 DEF MediaInv, MediaTypeOK, MigrationTypeOK
<1> QED BY <1>2, <1>3, <1>4 DEF MediaInv

-----------------------------------------------------------------------------
(***************************************************************************)
(* The migration.                                                          *)
(***************************************************************************)
LEMMA NoPlanFacts ==
  /\ NoPlan \in Plan /\ NoPlan.at = "off" /\ NoPlan.others = {} /\ NoPlan.pairs = {}
  /\ NoPlan.pair = None
BY DEF NoPlan, Plan

LEMMA PlanFacts ==
  ASSUME MediaTypeOK
  PROVE  /\ plan \in Plan
         /\ plan.at \in {"off", "discover", "optimize", "replace", "posts", "save", "delete"}
         /\ plan.known \subseteq Names /\ plan.originals \subseteq Names /\ plan.others \subseteq Names
         /\ plan.pairs \subseteq Replacement /\ plan.pair \in Replacement \cup {None}
         /\ plan.found \subseteq Posts /\ plan.post \in Posts \cup {None} /\ plan.copy \subseteq Names
BY DEF MediaTypeOK, MigrationTypeOK, Plan

\* Nothing is planned, and nothing is doomed.
Unplanned(p) == p.at \in {"off", "discover"} /\ p.others = {} /\ p.pairs = {} /\ p.pair = None

LEMMA UnplannedKeeps ==
  ASSUME MediaInv, Unplanned(plan'), UNCHANGED posts,
         \A p \in Procs : Deleting(p)' => Deleting(p) /\ op'[p].name = op[p].name
           /\ (p = Migrator => op[p].name \in lost),
         UNCHANGED <<files, lost>>
  PROVE  PostsInv'
<1>1. Doomed' = {}
  BY DEF Doomed, Unplanned, Phase
<1>2. DeletedIsKnown' /\ PlanShaped' /\ TargetsStay'
  BY DEF MediaInv, PostsInv, DeletedIsKnown, PlanShaped, TargetsStay, Unplanned, Phase
<1>3. DoomedIsUnused' /\ CopyResolves'
  BY <1>1 DEF DoomedIsUnused, CopyResolves, Unplanned, Phase
<1>4. ReferencesResolve'
  BY DEF MediaInv, PostsInv, ReferencesResolve
<1> QED BY <1>2, <1>3, <1>4 DEF PostsInv

LEMMA StartKeeps ==
  ASSUME MediaInv, Start
  PROVE  MediaInv'
<1> DEFINE known == Originals(rows) \cup Optimized(rows)
<1>1. /\ UNCHANGED <<files, rows, faults, suspect, lost, op, posts, text>> /\ Request
      /\ plan' = [NoPlan EXCEPT !.at = "discover", !.known = known]
      /\ At(Migrator, "idle")
  BY DEF Start, StartMigration, optVars, fileVars, Alone
<1>2. known \subseteq Names
  BY DEF MediaInv, MediaTypeOK, FilesTypeOK, Row, Originals, Optimized
<1> HIDE DEF known
<1>3. plan' \in Plan /\ Unplanned(plan')
  BY <1>1, <1>2 DEF NoPlan, Plan, Unplanned
<1>4. FilesTypeOK' /\ OpTypeOK' /\ FilesInv'
  BY <1>1, FilesFrame DEF MediaInv, MediaTypeOK, FilesTypeOK
<1>5. MediaTypeOK'
  BY <1>1, <1>3, <1>4, RequestTypes DEF MediaInv, MediaTypeOK, MigrationTypeOK
<1>6. PostsInv'
  BY <1>1, <1>3, UnplannedKeeps DEF Deleting, At
<1> QED BY <1>4, <1>5, <1>6 DEF MediaInv

LEMMA CommandDiesKeeps ==
  ASSUME MediaInv, CommandDies
  PROVE  MediaInv'
<1>1. {Migrator} \in SUBSET Procs
  BY DEF Procs
<1>2. UNCHANGED <<files, lost, posts, text, requests>> /\ plan' = NoPlan
  BY DEF CommandDies, Dies
<1>3. /\ FilesTypeOK' /\ OpTypeOK' /\ FilesInv'
      /\ \A q \in Procs : op'[q] = IF q \in {Migrator} THEN NoOp ELSE op[q]
  BY <1>1, DiesKeeps DEF MediaInv, CommandDies
<1>4. PostsInv'
  BY <1>2, <1>3, NoPlanFacts, UnplannedKeeps DEF Deleting, NoOp, Unplanned
<1>5. MediaTypeOK'
  BY <1>2, <1>3, NoPlanFacts DEF MediaInv, MediaTypeOK, MigrationTypeOK
<1> QED BY <1>3, <1>4, <1>5 DEF MediaInv

\* The migration goes on, and nothing else.
LEMMA MigrationFrame ==
  ASSUME MediaInv, UNCHANGED <<files, rows, suspect, op, text, requests>>,
         Fault \/ UNCHANGED faults, lost' \in SUBSET Names,
         plan' \in Plan, posts' \in [Posts -> SUBSET Names], PostsInv'
  PROVE  MediaInv'
<1>1. FilesTypeOK' /\ OpTypeOK' /\ FilesInv'
  BY FilesFrame DEF MediaInv
<1> QED BY <1>1 DEF MediaInv, MediaTypeOK, MigrationTypeOK

LEMMA DiscoverKeeps ==
  ASSUME MediaInv, NEW originals \in SUBSET Names, Discover(originals), UNCHANGED <<text, requests>>
  PROVE  MediaInv'
<1> DEFINE others == Compressed(originals)
           pairs == Pairs(originals)
<1>1. /\ UNCHANGED <<files, rows, faults, suspect, lost, op, posts>>
      /\ originals \subseteq Candidates /\ Phase("discover")
      /\ plan' = IF originals = {} THEN NoPlan
                 ELSE [NoPlan EXCEPT !.at = "optimize", !.originals = originals,
                         !.others = others, !.pairs = pairs]
  BY DEF Discover, optVars, fileVars
<1>2. Candidates \subseteq files /\ files \subseteq Names
  BY DEF Candidates, MediaInv, MediaTypeOK, FilesTypeOK
<1>3. others \subseteq Names /\ others \cap originals = {}
  <2> SUFFICES ASSUME NEW n \in others PROVE n \in Names /\ n \notin originals
    OBVIOUS
  <2>1. PICK o \in originals : n \in Group(o)
    BY DEF Compressed
  <2> QED BY <1>2, <2>1 DEF Compressed, Group
<1>4. \A n \in others : OriginalOf(n, originals) \in originals
  BY DEF Compressed, OriginalOf
<1>5. /\ pairs \subseteq Replacement /\ {pair.from : pair \in pairs} = others
      /\ \A pair \in pairs : pair.to \in originals
  <2>1. pairs = {[from |-> n, to |-> OriginalOf(n, originals)] : n \in others}
    BY DEF Pairs
  <2> HIDE DEF others, pairs
  <2>2. ASSUME NEW pair \in pairs
        PROVE  pair \in Replacement /\ pair.from \in others /\ pair.to \in originals
    <3>1. PICK n \in others : pair = [from |-> n, to |-> OriginalOf(n, originals)]
      BY <2>1
    <3> QED BY <1>1, <1>2, <1>3, <1>4, <3>1 DEF Replacement
  <2>3. ASSUME NEW n \in others PROVE \E pair \in pairs : pair.from = n
    <3>1. [from |-> n, to |-> OriginalOf(n, originals)] \in pairs
      BY <2>1
    <3> QED BY <3>1
  <2> QED BY <2>2, <2>3
<1> HIDE DEF others, pairs
<1>6. lost' \in SUBSET Names /\ posts' \in [Posts -> SUBSET Names]
  BY <1>1 DEF MediaInv, MediaTypeOK, FilesTypeOK, MigrationTypeOK
<1>7. CASE originals = {}
  <2>1. \A p \in Procs : Deleting(p) /\ p = Migrator => op[p].name \in lost
    BY <1>1 DEF MediaInv, PostsInv, DeletedIsKnown, Phase
  <2>2. PostsInv'
    BY <1>1, <1>7, <2>1, NoPlanFacts, UnplannedKeeps DEF Deleting, Unplanned
  <2> QED BY <1>1, <1>6, <1>7, <2>2, NoPlanFacts, MigrationFrame
<1>8. CASE originals # {}
  <2>1. /\ plan' \in Plan /\ plan'.at = "optimize" /\ plan'.others = others /\ plan'.pairs = pairs
        /\ plan'.pair = None
    BY <1>1, <1>3, <1>5, <1>8 DEF NoPlan, Plan
  <2>2. Doomed' = {}
    BY <1>5, <2>1 DEF Doomed, Phase
  <2>3. DeletedIsKnown'
    BY <1>1 DEF MediaInv, PostsInv, DeletedIsKnown, Deleting, Phase
  <2>4. PlanShaped'
    BY <2>1 DEF PlanShaped, Phase
  <2>5. TargetsStay'
    BY <1>1, <1>2, <1>3, <1>5, <2>1 DEF TargetsStay
  <2>6. DoomedIsUnused' /\ CopyResolves'
    BY <2>1, <2>2 DEF DoomedIsUnused, CopyResolves, Phase
  <2>7. ReferencesResolve'
    BY <1>1 DEF MediaInv, PostsInv, ReferencesResolve
  <2>8. PostsInv'
    BY <2>3, <2>4, <2>5, <2>6, <2>7 DEF PostsInv
  <2> QED BY <1>1, <1>6, <2>1, <2>8, MigrationFrame
<1> QED BY <1>7, <1>8

LEMMA OptimizeNextKeeps ==
  ASSUME MediaInv, NEW o \in Names, OptimizeNext(o), UNCHANGED <<text, requests>>
  PROVE  MediaInv'
<1>1. /\ Phase("optimize") /\ Begins(Migrator, "list", o) /\ Migrator \in Procs
      /\ plan' = [plan EXCEPT !.originals = @ \ {o}]
      /\ UNCHANGED <<files, rows, faults, lost, posts>>
  BY DEF OptimizeNext, Optimizes, Procs
<1>2. /\ plan' \in Plan /\ plan'.at = "optimize" /\ plan'.others = plan.others
      /\ plan'.pairs = plan.pairs /\ plan'.pair = plan.pair
  BY <1>1, PlanFacts DEF MediaInv, Plan, Phase
<1>3. /\ FilesTypeOK' /\ OpTypeOK' /\ FilesInv' /\ op'[Migrator].at = "list"
      /\ \A q \in Procs \ {Migrator} : op'[q] = op[q]
  BY <1>1, BeginsKeeps DEF MediaInv, MediaTypeOK, FilesTypeOK
<1>4. MediaTypeOK'
  BY <1>1, <1>2, <1>3 DEF MediaInv, MediaTypeOK, MigrationTypeOK
<1>5. Doomed' = Doomed
  BY <1>1, <1>2 DEF Doomed, Phase
<1>6. DeletedIsKnown'
  BY <1>1, <1>2, <1>3 DEF MediaInv, PostsInv, DeletedIsKnown, Deleting, Phase
<1>7. PlanShaped' /\ TargetsStay'
  BY <1>1, <1>2 DEF MediaInv, PostsInv, PlanShaped, TargetsStay, Phase
<1>8. DoomedIsUnused'
  BY <1>1, <1>2, <1>5 DEF MediaInv, PostsInv, DoomedIsUnused, Awaits, Phase
<1>9. CopyResolves'
  BY <1>2 DEF CopyResolves, Phase
<1>10. ReferencesResolve'
  BY <1>1 DEF MediaInv, PostsInv, ReferencesResolve
<1> QED BY <1>3, <1>4, <1>6, <1>7, <1>8, <1>9, <1>10 DEF MediaInv, PostsInv

\* The plan goes from one phase to the next.
LEMMA PhaseKeeps ==
  ASSUME MediaInv, EndOptimize \/ NextPair \/ EndReplace, UNCHANGED <<text, requests>>
  PROVE  MediaInv'
<1>1. UNCHANGED <<files, rows, faults, suspect, lost, op, posts, text, requests>>
  BY DEF EndOptimize, NextPair, EndReplace, optVars, fileVars
<1>2. /\ plan' \in Plan /\ plan'.others = plan.others /\ plan'.pairs = plan.pairs
      /\ plan'.pair = None /\ plan'.at \in {"replace", "delete"}
      /\ Alone
      /\ plan'.at = "delete" => plan.pairs = {} /\ plan.pair = None
      /\ \A post \in Posts, n \in Names : ~Awaits(post, n)
  BY PlanFacts DEF EndOptimize, NextPair, EndReplace, Plan, Phase, MediaInv, PostsInv, PlanShaped, Awaits
<1>3. Doomed' \subseteq Doomed
  BY <1>1, <1>2 DEF Doomed, Phase, Alone, At
<1>4. Doomed \subseteq Names
  BY PlanFacts DEF Doomed, MediaInv
<1>5. DeletedIsKnown'
  BY <1>1, <1>2 DEF MediaInv, PostsInv, DeletedIsKnown, Deleting, Phase, Alone, At
<1>6. PlanShaped'
  BY <1>1, <1>2 DEF PlanShaped, Phase, Alone, At
<1>7. TargetsStay'
  BY <1>1, <1>2 DEF MediaInv, PostsInv, TargetsStay
<1>8. DoomedIsUnused'
  BY <1>1, <1>2, <1>3, <1>4 DEF MediaInv, PostsInv, DoomedIsUnused
<1>9. CopyResolves'
  BY <1>2 DEF CopyResolves, Phase
<1>10. ReferencesResolve'
  BY <1>1 DEF MediaInv, PostsInv, ReferencesResolve
<1>11. PostsInv'
  BY <1>5, <1>6, <1>7, <1>8, <1>9, <1>10 DEF PostsInv
<1>12. lost' \in SUBSET Names /\ posts' \in [Posts -> SUBSET Names]
  BY <1>1 DEF MediaInv, MediaTypeOK, FilesTypeOK, MigrationTypeOK
<1> QED BY <1>1, <1>2, <1>11, <1>12, MigrationFrame

LEMMA FindPostsKeeps ==
  ASSUME MediaInv, NEW pair \in Replacement, FindPosts(pair), UNCHANGED <<text, requests>>
  PROVE  MediaInv'
<1>1. /\ plan.at = "replace" /\ pair \in plan.pairs /\ plan.pair = None /\ Alone
      /\ UNCHANGED <<files, rows, suspect, op, posts>> /\ pair \in Replacement
      /\ pair.from \in Names
  BY DEF FindPosts, MediaInv, PostsInv, PlanShaped, Phase, Replacement
<1>2. \/ /\ plan'.at = "posts" /\ plan'.pair = pair /\ plan'.found = PostsUsing(pair.from)
         /\ UNCHANGED <<faults, lost>>
      \/ plan'.at = "replace" /\ plan'.pair = None /\ Fault /\ lost' = lost \cup {pair.from}
  BY <1>1, PlanFacts DEF FindPosts, MediaInv, Plan, Phase, Succeeds, Fails
<1>3. plan'.others = plan.others /\ plan'.pairs = plan.pairs \ {pair} /\ plan' \in Plan
  <2>1. PostsUsing(pair.from) \subseteq Posts
    BY DEF PostsUsing
  <2>2. CASE plan' = [plan EXCEPT !.at = "posts", !.pairs = @ \ {pair}, !.pair = pair,
                                  !.found = PostsUsing(pair.from)]
    BY <1>1, <2>1, <2>2, PlanFacts DEF MediaInv, Plan
  <2>3. CASE plan' = [plan EXCEPT !.pairs = @ \ {pair}]
    BY <1>1, <2>3, PlanFacts DEF MediaInv, Plan
  <2> QED BY <2>2, <2>3 DEF FindPosts
<1>4. Doomed' \subseteq Doomed \cup {pair.from} /\ lost \subseteq lost'
  BY <1>1, <1>2, <1>3 DEF Doomed, Phase, Alone, At
<1>5. DeletedIsKnown'
  BY <1>1, <1>4 DEF MediaInv, PostsInv, DeletedIsKnown, Deleting, Phase
<1>6. PlanShaped'
  BY <1>1, <1>2, <1>3 DEF PlanShaped, Phase, Alone, At
<1>7. TargetsStay'
  BY <1>1, <1>2, <1>3, <1>4 DEF MediaInv, PostsInv, TargetsStay
<1>8. DoomedIsUnused'
  <2> SUFFICES ASSUME NEW post \in Posts, NEW n \in Doomed', n \in posts[post], n \notin lost'
               PROVE  Awaits(post, n)'
    BY <1>1 DEF DoomedIsUnused
  <2>1. ~Awaits(post, n)
    BY <1>1 DEF Awaits
  <2>2. n = pair.from
    BY <1>4, <2>1 DEF MediaInv, PostsInv, DoomedIsUnused
  <2> QED BY <1>2, <2>2 DEF Awaits, PostsUsing
<1>9. CopyResolves'
  BY <1>2 DEF CopyResolves, Phase
<1>10. ReferencesResolve'
  BY <1>1, <1>4 DEF MediaInv, PostsInv, ReferencesResolve
<1>11. PostsInv'
  BY <1>5, <1>6, <1>7, <1>8, <1>9, <1>10 DEF PostsInv
<1>12. lost' \in SUBSET Names /\ posts' \in [Posts -> SUBSET Names] /\ (Fault \/ UNCHANGED faults)
  BY <1>1, <1>2 DEF MediaInv, MediaTypeOK, FilesTypeOK, MigrationTypeOK
<1> QED BY <1>1, <1>3, <1>11, <1>12, MigrationFrame

LEMMA LoadPostKeeps ==
  ASSUME MediaInv, NEW post \in Posts, LoadPost(post), UNCHANGED <<text, requests>>
  PROVE  MediaInv'
<1> DEFINE pair == plan.pair
           uses == pair.from \in posts[post]
<1>1. /\ plan.at = "posts" /\ post \in plan.found /\ Alone
      /\ UNCHANGED <<files, rows, suspect, op, posts>> /\ pair \in Replacement /\ pair.from \in Names
  BY PlanFacts DEF LoadPost, MediaInv, PostsInv, PlanShaped, Phase, Replacement
<1>2. /\ plan'.others = plan.others /\ plan'.pairs = plan.pairs /\ plan'.pair = pair
      /\ plan'.found = plan.found \ {post} /\ plan' \in Plan
      /\ \/ /\ uses /\ plan'.at = "save" /\ plan'.post = post /\ plan'.copy = posts[post]
            /\ UNCHANGED <<faults, lost>>
         \/ ~uses /\ plan'.at = "posts" /\ UNCHANGED <<faults, lost>>
         \/ plan'.at = "posts" /\ Fault /\ lost' = lost \cup {pair.from}
  <2>1. posts[post] \subseteq Names
    BY DEF MediaInv, MediaTypeOK, MigrationTypeOK
  <2>2. CASE /\ plan' = [plan EXCEPT !.at = IF uses THEN "save" ELSE "posts",
                            !.found = @ \ {post},
                            !.post = IF uses THEN post ELSE None,
                            !.copy = IF uses THEN posts[post] ELSE {}]
             /\ Succeeds
    <3>1. CASE uses
      BY <1>1, <2>1, <2>2, <3>1, PlanFacts DEF MediaInv, Plan, Succeeds
    <3>2. CASE ~uses
      BY <1>1, <2>1, <2>2, <3>2, PlanFacts DEF MediaInv, Plan, Succeeds
    <3> QED BY <3>1, <3>2
  <2>3. CASE plan' = [plan EXCEPT !.found = @ \ {post}] /\ Fails(pair.from)
    BY <1>1, <2>3, PlanFacts DEF MediaInv, Plan, Fails
  <2> QED BY <2>2, <2>3 DEF LoadPost
<1> HIDE DEF pair
<1>3. Doomed' = Doomed /\ lost \subseteq lost'
  BY <1>1, <1>2 DEF Doomed, Phase, Alone, At
<1>4. DeletedIsKnown'
  BY <1>1, <1>3 DEF MediaInv, PostsInv, DeletedIsKnown, Deleting, Phase
<1>5. PlanShaped'
  BY <1>1, <1>2 DEF PlanShaped, Phase, Alone, At
<1>6. TargetsStay'
  BY <1>1, <1>2, <1>3 DEF MediaInv, PostsInv, TargetsStay, pair
<1>7. DoomedIsUnused'
  <2> SUFFICES ASSUME NEW other \in Posts, NEW n \in Doomed, n \in posts[other], n \notin lost'
               PROVE  Awaits(other, n)'
    BY <1>1, <1>3 DEF DoomedIsUnused
  <2>1. n = pair.from /\ other \in plan.found
    BY <1>1, <1>3 DEF MediaInv, PostsInv, DoomedIsUnused, Awaits, pair, Phase
  <2> QED BY <1>2, <2>1 DEF Awaits, Phase
<1>8. CopyResolves'
  <2> SUFFICES ASSUME plan'.at = "save"
               PROVE  /\ plan'.copy \subseteq files' \cup lost'
                      /\ \A n \in plan'.copy \cap Doomed' : n \in lost' \/ n = plan'.pair.from
    BY DEF CopyResolves, Phase
  <2>1. plan'.copy = posts[post] /\ plan'.pair = pair /\ UNCHANGED lost
    BY <1>2
  <2>2. posts[post] \subseteq files \cup lost
    BY DEF MediaInv, PostsInv, ReferencesResolve
  <2>3. \A n \in posts[post] \cap Doomed : n \in lost \/ n = pair.from
    BY DEF MediaInv, PostsInv, DoomedIsUnused, Awaits, pair
  <2> QED BY <1>1, <1>3, <2>1, <2>2, <2>3
<1>9. ReferencesResolve'
  BY <1>1, <1>3 DEF MediaInv, PostsInv, ReferencesResolve
<1>10. PostsInv'
  BY <1>4, <1>5, <1>6, <1>7, <1>8, <1>9 DEF PostsInv
<1>11. lost' \in SUBSET Names /\ posts' \in [Posts -> SUBSET Names] /\ (Fault \/ UNCHANGED faults)
  BY <1>1, <1>2 DEF MediaInv, MediaTypeOK, FilesTypeOK, MigrationTypeOK
<1> QED BY <1>1, <1>2, <1>10, <1>11, MigrationFrame

LEMMA ReplaceReferencesKeeps ==
  ASSUME MediaInv, ReplaceReferences, UNCHANGED <<text, requests>>
  PROVE  MediaInv'
<1> DEFINE pair == plan.pair
           refs == Replaced(plan.copy, pair)
<1>1. /\ plan.at = "save" /\ Alone /\ plan.post \in Posts
      /\ UNCHANGED <<files, rows, suspect, op>> /\ pair \in Replacement
      /\ pair.from \in Names /\ pair.to \in Names
      /\ plan' = [plan EXCEPT !.at = "posts", !.post = None, !.copy = {}]
      /\ \/ posts' = [posts EXCEPT ![plan.post] = refs] /\ Succeeds
         \/ UNCHANGED posts /\ Fails(pair.from)
  BY PlanFacts DEF ReplaceReferences, MediaInv, PostsInv, PlanShaped, Phase, Replacement
<1>2. /\ plan'.others = plan.others /\ plan'.pairs = plan.pairs /\ plan'.pair = pair
      /\ plan'.found = plan.found /\ plan' \in Plan /\ plan'.at = "posts"
  BY <1>1, PlanFacts DEF MediaInv, Plan
<1>3. refs = (plan.copy \ {pair.from}) \cup {pair.to} /\ refs \subseteq Names
  BY <1>1, PlanFacts DEF MediaInv, Replaced
<1>4. /\ pair.to \in files \cup lost /\ pair.to \notin plan.others
      /\ plan.copy \subseteq files \cup lost
      /\ \A n \in plan.copy \cap Doomed : n \in lost \/ n = pair.from
  BY <1>1 DEF MediaInv, PostsInv, TargetsStay, CopyResolves, Phase
<1> HIDE DEF pair, refs
<1>5. Doomed' = Doomed /\ Doomed \subseteq plan.others /\ lost \subseteq lost'
  BY <1>1, <1>2 DEF Doomed, Phase, Alone, At, Succeeds, Fails
<1>6. /\ \A post \in Posts \ {plan.post} : posts'[post] = posts[post]
      /\ \/ posts'[plan.post] = refs
         \/ posts'[plan.post] = posts[plan.post] /\ pair.from \in lost'
  BY <1>1 DEF MediaInv, MediaTypeOK, MigrationTypeOK, Fails
<1>7. DeletedIsKnown'
  BY <1>1, <1>5 DEF MediaInv, PostsInv, DeletedIsKnown, Deleting, Phase
<1>8. PlanShaped'
  BY <1>1, <1>2 DEF PlanShaped, Phase, Alone, At
<1>9. TargetsStay'
  BY <1>1, <1>2, <1>5 DEF MediaInv, PostsInv, TargetsStay, pair
<1>10. DoomedIsUnused'
  <2> SUFFICES ASSUME NEW post \in Posts, NEW n \in Doomed, n \in posts'[post], n \notin lost'
               PROVE  Awaits(post, n)'
    BY <1>5 DEF DoomedIsUnused
  <2>1. n \notin refs
    BY <1>3, <1>4, <1>5
  <2>2. n \in posts[post]
    BY <1>6, <2>1
  <2>3. n = pair.from /\ (post \in plan.found \/ post = plan.post)
    BY <1>5, <2>2 DEF MediaInv, PostsInv, DoomedIsUnused, Awaits, pair
  <2>4. post # plan.post
    BY <1>6, <2>1, <2>3
  <2> QED BY <1>2, <2>3, <2>4 DEF Awaits
<1>11. CopyResolves'
  BY <1>2 DEF CopyResolves, Phase
<1>12. ReferencesResolve'
  BY <1>1, <1>3, <1>4, <1>5, <1>6 DEF MediaInv, PostsInv, ReferencesResolve
<1>13. PostsInv'
  BY <1>7, <1>8, <1>9, <1>10, <1>11, <1>12 DEF PostsInv
<1>14. lost' \in SUBSET Names /\ posts' \in [Posts -> SUBSET Names] /\ (Fault \/ UNCHANGED faults)
  BY <1>1, <1>3 DEF MediaInv, MediaTypeOK, FilesTypeOK, MigrationTypeOK, Succeeds, Fails
<1> QED BY <1>1, <1>2, <1>13, <1>14, MigrationFrame

LEMMA DeleteNextKeeps ==
  ASSUME MediaInv, NEW name \in Names, DeleteNext(name), UNCHANGED <<text, requests>>
  PROVE  MediaInv'
<1>1. /\ plan.at = "delete" /\ Begins(Migrator, "isVariant", name) /\ Migrator \in Procs
      /\ Alone /\ name \in plan.others
      /\ plan' = [plan EXCEPT !.others = @ \ {name}]
      /\ UNCHANGED <<files, rows, faults, lost, posts>>
  BY DEF DeleteNext, Deletes, Procs, Phase
<1>2. /\ plan' \in Plan /\ plan'.at = "delete" /\ plan'.others = plan.others \ {name}
      /\ plan'.pairs = plan.pairs /\ plan'.pair = plan.pair /\ plan.pairs = {} /\ plan.pair = None
  BY <1>1, PlanFacts DEF MediaInv, Plan, PostsInv, PlanShaped
<1>3. /\ FilesTypeOK' /\ OpTypeOK' /\ FilesInv' /\ op'[Migrator].name = name
      /\ \A q \in Procs \ {Migrator} : op'[q] = op[q]
  BY <1>1, BeginsKeeps DEF MediaInv, MediaTypeOK, FilesTypeOK
<1>4. MediaTypeOK'
  BY <1>1, <1>2, <1>3 DEF MediaInv, MediaTypeOK, MigrationTypeOK
<1>5. Doomed' \subseteq Doomed
  BY <1>1, <1>2, <1>3 DEF Doomed, Phase
<1>6. DeletedIsKnown'
  BY <1>1, <1>2, <1>3 DEF MediaInv, PostsInv, DeletedIsKnown, Deleting, Phase
<1>7. PlanShaped' /\ TargetsStay'
  BY <1>1, <1>2 DEF MediaInv, PostsInv, PlanShaped, TargetsStay, Phase
<1>8. DoomedIsUnused'
  BY <1>1, <1>2, <1>5 DEF MediaInv, PostsInv, DoomedIsUnused, Awaits, Phase
<1>9. CopyResolves'
  BY <1>2 DEF CopyResolves, Phase
<1>10. ReferencesResolve'
  BY <1>1 DEF MediaInv, PostsInv, ReferencesResolve
<1> QED BY <1>3, <1>4, <1>6, <1>7, <1>8, <1>9, <1>10 DEF MediaInv, PostsInv

LEMMA EndMigrationKeeps ==
  ASSUME MediaInv, EndMigration, UNCHANGED <<text, requests>>
  PROVE  MediaInv'
<1>1. /\ UNCHANGED <<files, rows, faults, suspect, lost, op, posts>> /\ plan' = NoPlan
      /\ op[Migrator].at = "idle"
  BY DEF EndMigration, optVars, fileVars, Alone, At
<1>2. PostsInv'
  BY <1>1, NoPlanFacts, UnplannedKeeps DEF Deleting, Unplanned
<1>3. lost' \in SUBSET Names /\ posts' \in [Posts -> SUBSET Names]
  BY <1>1 DEF MediaInv, MediaTypeOK, FilesTypeOK, MigrationTypeOK
<1> QED BY <1>1, <1>2, <1>3, NoPlanFacts, MigrationFrame

-----------------------------------------------------------------------------
(***************************************************************************)
(* Theorems.                                                               *)
(***************************************************************************)
LEMMA MediaInitially == MediaInit => MediaInv
<1> SUFFICES ASSUME MediaInit PROVE MediaInv
  OBVIOUS
<1>1. \A p \in Procs : op[p].at = "idle" /\ op[p].saved = {} /\ NoOp \in Operation
  BY DEF MediaInit, OpInit, NoOp, Operation
<1>2. MediaTypeOK
  BY <1>1, NoPlanFacts, FilesAssumption, MediaAssumption
     DEF MediaInit, FilesInit, OpInit, MediaTypeOK, FilesTypeOK, OpTypeOK, MigrationTypeOK
<1>3. FilesInv
  BY <1>1 DEF MediaInit, FilesInit, FilesInv, Shaped, Apart, RowsHaveFiles, FilesHaveRows, Cleared, Saved,
     Unnamed, Unlisted, Clears, Busy, At
<1>4. PostsInv
  <2>1. Doomed = {}
    BY NoPlanFacts DEF MediaInit, Doomed, Phase
  <2>2. DeletedIsKnown /\ PlanShaped /\ TargetsStay
    BY <1>1, NoPlanFacts DEF MediaInit, DeletedIsKnown, PlanShaped, TargetsStay, Deleting, Phase
  <2>3. DoomedIsUnused /\ CopyResolves /\ ReferencesResolve
    BY <2>1, NoPlanFacts DEF MediaInit, DoomedIsUnused, CopyResolves, ReferencesResolve, Phase
  <2> QED BY <2>2, <2>3 DEF PostsInv
<1> QED BY <1>2, <1>3, <1>4 DEF MediaInv

LEMMA MediaInductive == MediaInv /\ [MediaNext]_mediaVars => MediaInv'
<1> SUFFICES ASSUME MediaInv, [MediaNext]_mediaVars PROVE MediaInv'
  OBVIOUS
<1>1. CASE UNCHANGED mediaVars
  BY <1>1, StutterKeeps
<1>2. CASE Requests
  <2>1. Images \subseteq Names
    BY FilesAssumption
  <2> QED BY <1>2, <2>1, RequestsKeep, OpenEditorKeeps, SaveTextKeeps, StartKeeps DEF Requests
<1>3. CASE \E p \in Procs : OptimizationStep(p) /\ UNCHANGED <<posts, plan, text, requests>>
  BY <1>3, OptimizationStepKeeps
<1>4. CASE MigrationStep /\ UNCHANGED <<text, requests>>
  BY <1>4, DiscoverKeeps, OptimizeNextKeeps, PhaseKeeps, FindPostsKeeps, LoadPostKeeps, ReplaceReferencesKeeps,
     DeleteNextKeeps, EndMigrationKeeps DEF MigrationStep
<1>5. CASE ServerDies \/ CommandDies
  BY <1>5, ServerDiesKeeps, CommandDiesKeeps
<1> QED BY <1>1, <1>2, <1>3, <1>4, <1>5 DEF MediaNext

THEOREM MediaInvariance == MediaSpec => []MediaInv
<1> QED BY MediaInitially, MediaInductive, PTL DEF MediaSpec

\* When nothing runs, every row names two files that are there, and every variant that is
\* there has a row, except those an operation failed on, met another on, or left behind.
THEOREM RowsMatchFiles == MediaSpec => []FilesMatchRows
<1>1. MediaInv => FilesMatchRows
  <2> SUFFICES ASSUME MediaInv, \A p \in Procs : At(p, "idle")
               PROVE  /\ \A r \in rows : {r.optimized, r.original} \subseteq files \cup suspect
                      /\ \A v \in files \ Images : ByOptimized(v) # {} \/ v \in suspect
    BY DEF FilesMatchRows, Quiet
  <2> QED BY DEF MediaInv, FilesInv, RowsHaveFiles, FilesHaveRows, Clears, At
<1> QED BY <1>1, MediaInvariance, PTL

\* At no moment, whatever dies, does a post refer to a file that is gone, unless the file was
\* deleted on request or with another image, or its replacement failed or came too late.
THEOREM PostsShowFiles == MediaSpec => []ReferencesResolve
<1>1. MediaInv => ReferencesResolve
  BY DEF MediaInv, PostsInv
<1> QED BY <1>1, MediaInvariance, PTL
=============================================================================
