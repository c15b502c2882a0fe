---------------------------- MODULE Planner_proofs ----------------------------
(***************************************************************************)
(* What buildChecksForDomains returns, for contracts of any size.  The     *)
(* lists of the collectors are sections: no ID twice, each check alone or  *)
(* behind another of its entry.  A preflight in front of a section, and    *)
(* sections after one another, keep that no ID occurs twice and that every *)
(* check waits for lower ones of the list only.                            *)
(***************************************************************************)
EXTENDS Planner, SequenceTheorems, FiniteSetTheorems, WellFoundedInduction, TLAPS

-----------------------------------------------------------------------------
\* What holds at 1, and goes on from each place to the next, holds up to n.
LEMMA UpTo ==
  ASSUME NEW n \in Nat, NEW T, 1 \in T, \A i \in 1..n : i \in T => i + 1 \in T
  PROVE  1..n \subseteq T
<1> DEFINE Misses == {i \in Nat : i \in 1..n /\ i \notin T}
<1> SUFFICES ASSUME Misses # {} PROVE FALSE
  OBVIOUS
<1>1. PICK m \in Misses : \A i \in Misses : <<i, m>> \notin OpToRel(<, Nat)
  BY NatLessThanWellFounded, WFMin, Zenon
<1>2. m \in Nat /\ m \in 1..n /\ m \notin T /\ m # 1
  BY <1>1
<1>3. m - 1 \in 1..n /\ m - 1 \in Nat /\ m - 1 < m
  BY <1>2
<1>4. m - 1 \notin Misses
  BY <1>1, <1>2, <1>3 DEF OpToRel
<1>5. (m - 1) + 1 \in T
  BY <1>3, <1>4
<1> QED
  BY <1>2, <1>5

\* A set of numbers with a bound has a largest member.
LEMMA MaxFacts ==
  ASSUME NEW n \in Nat, NEW S \in SUBSET (0..n), S # {}
  PROVE  Max(S) \in S /\ \A i \in S : i <= Max(S)
<1> DEFINE Room == {n - i : i \in S}
<1>1. Room \subseteq Nat /\ Room # {}
  <2>1. \A i \in S : i \in 0..n
    OBVIOUS
  <2>2. \A i \in 0..n : n - i \in Nat
    OBVIOUS
  <2> QED
    BY <2>1, <2>2
<1>2. PICK m \in Room : \A k \in Room : <<k, m>> \notin OpToRel(<, Nat)
  BY <1>1, NatLessThanWellFounded, WFMin, Zenon
<1>3. \A k \in Room : m \in Nat /\ k \in Nat /\ ~(k < m)
  BY <1>1, <1>2 DEF OpToRel
<1>4. PICK i \in S : m = n - i
  BY <1>2
<1>5. \A j \in S : i >= j
  <2> SUFFICES ASSUME NEW j \in S PROVE i >= j
    OBVIOUS
  <2>1. n - j \in Room
    OBVIOUS
  <2> HIDE DEF Room
  <2>2. ~(n - j < m)
    BY <1>3, <2>1
  <2>3. i \in Nat /\ j \in Nat /\ m = n - i
    BY <1>4
  <2> QED
    BY <2>2, <2>3
<1>6. \A j \in S : i \in Nat /\ j \in Nat
  OBVIOUS
<1>7. Max(S) \in S /\ \A j \in S : Max(S) >= j
  BY <1>5 DEF Max
<1> QED
  BY <1>6, <1>7

-----------------------------------------------------------------------------
(* Sequences of checks *)

\* No two places of a list have the same ID.
Distinct(list) == \A i, j \in 1..Len(list) : list[i].id = list[j].id => i = j
Apart(one, other) == \A a \in ToSet(one), b \in ToSet(other) : a.id # b.id

LEMMA MemberOf == ASSUME NEW T, NEW s \in Seq(T)
                  PROVE  /\ ToSet(s) = {s[i] : i \in 1..Len(s)} /\ ToSet(s) \subseteq T
                         /\ s = <<>> <=> ToSet(s) = {}
BY DEF ToSet

LEMMA ConcatFacts ==
  ASSUME NEW T, NEW a \in Seq(T), NEW b \in Seq(T)
  PROVE  /\ a \o b \in Seq(T)
         /\ ToSet(a \o b) = ToSet(a) \union ToSet(b)
         /\ Distinct(a) /\ Distinct(b) /\ Apart(a, b) => Distinct(a \o b)
<1> DEFINE c == a \o b
<1>1. /\ c \in Seq(T) /\ Len(c) = Len(a) + Len(b) /\ Len(a) \in Nat /\ Len(b) \in Nat
      /\ \A i \in 1..Len(a) : c[i] = a[i]
      /\ \A i \in 1..Len(b) : c[Len(a) + i] = b[i]
      /\ \A i \in 1..Len(c) : IF i <= Len(a) THEN i \in 1..Len(a) /\ c[i] = a[i]
                              ELSE i - Len(a) \in 1..Len(b) /\ c[i] = b[i - Len(a)]
  BY ConcatProperties
<1> HIDE DEF c
<1>2. /\ ToSet(c) = {c[i] : i \in 1..Len(c)} /\ ToSet(a) = {a[i] : i \in 1..Len(a)}
      /\ ToSet(b) = {b[i] : i \in 1..Len(b)}
  BY <1>1, MemberOf
<1>3. ASSUME NEW x \in ToSet(c) PROVE x \in ToSet(a) \union ToSet(b)
  BY <1>1, <1>2
<1>4. ASSUME NEW x \in ToSet(a) PROVE x \in ToSet(c)
  <2>1. PICK i \in 1..Len(a) : x = a[i]
    BY <1>2
  <2>2. i \in 1..Len(c) /\ c[i] = x
    BY <1>1, <2>1
  <2> QED
    BY <1>2, <2>2
<1>5. ASSUME NEW x \in ToSet(b) PROVE x \in ToSet(c)
  <2>1. PICK i \in 1..Len(b) : x = b[i]
    BY <1>2
  <2>2. Len(a) + i \in 1..Len(c) /\ c[Len(a) + i] = x
    BY <1>1, <2>1
  <2> QED
    BY <1>2, <2>2
<1>6. ASSUME Distinct(a), Distinct(b), Apart(a, b),
             NEW i \in 1..Len(c), NEW j \in 1..Len(c), c[i].id = c[j].id
      PROVE  i = j
  <2>1. CASE i <= Len(a) /\ j <= Len(a)
    BY <1>1, <1>6, <2>1 DEF Distinct
  <2>2. CASE ~(i <= Len(a)) /\ ~(j <= Len(a))
    <3>1. PICK k \in 1..Len(b), l \in 1..Len(b) :
             k = i - Len(a) /\ l = j - Len(a) /\ c[i] = b[k] /\ c[j] = b[l]
      BY <1>1, <2>2
    <3>2. k = l
      BY <1>6, <3>1 DEF Distinct
    <3> QED
      BY <1>1, <3>1, <3>2
  <2>3. ASSUME NEW k \in 1..Len(c), NEW l \in 1..Len(c), k <= Len(a), ~(l <= Len(a))
        PROVE  c[k].id # c[l].id
    <3>1. c[k] \in ToSet(a)
      BY <1>1, <1>2, <2>3
    <3>2. c[l] \in ToSet(b)
      BY <1>1, <1>2, <2>3
    <3> QED
      BY <1>6, <3>1, <3>2 DEF Apart
  <2> QED
    BY <1>6, <2>1, <2>2, <2>3
<1> QED
  BY <1>1, <1>3, <1>4, <1>5, <1>6 DEF c, Distinct

LEMMA OneMore == \A i \in Nat : 1..(i + 1) = 1..i \union {i + 1}
OBVIOUS

\* FlattenSeq appends one sequence after the other.
Appends(f, ss, m) ==
    /\ f[1] = ss[1]
    /\ \A i \in 1..m : i + 1 \in 1..m => f[i + 1] = f[i] \o ss[i + 1]

LEMMA AppendsExists ==
  ASSUME NEW T, NEW n \in Nat, n # 0, NEW ss \in [1..n -> Seq(T)]
  PROVE  \E f \in [1..n -> Seq(T)] : Appends(f, ss, n)
<1> DEFINE Reached == {m \in Nat : m > n \/ \E f \in [1..m -> Seq(T)] : Appends(f, ss, m)}
<1>1. 1 \in Reached
  <2> DEFINE f == [i \in 1..1 |-> ss[1]]
  <2>1. f \in [1..1 -> Seq(T)] /\ f[1] = ss[1]
    OBVIOUS
  <2> HIDE DEF f
  <2>2. Appends(f, ss, 1)
    BY <2>1 DEF Appends
  <2> QED
    BY <2>1, <2>2
<1>2. ASSUME NEW m \in 1..n, m \in Reached PROVE m + 1 \in Reached
  <2>1. CASE m = n
    BY <2>1
  <2>2. CASE m # n
    <3>1. PICK f \in [1..m -> Seq(T)] : Appends(f, ss, m)
      BY <1>2
    <3> DEFINE last == f[m] \o ss[m + 1]
               g == [i \in 1..(m + 1) |-> IF i = m + 1 THEN last ELSE f[i]]
    <3>2. m \in Nat /\ m + 1 \in 1..n /\ last \in Seq(T)
      BY <2>2, <3>1, ConcatProperties
    <3> HIDE DEF last
    <3>3. g \in [1..(m + 1) -> Seq(T)]
      BY <3>1, <3>2
    <3>4. g[m + 1] = last /\ \A i \in 1..m : g[i] = f[i]
      BY <3>2
    <3> HIDE DEF g
    <3>5. ASSUME NEW i \in 1..(m + 1), i + 1 \in 1..(m + 1) PROVE g[i + 1] = g[i] \o ss[i + 1]
      <4>1. CASE i = m
        <5>1. g[i + 1] = last /\ g[i] = f[m] /\ ss[i + 1] = ss[m + 1]
          BY <3>2, <3>4, <4>1
        <5> QED
          BY <5>1 DEF last
      <4>2. CASE i # m
        <5>1. i \in 1..m /\ i + 1 \in 1..m
          BY <3>2, <3>5, <4>2
        <5> QED
          BY <3>1, <3>4, <5>1 DEF Appends
      <4> QED
        BY <4>1, <4>2
    <3>6. g[1] = ss[1]
      BY <3>1, <3>2, <3>4 DEF Appends
    <3>7. Appends(g, ss, m + 1)
      BY <3>5, <3>6 DEF Appends
    <3> QED
      BY <3>2, <3>3, <3>7
  <2> QED
    BY <2>1, <2>2
<1> HIDE DEF Reached
<1>3. 1..n \subseteq Reached
  BY <1>1, <1>2, UpTo
<1>4. n \in 1..n
  OBVIOUS
<1> QED
  BY <1>3, <1>4 DEF Reached

LEMMA FlattenSteps ==
  ASSUME NEW T, NEW n \in Nat, n # 0, NEW ss \in [1..n -> Seq(T)]
  PROVE  \E f \in [1..n -> Seq(T)] : Appends(f, ss, n) /\ FlattenSeq(ss) = f[n]
<1> DEFINE Step(f) == [i \in 1..n |-> IF i = 1 THEN ss[i] ELSE f[i - 1] \o ss[i]]
           flatten == CHOOSE f : f = Step(f)
<1>1. \E f : f = Step(f)
  <2>1. PICK f \in [1..n -> Seq(T)] : Appends(f, ss, n)
    BY AppendsExists
  <2>2. ASSUME NEW i \in 1..n PROVE f[i] = Step(f)[i]
    <3>1. CASE i = 1
      BY <2>1, <3>1 DEF Appends
    <3>2. CASE i # 1
      <4>1. i - 1 \in 1..n /\ (i - 1) + 1 = i
        BY <3>2
      <4>2. f[i] = f[i - 1] \o ss[i]
        BY <2>1, <4>1 DEF Appends
      <4> QED
        BY <3>2, <4>2
    <3> QED
      BY <3>1, <3>2
  <2>3. DOMAIN f = 1..n /\ DOMAIN Step(f) = 1..n
    BY <2>1
  <2>4. f = [i \in 1..n |-> f[i]] /\ Step(f) = [i \in 1..n |-> Step(f)[i]]
    BY <2>1
  <2> HIDE DEF Step
  <2>5. f = Step(f)
    BY <2>2, <2>4
  <2> QED
    BY <2>5
<1>2. flatten = Step(flatten)
  <2> HIDE DEF Step
  <2> QED
    BY <1>1
<1>3. FlattenSeq(ss) = flatten[n]
  <2>1. Len(ss) = n
    OBVIOUS
  <2> QED
    BY <2>1 DEF FlattenSeq
<1> HIDE DEF flatten
<1>4. ASSUME NEW i \in 1..n PROVE flatten[i] = IF i = 1 THEN ss[i] ELSE flatten[i - 1] \o ss[i]
  BY <1>2
<1>5. Appends(flatten, ss, n)
  <2>1. flatten[1] = ss[1]
    BY <1>4
  <2>2. ASSUME NEW i \in 1..n, i + 1 \in 1..n PROVE flatten[i + 1] = flatten[i] \o ss[i + 1]
    <3>1. i + 1 # 1 /\ (i + 1) - 1 = i
      OBVIOUS
    <3> QED
      BY <1>4, <2>2, <3>1
  <2> QED
    BY <2>1, <2>2 DEF Appends
<1>6. \A i \in 1..n : flatten[i] \in Seq(T)
  <2> DEFINE Typed == {i \in Nat : i > n \/ flatten[i] \in Seq(T)}
  <2>1. 1 \in Typed
    BY <1>5 DEF Appends
  <2>2. ASSUME NEW i \in 1..n, i \in Typed PROVE i + 1 \in Typed
    <3>1. CASE i = n
      BY <3>1
    <3>2. CASE i # n
      <4>1. i \in Nat /\ i + 1 \in 1..n /\ flatten[i] \in Seq(T) /\ ss[i + 1] \in Seq(T)
        BY <2>2, <3>2
      <4>2. flatten[i + 1] = flatten[i] \o ss[i + 1]
        BY <1>5, <4>1 DEF Appends
      <4>3. flatten[i + 1] \in Seq(T)
        BY <4>1, <4>2, ConcatProperties
      <4> QED
        BY <4>1, <4>3
    <3> QED
      BY <3>1, <3>2
  <2> HIDE DEF Typed
  <2>3. 1..n \subseteq Typed
    BY <2>1, <2>2, UpTo
  <2> QED
    BY <2>3 DEF Typed
<1>7. flatten \in [1..n -> Seq(T)]
  <2>1. flatten = [i \in 1..n |-> flatten[i]]
    BY <1>2
  <2> QED
    BY <1>6, <2>1
<1> QED
  BY <1>3, <1>5, <1>7

\* What the sequence made of others has: their members, and each ID once if they do.
LEMMA FlattenFacts ==
  ASSUME NEW T, NEW n \in Nat, NEW ss \in [1..n -> Seq(T)]
  PROVE  /\ FlattenSeq(ss) \in Seq(T)
         /\ ToSet(FlattenSeq(ss)) = UNION {ToSet(ss[i]) : i \in 1..n}
         /\ (/\ \A i \in 1..n : Distinct(ss[i])
             /\ \A i, j \in 1..n : i # j => Apart(ss[i], ss[j])) => Distinct(FlattenSeq(ss))
<1>1. CASE n = 0
  <2>1. Len(ss) = 0 /\ ss = <<>>
    BY <1>1
  <2>2. FlattenSeq(ss) = <<>>
    BY <2>1 DEF FlattenSeq
  <2> QED
    BY <1>1, <2>2 DEF ToSet, Distinct
<1>2. CASE n # 0
  <2>1. PICK f \in [1..n -> Seq(T)] : Appends(f, ss, n) /\ FlattenSeq(ss) = f[n]
    BY <1>2, FlattenSteps
  <2> DEFINE upto(i) == UNION {ToSet(ss[k]) : k \in 1..i}
             Each == /\ \A i \in 1..n : Distinct(ss[i])
                     /\ \A i, j \in 1..n : i # j => Apart(ss[i], ss[j])
             Holds(i) == ToSet(f[i]) = upto(i) /\ (Each => Distinct(f[i]))
             Fine == {i \in Nat : i > n \/ Holds(i)}
  <2>2. 1 \in Fine
    <3>1. upto(1) = ToSet(ss[1]) /\ f[1] = ss[1]
      BY <2>1 DEF Appends
    <3>2. 1 \in 1..n
      BY <1>2
    <3> QED
      BY <3>1, <3>2
  <2>3. ASSUME NEW i \in 1..n, i \in Fine PROVE i + 1 \in Fine
    <3>1. CASE i = n
      BY <3>1
    <3>2. CASE i # n
      <4>1. i \in Nat /\ i + 1 \in 1..n /\ Holds(i) /\ f[i] \in Seq(T) /\ ss[i + 1] \in Seq(T)
        <5>1. i \in Nat /\ i + 1 \in 1..n /\ ~(i > n)
          BY <3>2
        <5> HIDE DEF Holds
        <5>2. Holds(i)
          BY <2>3, <5>1
        <5> QED
          BY <5>1, <5>2
      <4>2. f[i + 1] = f[i] \o ss[i + 1]
        BY <2>1, <4>1 DEF Appends
      <4>3. ToSet(f[i + 1]) = ToSet(f[i]) \union ToSet(ss[i + 1])
        <5> DEFINE one == f[i]
                   next == ss[i + 1]
        <5>1. one \in Seq(T) /\ next \in Seq(T) /\ f[i + 1] = one \o next
          BY <4>1, <4>2
        <5> HIDE DEF one, next
        <5>2. ToSet(one \o next) = ToSet(one) \union ToSet(next)
          BY <5>1, ConcatFacts
        <5> QED
          BY <5>1, <5>2 DEF one, next
      <4>4. upto(i + 1) = upto(i) \union ToSet(ss[i + 1])
        <5>1. 1..(i + 1) = 1..i \union {i + 1}
          BY <4>1, OneMore
        <5> QED
          BY <5>1, Zenon
      <4>5. ASSUME Each PROVE Apart(f[i], ss[i + 1])
        <5> SUFFICES ASSUME NEW a \in ToSet(f[i]), NEW b \in ToSet(ss[i + 1]) PROVE a.id # b.id
          BY DEF Apart
        <5>1. PICK k \in 1..i : a \in ToSet(ss[k])
          BY <4>1
        <5>2. k \in 1..n /\ k # i + 1
          BY <4>1, <5>1
        <5>3. Apart(ss[k], ss[i + 1])
          BY <4>1, <4>5, <5>2
        <5> QED
          BY <5>1, <5>3 DEF Apart
      <4>6. Each => Distinct(f[i + 1])
        BY <4>1, <4>2, <4>5, ConcatFacts
      <4> HIDE DEF upto, Each
      <4>7. Holds(i + 1)
        BY <4>1, <4>3, <4>4, <4>6
      <4> HIDE DEF Holds
      <4> QED
        BY <4>1, <4>7
    <3> QED
      BY <3>1, <3>2
  <2> HIDE DEF Fine
  <2>4. 1..n \subseteq Fine
    BY <2>2, <2>3, UpTo
  <2>5. n \in 1..n
    BY <1>2
  <2> HIDE DEF Holds
  <2>6. Holds(n)
    BY <2>4, <2>5 DEF Fine
  <2>7. FlattenSeq(ss) \in Seq(T)
    BY <2>1, <2>5
  <2> QED
    BY <2>1, <2>6, <2>7 DEF Holds
<1> QED
  BY <1>1, <1>2

-----------------------------------------------------------------------------
(* The keys of a map *)

\* A set of numbers has an enumeration in increasing order.
LEMMA Enumerated ==
  ASSUME NEW D \in SUBSET Nat, IsFiniteSet(D)
  PROVE  \E keys \in [1..Cardinality(D) -> D] :
           /\ \A i, j \in 1..Cardinality(D) : i < j => keys[i] < keys[j]
<1> DEFINE n == Cardinality(D)
           below(d) == {e \in D : e <= d}
           rank == [d \in D |-> Cardinality(below(d))]
<1>1. n \in Nat
  BY FS_CardinalityType
<1>2. ASSUME NEW d \in D PROVE IsFiniteSet(below(d)) /\ rank[d] \in 1..n
  <2>1. IsFiniteSet(below(d)) /\ Cardinality(below(d)) <= n
    BY FS_Subset
  <2>2. below(d) # {}
    OBVIOUS
  <2>3. Cardinality(below(d)) \in Nat /\ Cardinality(below(d)) # 0
    BY <2>1, <2>2, FS_CardinalityType, FS_EmptySet
  <2> HIDE DEF below
  <2> QED
    BY <1>1, <2>1, <2>3
<1>3. ASSUME NEW d \in D, NEW e \in D, d < e PROVE rank[d] < rank[e]
  <2>1. below(d) \subseteq below(e)
    <3> SUFFICES ASSUME NEW x \in D, x <= d PROVE x <= e
      OBVIOUS
    <3>1. x \in Nat /\ d \in Nat /\ e \in Nat
      OBVIOUS
    <3> QED
      BY <1>3, <3>1
  <2>2. e \in below(e) /\ e \notin below(d)
    BY <1>3
  <2>3. Cardinality(below(d)) < Cardinality(below(e))
    <3>1. /\ IsFiniteSet(below(e)) /\ IsFiniteSet(below(d))
          /\ below(d) \subseteq below(e) /\ below(d) # below(e)
      BY <1>2, <2>1, <2>2
    <3> HIDE DEF below
    <3>2. /\ Cardinality(below(d)) <= Cardinality(below(e))
          /\ Cardinality(below(d)) = Cardinality(below(e)) => below(d) = below(e)
      BY <3>1, FS_Subset
    <3>3. Cardinality(below(d)) \in Nat /\ Cardinality(below(e)) \in Nat
      BY <3>1, FS_CardinalityType
    <3> QED
      BY <3>1, <3>2, <3>3
  <2> QED
    BY <2>3
<1> HIDE DEF rank
<1>4. rank \in [D -> 1..n]
  <2>1. rank = [d \in D |-> rank[d]]
    BY DEF rank
  <2> QED
    BY <1>2, <2>1
<1>5. \A d, e \in D : rank[d] = rank[e] => d = e
  <2> SUFFICES ASSUME NEW d \in D, NEW e \in D, rank[d] = rank[e], d # e PROVE FALSE
    OBVIOUS
  <2>1. d < e \/ e < d
    OBVIOUS
  <2>2. rank[d] \in Nat /\ rank[e] \in Nat
    BY <1>4
  <2> QED
    BY <1>3, <2>1, <2>2
<1>6. rank \in Surjection(D, 1..n)
  <2>1. rank \in Injection(D, 1..n)
    BY <1>4, <1>5 DEF Injection, IsInjective
  <2>2. IsFiniteSet(1..n) /\ Cardinality(1..n) = n
    BY <1>1, FS_Interval
  <2> QED
    BY <2>1, <2>2, FS_Injection
<1>7. \A i \in 1..n : \E d \in D : rank[d] = i
  BY <1>6 DEF Surjection
<1> DEFINE keys == [i \in 1..n |-> CHOOSE d \in D : rank[d] = i]
<1>8. \A i \in 1..n : keys[i] \in D /\ rank[keys[i]] = i
  BY <1>7
<1>9. keys \in [1..n -> D]
  BY <1>8
<1> HIDE DEF keys
<1>10. ASSUME NEW i \in 1..n, NEW j \in 1..n, i < j PROVE keys[i] < keys[j]
  <2>1. keys[i] \in Nat /\ keys[j] \in Nat
    BY <1>9
  <2>2. ~(keys[j] < keys[i]) /\ keys[i] # keys[j]
    <3>1. rank[keys[i]] = i /\ rank[keys[j]] = j /\ keys[i] \in D /\ keys[j] \in D
      BY <1>8
    <3>2. keys[j] < keys[i] => rank[keys[j]] < rank[keys[i]]
      BY <1>3, <3>1
    <3>3. ~(j < i) /\ i # j
      BY <1>1, <1>10
    <3> QED
      BY <3>1, <3>2, <3>3
  <2> QED
    BY <2>1, <2>2
<1> QED
  BY <1>9, <1>10

\* Keys has every key once.
LEMMA KeysFacts ==
  ASSUME NEW entries, Listed(entries)
  PROVE  LET n == Cardinality(DOMAIN entries)
         IN  /\ n \in Nat /\ Keys(entries) \in [1..n -> DOMAIN entries]
             /\ \A i, j \in 1..n : i # j => Keys(entries)[i] # Keys(entries)[j]
             /\ \A k \in DOMAIN entries : \E i \in 1..n : Keys(entries)[i] = k
<1> DEFINE D == DOMAIN entries
           n == Cardinality(D)
           keys == Keys(entries)
           Increasing(ks) == \A i, j \in DOMAIN ks : i < j => ks[i] < ks[j]
<1>1. D \in SUBSET Nat /\ IsFiniteSet(D) /\ n \in Nat
  BY FS_CardinalityType DEF Listed
<1>2. \E ks \in [1..n -> D] : Increasing(ks)
  <2>1. PICK ks \in [1..n -> D] : \A i, j \in 1..n : i < j => ks[i] < ks[j]
    BY <1>1, Enumerated
  <2> QED
    BY <2>1
<1>3. keys \in [1..n -> D] /\ Increasing(keys)
  <2>1. keys = CHOOSE ks \in [1..n -> D] : Increasing(ks)
    BY DEF Keys
  <2> HIDE DEF keys, Increasing
  <2> QED
    BY <1>2, <2>1
<1> HIDE DEF keys
<1>4. ASSUME NEW i \in 1..n, NEW j \in 1..n, i # j PROVE keys[i] # keys[j]
  <2>1. i < j \/ j < i
    BY <1>1, <1>4
  <2>2. keys[i] < keys[j] \/ keys[j] < keys[i]
    BY <1>3, <2>1
  <2>3. keys[i] \in Nat /\ keys[j] \in Nat
    BY <1>1, <1>3
  <2> QED
    BY <2>2, <2>3
<1>5. keys \in Surjection(1..n, D)
  <2>1. keys \in Injection(1..n, D)
    BY <1>3, <1>4 DEF Injection, IsInjective
  <2>2. Cardinality(1..n) = Cardinality(D)
    BY <1>1, FS_Interval
  <2> QED
    BY <1>1, <2>1, <2>2, FS_Injection
<1> QED
  BY <1>1, <1>3, <1>4, <1>5 DEF Surjection, keys

\* The entries of a map, one after the other.
LEMMA FlattenedFacts ==
  ASSUME NEW T, NEW of, Listed(of), of \in [DOMAIN of -> Seq(T)]
  PROVE  /\ Flattened(of) \in Seq(T)
         /\ ToSet(Flattened(of)) = UNION {ToSet(of[k]) : k \in DOMAIN of}
         /\ (/\ \A k \in DOMAIN of : Distinct(of[k])
             /\ \A k, l \in DOMAIN of : k # l => Apart(of[k], of[l])) => Distinct(Flattened(of))
<1> DEFINE n == Cardinality(DOMAIN of)
           keys == Keys(of)
           ss == [i \in 1..n |-> of[keys[i]]]
<1>1. /\ n \in Nat /\ keys \in [1..n -> DOMAIN of]
      /\ \A i, j \in 1..n : i # j => keys[i] # keys[j]
      /\ \A k \in DOMAIN of : \E i \in 1..n : keys[i] = k
  BY KeysFacts
<1>2. Flattened(of) = FlattenSeq(ss)
  <2>1. Len(keys) = n
    BY <1>1
  <2> QED
    BY <2>1 DEF Flattened
<1> HIDE DEF n, keys
<1>3. ss \in [1..n -> Seq(T)] /\ \A i \in 1..n : ss[i] = of[keys[i]] /\ keys[i] \in DOMAIN of
  BY <1>1
<1> HIDE DEF ss
<1>4. UNION {ToSet(ss[i]) : i \in 1..n} = UNION {ToSet(of[k]) : k \in DOMAIN of}
  <2>1. {ToSet(ss[i]) : i \in 1..n} = {ToSet(of[k]) : k \in DOMAIN of}
    BY <1>1, <1>3
  <2> QED
    BY <2>1
<1>5. ASSUME \A k \in DOMAIN of : Distinct(of[k]),
             \A k, l \in DOMAIN of : k # l => Apart(of[k], of[l])
      PROVE  /\ \A i \in 1..n : Distinct(ss[i])
             /\ \A i, j \in 1..n : i # j => Apart(ss[i], ss[j])
  BY <1>1, <1>3, <1>5
<1>6. /\ FlattenSeq(ss) \in Seq(T)
      /\ ToSet(FlattenSeq(ss)) = UNION {ToSet(ss[i]) : i \in 1..n}
      /\ (/\ \A i \in 1..n : Distinct(ss[i])
          /\ \A i, j \in 1..n : i # j => Apart(ss[i], ss[j])) => Distinct(FlattenSeq(ss))
  BY <1>1, <1>3, FlattenFacts
<1> QED
  BY <1>2, <1>4, <1>5, <1>6

-----------------------------------------------------------------------------
(* The checks of an entry *)

\* The provers do not know that a string is one; hence the list.
Text == STRING \union
    {"identity", "path", "service", "socket", "namespace", "exists", "state", "any", "active",
     "inactive", "failed",
     "type", "mode", "owner", "group", "restart", "run_as.user", "run_as.group",
     "capabilities", "uid", "gid", "capabilities.effective", "capabilities.permitted",
     "capabilities.inheritable", "capabilities.bounding", "capabilities.ambient"}
IDType == [domain : Text, name : Nat, kind : Text]
PlannedType == [id : IDType, prereqs : Seq(IDType), expects : Text]

LEMMA PlannedFacts ==
  ASSUME NEW id \in IDType, NEW prereqs \in Seq(IDType)
  PROVE  /\ Planned(id, prereqs) \in PlannedType
         /\ Planned(id, prereqs).id = id /\ Planned(id, prereqs).prereqs = prereqs
<1>1. "any" \in Text
  BY DEF Text
<1>2. Planned(id, prereqs) = [id |-> id, prereqs |-> prereqs, expects |-> "any"]
  BY DEF Planned
<1>3. Planned(id, prereqs) \in PlannedType
  BY <1>1, <1>2 DEF PlannedType
<1> QED
  BY <1>2, <1>3

LEMMA IDFacts ==
  ASSUME NEW domain \in Text, NEW name \in Nat, NEW kind \in Text
  PROVE  /\ ID(domain, name, kind) \in IDType
         /\ ID(domain, name, kind).domain = domain /\ ID(domain, name, kind).name = name
         /\ ID(domain, name, kind).kind = kind
BY DEF ID, IDType

LEMMA StateFacts ==
  ASSUME NEW service \in Nat, NEW state \in Text
  PROVE  LET c == PlannedState(service, state)
         IN  /\ c \in PlannedType /\ c.id = ID("service", service, "state")
             /\ c.prereqs = <<>> /\ c.expects = state
<1> DEFINE id == ID("service", service, "state")
<1>1. "service" \in Text /\ "state" \in Text
  BY DEF Text
<1>2. id \in IDType
  BY <1>1, IDFacts
<1>3. PlannedState(service, state) = [id |-> id, prereqs |-> <<>>, expects |-> state]
  BY DEF PlannedState
<1> HIDE DEF id
<1>4. <<>> \in Seq(IDType)
  OBVIOUS
<1>5. PlannedState(service, state) \in PlannedType
  BY <1>2, <1>3, <1>4 DEF PlannedType
<1> QED
  BY <1>3, <1>5 DEF id

LEMMA ChosenFacts ==
  ASSUME NEW T, NEW offered \in Seq(T), NEW asks
  PROVE  /\ Chosen(offered, asks) \in Seq(T)
         /\ ToSet(Chosen(offered, asks)) = {c \in ToSet(offered) : c.id.kind \in asks}
         /\ Distinct(offered) => Distinct(Chosen(offered, asks))
<1> DEFINE n == Len(offered)
           ss == [k \in 1..n |-> IF offered[k].id.kind \in asks THEN <<offered[k]>> ELSE <<>>]
<1>1. n \in Nat /\ \A k \in 1..n : offered[k] \in T
  OBVIOUS
<1>2. Chosen(offered, asks) = FlattenSeq(ss)
  BY DEF Chosen
<1>3. ss \in [1..n -> Seq(T)]
  BY <1>1
<1>4. \A k \in 1..n : /\ offered[k].id.kind \in asks => ss[k] = <<offered[k]>>
                      /\ offered[k].id.kind \notin asks => ss[k] = <<>>
  OBVIOUS
<1>5. ToSet(offered) = {offered[k] : k \in 1..n}
  BY MemberOf
<1>6. Distinct(offered) => \A i, j \in 1..n : offered[i].id = offered[j].id => i = j
  BY DEF Distinct
<1> HIDE DEF n, ss
<1>7. \A k \in 1..n : ToSet(ss[k]) = IF offered[k].id.kind \in asks THEN {offered[k]} ELSE {}
  BY <1>4 DEF ToSet
<1>8. UNION {ToSet(ss[k]) : k \in 1..n} = {c \in ToSet(offered) : c.id.kind \in asks}
  <2>1. ASSUME NEW x \in UNION {ToSet(ss[k]) : k \in 1..n}
        PROVE  x \in ToSet(offered) /\ x.id.kind \in asks
    <3>1. PICK k \in 1..n : x \in ToSet(ss[k])
      OBVIOUS
    <3> QED
      BY <1>5, <1>7, <3>1
  <2>2. ASSUME NEW x \in ToSet(offered), x.id.kind \in asks
        PROVE  x \in UNION {ToSet(ss[k]) : k \in 1..n}
    <3>1. PICK k \in 1..n : x = offered[k]
      BY <1>5
    <3>2. x \in ToSet(ss[k])
      BY <1>7, <2>2, <3>1
    <3> QED
      BY <3>2
  <2> QED
    BY <2>1, <2>2
<1>9. \A k \in 1..n : Distinct(ss[k])
  BY <1>4 DEF Distinct
<1>10. ASSUME Distinct(offered), NEW j \in 1..n, NEW k \in 1..n, j # k PROVE Apart(ss[j], ss[k])
  BY <1>6, <1>7, <1>10 DEF Apart
<1>11. /\ FlattenSeq(ss) \in Seq(T)
       /\ ToSet(FlattenSeq(ss)) = UNION {ToSet(ss[k]) : k \in 1..n}
       /\ (/\ \A i \in 1..n : Distinct(ss[i])
           /\ \A i, j \in 1..n : i # j => Apart(ss[i], ss[j])) => Distinct(FlattenSeq(ss))
  BY <1>1, <1>3, FlattenFacts
<1> QED
  BY <1>2, <1>8, <1>9, <1>10, <1>11

\* Kinds are asked for once each.
Once(kinds) == kinds \in Seq(Text) /\ \A j, k \in 1..Len(kinds) : kinds[j] = kinds[k] => j = k

\* What an entry may ask for, in the order the builder looks for it.
Offer(domain, name, kinds, prereqs) ==
    [k \in 1..Len(kinds) |-> Planned(ID(domain, name, kinds[k]), prereqs)]

\* What of it is asked for.
Taken(domain, name, kinds, prereqs, asks) ==
    {Planned(ID(domain, name, k), prereqs) : k \in ToSet(kinds) \cap asks}

LEMMA OfferFacts ==
  ASSUME NEW domain \in Text, NEW name \in Nat, NEW kinds, Once(kinds),
         NEW prereqs \in Seq(IDType), NEW asks
  PROVE  LET offer == Offer(domain, name, kinds, prereqs)
         IN  /\ Chosen(offer, asks) \in Seq(PlannedType)
             /\ Distinct(Chosen(offer, asks))
             /\ ToSet(Chosen(offer, asks)) = Taken(domain, name, kinds, prereqs, asks)
<1> DEFINE offer == Offer(domain, name, kinds, prereqs)
           check(k) == Planned(ID(domain, name, k), prereqs)
<1>1. ASSUME NEW k \in Text
      PROVE  check(k) \in PlannedType /\ check(k).id.kind = k
  <2> DEFINE id == ID(domain, name, k)
  <2>1. id \in IDType /\ id.kind = k
    BY IDFacts
  <2> HIDE DEF id
  <2>2. Planned(id, prereqs) \in PlannedType /\ Planned(id, prereqs).id = id
    BY <2>1, PlannedFacts
  <2> QED
    BY <2>1, <2>2 DEF id
<1>2. /\ kinds \in Seq(Text) /\ Len(kinds) \in Nat
      /\ \A j, k \in 1..Len(kinds) : kinds[j] = kinds[k] => j = k
      /\ \A k \in 1..Len(kinds) : kinds[k] \in Text
  BY DEF Once
<1>3. offer = [k \in 1..Len(kinds) |-> check(kinds[k])]
  BY DEF Offer
<1> HIDE DEF offer, check
<1>4. /\ offer \in Seq(PlannedType) /\ Len(offer) = Len(kinds)
      /\ \A k \in 1..Len(kinds) : offer[k] = check(kinds[k])
  BY <1>1, <1>2, <1>3
<1>5. ToSet(offer) = {check(k) : k \in ToSet(kinds)}
  <2>1. ToSet(offer) = {offer[k] : k \in 1..Len(kinds)}
    BY <1>4, MemberOf
  <2>2. ToSet(kinds) = {kinds[k] : k \in 1..Len(kinds)}
    BY <1>2, MemberOf
  <2> QED
    BY <1>4, <2>1, <2>2
<1>6. Distinct(offer)
  <2> SUFFICES ASSUME NEW i \in 1..Len(kinds), NEW j \in 1..Len(kinds), offer[i].id = offer[j].id
               PROVE  i = j
    BY <1>4 DEF Distinct
  <2>1. check(kinds[i]).id.kind = kinds[i] /\ check(kinds[j]).id.kind = kinds[j]
    BY <1>1, <1>2
  <2>2. kinds[i] = kinds[j]
    BY <1>4, <2>1
  <2> QED
    BY <1>2, <2>2
<1>7. /\ Chosen(offer, asks) \in Seq(PlannedType)
      /\ ToSet(Chosen(offer, asks)) = {c \in ToSet(offer) : c.id.kind \in asks}
      /\ Distinct(Chosen(offer, asks))
  BY <1>4, <1>6, ChosenFacts
<1>8. {c \in ToSet(offer) : c.id.kind \in asks} = {check(k) : k \in ToSet(kinds) \cap asks}
  <2>1. ToSet(kinds) \subseteq Text
    BY <1>2, MemberOf
  <2> QED
    BY <1>1, <1>5, <2>1
<1> QED
  BY <1>7, <1>8 DEF offer, check, Taken

LEMMA EntryFacts ==
  ASSUME NEW first \in PlannedType, NEW kinds, Once(kinds), first.id.kind \notin ToSet(kinds),
         NEW asks
  PROVE  LET id == first.id
         IN  /\ Entry(first, kinds, asks) \in Seq(PlannedType)
             /\ Distinct(Entry(first, kinds, asks))
             /\ ToSet(Entry(first, kinds, asks)) = {first} \union
                  {Planned(ID(id.domain, id.name, k), <<id>>) : k \in ToSet(kinds) \cap asks}
<1> DEFINE id == first.id
           d == id.domain
           n == id.name
           waits == <<id>>
           offer == Offer(d, n, kinds, waits)
           rest == Chosen(offer, asks)
           alone == <<first>>
<1>1. /\ id \in IDType /\ d \in Text /\ n \in Nat
      /\ waits \in Seq(IDType) /\ ToSet(kinds) \subseteq Text
  BY MemberOf DEF PlannedType, IDType, Once
<1>2. Entry(first, kinds, asks) = alone \o rest
  <2>1. ASSUME NEW k \in 1..Len(kinds)
        PROVE  [first.id EXCEPT !.kind = kinds[k]] = ID(d, n, kinds[k])
    BY DEF ID, PlannedType, IDType
  <2> QED
    BY <2>1 DEF Entry, Offer
<1> HIDE DEF d, n, waits
<1>3. /\ rest \in Seq(PlannedType)
      /\ Distinct(rest)
      /\ ToSet(rest) = {Planned(ID(d, n, k), waits) : k \in ToSet(kinds) \cap asks}
  <2>1. /\ rest \in Seq(PlannedType) /\ Distinct(rest)
        /\ ToSet(rest) = Taken(d, n, kinds, waits, asks)
    BY <1>1, OfferFacts
  <2> QED
    BY <2>1 DEF Taken
<1> HIDE DEF rest
<1>4. alone \in Seq(PlannedType) /\ ToSet(alone) = {first} /\ Distinct(alone)
  BY DEF ToSet, Distinct
<1> HIDE DEF alone
<1>5. Apart(alone, rest)
  <2> SUFFICES ASSUME NEW k \in ToSet(kinds) \cap asks
               PROVE  first.id # Planned(ID(d, n, k), waits).id
    BY <1>3, <1>4 DEF Apart
  <2> DEFINE other == ID(d, n, k)
  <2>1. k \in Text /\ k # id.kind
    BY <1>1
  <2>2. other \in IDType /\ other.kind = k
    BY <1>1, <2>1, IDFacts
  <2> HIDE DEF other
  <2>3. Planned(other, waits).id = other
    BY <1>1, <2>2, PlannedFacts
  <2> QED
    BY <2>1, <2>2, <2>3 DEF other
<1>6. /\ alone \o rest \in Seq(PlannedType)
      /\ Distinct(alone \o rest)
      /\ ToSet(alone \o rest) = {first} \union ToSet(rest)
  BY <1>3, <1>4, <1>5, ConcatFacts
<1> QED
  BY <1>2, <1>3, <1>6 DEF d, n, waits

-----------------------------------------------------------------------------
(* The sections of a plan *)

\* How far a check is from those that wait for nothing.
Level(id) == CASE id.kind = "namespace" -> 0
               [] id.kind # "namespace" /\ id.domain = "identity" -> 3
               [] id.kind # "namespace" /\ id.domain # "identity" ->
                    IF id.kind \in {"exists", "state"} THEN 1 ELSE 2

\* The checks of one collector: none twice, and each alone or behind a lower one of them.
Section(list, domain) ==
    /\ list \in Seq(PlannedType) /\ Distinct(list)
    /\ \A c \in ToSet(list) :
         /\ c.id.domain = domain /\ c.id.kind # "namespace"
         /\ \/ c.prereqs = <<>>
            \/ \E r \in ToSet(list) : c.prereqs = <<r.id>> /\ Level(r.id) < Level(c.id)

IDsOf(list) == {c.id : c \in ToSet(list)}

\* One entry after the other, and the checks of one that wait for its first.
EntryLists(D, first, kinds, asks) == Flattened([s \in D |-> Entry(first[s], kinds, asks[s])])
Waiting(domain, s, kind0, kinds) ==
    {Planned(ID(domain, s, k), <<ID(domain, s, kind0)>>) : k \in kinds}

EntryMembers(domain, kind0, D, first, kinds, asks) ==
    UNION {{first[s]} \union Waiting(domain, s, kind0, ToSet(kinds) \cap asks[s]) : s \in D}

\* The IDs of what the entries ask for.
AskedIDs(domain, kind0, D, asks) ==
    UNION {{ID(domain, s, k) : k \in {kind0} \union asks[s]} : s \in D}

\* Each entry has a name of its own, and a first check of another kind than it may ask for.
Headed(domain, kind0, D, first, kinds) ==
    /\ domain \in Text /\ kind0 \in Text /\ Once(kinds) /\ kind0 \notin ToSet(kinds)
    /\ D \subseteq Nat /\ IsFiniteSet(D)
    /\ first \in [D -> PlannedType] /\ \A s \in D : first[s].id = ID(domain, s, kind0)

\* The first check of each, and those asked for.
LEMMA EntriesFacts ==
  ASSUME NEW domain, NEW kind0, NEW D, NEW first, NEW kinds, NEW asks,
         Headed(domain, kind0, D, first, kinds)
  PROVE  LET list == EntryLists(D, first, kinds, asks)
         IN  /\ list \in Seq(PlannedType) /\ Distinct(list)
             /\ ToSet(list) = EntryMembers(domain, kind0, D, first, kinds, asks)
<1> DEFINE of == [s \in D |-> Entry(first[s], kinds, asks[s])]
           rest(s) == Waiting(domain, s, kind0, ToSet(kinds) \cap asks[s])
<1> /\ domain \in Text /\ kind0 \in Text /\ Once(kinds) /\ kind0 \notin ToSet(kinds)
    /\ D \subseteq Nat /\ IsFiniteSet(D)
    /\ first \in [D -> PlannedType] /\ \A s \in D : first[s].id = ID(domain, s, kind0)
  BY DEF Headed
<1>1. ASSUME NEW s \in D
      PROVE  /\ of[s] \in Seq(PlannedType) /\ Distinct(of[s])
             /\ ToSet(of[s]) = {first[s]} \union rest(s)
  <2> DEFINE f == first[s]
             id == f.id
             entry == Entry(f, kinds, asks[s])
  <2>1. f \in PlannedType /\ id.kind = kind0 /\ id.domain = domain /\ id.name = s
        /\ id = ID(domain, s, kind0)
    <3> DEFINE x == ID(domain, s, kind0)
    <3>1. f \in PlannedType /\ id = x /\ s \in Nat
      OBVIOUS
    <3>2. x.kind = kind0 /\ x.domain = domain /\ x.name = s
      BY <3>1, IDFacts
    <3> QED
      BY <3>1, <3>2
  <2>2. of[s] = entry
    OBVIOUS
  <2> HIDE DEF f
  <2>3. /\ entry \in Seq(PlannedType)
        /\ Distinct(entry)
        /\ ToSet(entry) = {f} \union
             {Planned(ID(id.domain, id.name, k), <<id>>) : k \in ToSet(kinds) \cap asks[s]}
    BY <2>1, EntryFacts
  <2> HIDE DEF entry
  <2> QED
    BY <2>1, <2>2, <2>3 DEF f, Waiting
<1>2. ASSUME NEW s \in D, NEW c \in {first[s]} \union rest(s) PROVE c.id.name = s
  <2>1. CASE c = first[s]
    <3>1. first[s].id = ID(domain, s, kind0)
      OBVIOUS
    <3> HIDE DEF rest
    <3> QED
      BY <2>1, <3>1 DEF ID
  <2>2. CASE c \in rest(s)
    <3> DEFINE waits == <<ID(domain, s, kind0)>>
    <3>1. PICK k \in ToSet(kinds) \cap asks[s] : c = Planned(ID(domain, s, k), waits)
      BY <2>2 DEF Waiting
    <3>2. ID(domain, s, kind0) \in IDType /\ k \in Text
      BY IDFacts, MemberOf DEF Once
    <3>3. waits \in Seq(IDType)
      BY <3>2
    <3> DEFINE id == ID(domain, s, k)
    <3>4. id \in IDType /\ id.name = s
      BY <3>2, IDFacts
    <3> HIDE DEF waits, id
    <3>5. Planned(id, waits).id = id
      BY <3>3, <3>4, PlannedFacts
    <3> QED
      BY <3>1, <3>4, <3>5 DEF id
  <2> QED
    BY <2>1, <2>2
<1>3. DOMAIN of = D /\ of \in [DOMAIN of -> Seq(PlannedType)] /\ Listed(of)
  <2>1. DOMAIN of = D /\ of = [s \in D |-> of[s]]
    OBVIOUS
  <2> HIDE DEF of
  <2> QED
    BY <1>1, <2>1 DEF Listed
<1> HIDE DEF of, rest
<1>4. \A k, l \in DOMAIN of : k # l => Apart(of[k], of[l])
  <2> SUFFICES ASSUME NEW k \in D, NEW l \in D, k # l,
                      NEW a \in ToSet(of[k]), NEW b \in ToSet(of[l])
               PROVE  a.id # b.id
    BY <1>3 DEF Apart
  <2>1. a.id.name = k /\ b.id.name = l
    BY <1>1, <1>2
  <2> QED
    BY <2>1
<1>5. /\ Flattened(of) \in Seq(PlannedType)
      /\ ToSet(Flattened(of)) = UNION {ToSet(of[k]) : k \in DOMAIN of}
      /\ Distinct(Flattened(of))
  <2>1. \A k \in DOMAIN of : Distinct(of[k])
    BY <1>1, <1>3
  <2> QED
    BY <1>3, <1>4, <2>1, FlattenedFacts
<1>6. {ToSet(of[k]) : k \in DOMAIN of} = {{first[s]} \union rest(s) : s \in D}
  BY <1>1, <1>3
<1> QED
  BY <1>5, <1>6 DEF of, rest, EntryLists, EntryMembers

IsFirst(c, D, first) == \E s \in D : c = first[s]

\* Such a list is a section, and holds the checks that are asked for.
LEMMA EntriesSection ==
  ASSUME NEW domain, NEW kind0, NEW D, NEW first, NEW kinds, NEW asks,
         Headed(domain, kind0, D, first, kinds),
         \A s \in D : first[s].prereqs = <<>>,
         kind0 \in {"exists", "state"}, domain # "identity",
         ToSet(kinds) \cap {"namespace", "exists", "state"} = {},
         \A s \in D : asks[s] \subseteq ToSet(kinds)
  PROVE  LET list == EntryLists(D, first, kinds, asks)
         IN  /\ Section(list, domain)
             /\ IDsOf(list) = AskedIDs(domain, kind0, D, asks)
             /\ \A s \in D : first[s] \in ToSet(list)
             /\ \A c \in ToSet(list) : c.id.kind \in ToSet(kinds) \/ IsFirst(c, D, first)
<1> DEFINE list == EntryLists(D, first, kinds, asks)
           first0(s) == ID(domain, s, kind0)
           waits(s) == <<first0(s)>>
           check(s, k) == Planned(ID(domain, s, k), waits(s))
           rest(s) == Waiting(domain, s, kind0, ToSet(kinds) \cap asks[s])
           checks(s) == {check(s, k) : k \in ToSet(kinds) \cap asks[s]}
<1> /\ domain \in Text /\ kind0 \in Text /\ Once(kinds) /\ D \subseteq Nat
    /\ first \in [D -> PlannedType] /\ \A s \in D : first[s].id = ID(domain, s, kind0)
  BY DEF Headed
<1> DEFINE all == EntryMembers(domain, kind0, D, first, kinds, asks)
<1>1. /\ list \in Seq(PlannedType) /\ Distinct(list)
      /\ ToSet(list) = UNION {{first[s]} \union rest(s) : s \in D}
  <2>1. list \in Seq(PlannedType) /\ Distinct(list) /\ ToSet(list) = all
    BY EntriesFacts
  <2> QED
    BY <2>1 DEF EntryMembers
<1>0. \A s \in D : rest(s) = checks(s)
  BY DEF Waiting
<1>2. ASSUME NEW s \in D
      PROVE  /\ first0(s) \in IDType /\ first0(s).domain = domain /\ first0(s).kind = kind0
             /\ waits(s) \in Seq(IDType) /\ s \in Nat
  <2> DEFINE x == ID(domain, s, kind0)
  <2>1. s \in Nat
    OBVIOUS
  <2>2. x \in IDType /\ x.domain = domain /\ x.kind = kind0
    BY <2>1, IDFacts
  <2> HIDE DEF x
  <2>3. <<x>> \in Seq(IDType)
    BY <2>2
  <2> QED
    BY <2>1, <2>2, <2>3 DEF x
<1>3. ASSUME NEW s \in D, NEW k \in asks[s]
      PROVE  /\ k \in Text /\ k \in ToSet(kinds)
             /\ check(s, k).id = ID(domain, s, k)
             /\ check(s, k).prereqs = waits(s)
             /\ check(s, k).id.domain = domain /\ check(s, k).id.kind = k
  <2>1. k \in Text /\ k \in ToSet(kinds) /\ s \in Nat
    BY MemberOf DEF Once
  <2> DEFINE id == ID(domain, s, k)
             ws == waits(s)
  <2>2. id \in IDType /\ id.domain = domain /\ id.kind = k
    BY <2>1, IDFacts
  <2>3. ws \in Seq(IDType)
    BY <1>2
  <2> HIDE DEF id, ws
  <2>4. Planned(id, ws).id = id /\ Planned(id, ws).prereqs = ws
    BY <2>2, <2>3, PlannedFacts
  <2> QED
    BY <2>1, <2>2, <2>4 DEF id, ws
<1> HIDE DEF list, check, rest
<1>4. ASSUME NEW c \in ToSet(list)
      PROVE  \E s \in D : c = first[s] \/ \E k \in asks[s] : c = check(s, k)
  BY <1>0, <1>1
<1>5. ASSUME NEW s \in D PROVE first[s] \in ToSet(list)
  BY <1>1
<1>6. ASSUME NEW s \in D, NEW k \in asks[s] PROVE check(s, k) \in ToSet(list)
  <2>1. check(s, k) \in rest(s)
    BY <1>0, <1>3
  <2> QED
    BY <1>1, <2>1
<1>7. ASSUME NEW c \in ToSet(list)
      PROVE  /\ c.id.domain = domain /\ c.id.kind # "namespace"
             /\ \/ c.prereqs = <<>>
                \/ \E r \in ToSet(list) : c.prereqs = <<r.id>> /\ Level(r.id) < Level(c.id)
  <2>1. PICK s \in D : c = first[s] \/ \E k \in asks[s] : c = check(s, k)
    BY <1>4
  <2>2. CASE c = first[s]
    BY <1>2, <2>2
  <2>3. CASE \E k \in asks[s] : c = check(s, k)
    <3>1. PICK k \in asks[s] : c = check(s, k)
      BY <2>3
    <3>2. /\ c.id.domain = domain /\ c.id.kind = k /\ c.prereqs = waits(s)
          /\ k \notin {"namespace", "exists", "state"}
      BY <1>3, <3>1
    <3>3. Level(c.id) = 2
      BY <3>2 DEF Level
    <3>4. first[s].id = first0(s) /\ first[s].id.domain = domain /\ first[s].id.kind = kind0
      BY <1>2
    <3>5. Level(first[s].id) = 1
      BY <3>4 DEF Level
    <3>6. c.prereqs = <<first[s].id>>
      BY <3>2, <3>4
    <3> QED
      BY <1>5, <3>2, <3>3, <3>5, <3>6
  <2> QED
    BY <2>1, <2>2, <2>3
<1>8. IDsOf(list) = UNION {{ID(domain, s, k) : k \in {kind0} \union asks[s]} : s \in D}
  <2>1. ASSUME NEW c \in ToSet(list)
        PROVE  \E s \in D : c.id \in {ID(domain, s, k) : k \in {kind0} \union asks[s]}
    <3>1. PICK s \in D : c = first[s] \/ \E k \in asks[s] : c = check(s, k)
      BY <1>4
    <3>2. \E k \in {kind0} \union asks[s] : c.id = ID(domain, s, k)
      <4>1. CASE c = first[s]
        BY <4>1
      <4>2. ASSUME NEW k \in asks[s], c = check(s, k)
            PROVE  \E l \in {kind0} \union asks[s] : c.id = ID(domain, s, l)
        BY <1>3, <4>2
      <4> QED
        BY <3>1, <4>1, <4>2
    <3> QED
      BY <3>2
  <2>2. ASSUME NEW s \in D, NEW k \in {kind0} \union asks[s]
        PROVE  \E c \in ToSet(list) : c.id = ID(domain, s, k)
    <3>1. CASE k = kind0
      BY <1>5, <3>1
    <3>2. CASE k \in asks[s]
      BY <1>3, <1>6, <3>2
    <3> QED
      BY <3>1, <3>2
  <2> QED
    BY <2>1, <2>2 DEF IDsOf
<1>9. ASSUME NEW c \in ToSet(list), c.id.kind \notin ToSet(kinds)
      PROVE  IsFirst(c, D, first)
  <2>1. PICK s \in D : c = first[s] \/ \E k \in asks[s] : c = check(s, k)
    BY <1>4
  <2>2. ASSUME NEW k \in asks[s], c = check(s, k) PROVE FALSE
    BY <1>3, <1>9, <2>2
  <2> QED
    BY <2>1, <2>2 DEF IsFirst
<1>10. Section(list, domain)
  BY <1>1, <1>7 DEF Section
<1> QED
  BY <1>5, <1>8, <1>9, <1>10 DEF list, AskedIDs

LEMMA KindFacts ==
  /\ Once(PathKinds) /\ Once(SocketKinds) /\ Once(ServiceKinds)
  /\ \A kinds \in {PathKinds, SocketKinds, ServiceKinds} :
       ToSet(kinds) \cap {"namespace", "exists", "state"} = {}
<1>1. Once(PathKinds) /\ Once(SocketKinds)
  BY DEF Once, PathKinds, SocketKinds, Text
<1>2. Once(ServiceKinds)
  BY DEF Once, ServiceKinds, Text
<1>3. /\ ToSet(PathKinds) = {"type", "mode", "owner", "group"}
      /\ ToSet(SocketKinds) = {"owner", "group", "mode"}
  BY DEF ToSet, PathKinds, SocketKinds
<1>4. ToSet(ServiceKinds) = {"restart", "run_as.user", "run_as.group", "capabilities"}
  BY DEF ToSet, ServiceKinds
<1> QED
  BY <1>1, <1>2, <1>3, <1>4

\* Entries whose first check looks whether there is something to look at.
LEMMA ExistsSection ==
  ASSUME NEW domain \in {"path", "socket"}, NEW kinds \in {PathKinds, SocketKinds},
         NEW entries, Listed(entries), \A p \in DOMAIN entries : entries[p] \subseteq ToSet(kinds)
  PROVE  LET D == DOMAIN entries
             first == [p \in D |-> Planned(ID(domain, p, "exists"), <<>>)]
             list == EntryLists(D, first, kinds, entries)
         IN  Section(list, domain) /\ IDsOf(list) = AskedIDs(domain, "exists", D, entries)
<1> DEFINE D == DOMAIN entries
           first == [p \in D |-> Planned(ID(domain, p, "exists"), <<>>)]
<1>1. domain \in Text /\ "exists" \in Text
  BY DEF Text
<1>2. ASSUME NEW p \in D
      PROVE  /\ first[p] \in PlannedType /\ first[p].id = ID(domain, p, "exists")
             /\ first[p].prereqs = <<>>
  <2> DEFINE id == ID(domain, p, "exists")
             none == <<>>
  <2>1. id \in IDType /\ none \in Seq(IDType)
    BY <1>1, IDFacts DEF Listed
  <2> HIDE DEF id, none
  <2>2. /\ Planned(id, none) \in PlannedType /\ Planned(id, none).id = id
        /\ Planned(id, none).prereqs = none
    BY <2>1, PlannedFacts
  <2> QED
    BY <2>2 DEF id, none
<1>3. first \in [D -> PlannedType]
  BY <1>2
<1> HIDE DEF first
<1>4. Once(kinds) /\ ToSet(kinds) \cap {"namespace", "exists", "state"} = {}
  BY KindFacts
<1>5. Headed(domain, "exists", D, first, kinds)
  BY <1>1, <1>2, <1>3, <1>4 DEF Headed, Listed
<1> DEFINE list == EntryLists(D, first, kinds, entries)
<1>6. /\ \A s \in D : first[s].prereqs = <<>> /\ entries[s] \subseteq ToSet(kinds)
      /\ "exists" \in {"exists", "state"} /\ domain # "identity"
  BY <1>2
<1> HIDE DEF D
<1>7. Section(list, domain) /\ IDsOf(list) = AskedIDs(domain, "exists", D, entries)
  BY <1>4, <1>5, <1>6, EntriesSection
<1> QED
  BY <1>7 DEF first, D

LEMMA PathSection ==
  ASSUME NEW paths, Listed(paths), \A p \in DOMAIN paths : paths[p] \subseteq ToSet(PathKinds)
  PROVE  /\ Section(BuildPathChecks(paths), "path")
         /\ IDsOf(BuildPathChecks(paths)) = AskedIDs("path", "exists", DOMAIN paths, paths)
<1> DEFINE D == DOMAIN paths
           first == [p \in D |-> Planned(ID("path", p, "exists"), <<>>)]
<1>1. BuildPathChecks(paths) = EntryLists(D, first, PathKinds, paths)
  BY DEF BuildPathChecks, EntryLists
<1> QED
  BY <1>1, ExistsSection

LEMMA SocketSection ==
  ASSUME NEW sockets, Listed(sockets),
         \A s \in DOMAIN sockets : sockets[s] \subseteq ToSet(SocketKinds)
  PROVE  /\ Section(BuildSocketChecks(sockets), "socket")
         /\ IDsOf(BuildSocketChecks(sockets)) =
              AskedIDs("socket", "exists", DOMAIN sockets, sockets)
<1> DEFINE D == DOMAIN sockets
           first == [s \in D |-> Planned(ID("socket", s, "exists"), <<>>)]
<1>1. BuildSocketChecks(sockets) = EntryLists(D, first, SocketKinds, sockets)
  BY DEF BuildSocketChecks, EntryLists
<1> QED
  BY <1>1, ExistsSection

\* The state checks among those of the declared services expect what is declared.
LEMMA ServiceSection ==
  ASSUME NEW services, Listed(services),
         \A s \in DOMAIN services : /\ services[s].state \in ServiceStates
                                    /\ services[s].asks \subseteq ToSet(ServiceKinds)
  PROVE  LET list == BuildServiceChecks(services)
             asks == [s \in DOMAIN services |-> services[s].asks]
         IN  /\ Section(list, "service")
             /\ IDsOf(list) = AskedIDs("service", "state", DOMAIN services, asks)
             /\ \A s \in DOMAIN services : PlannedState(s, services[s].state) \in ToSet(list)
             /\ \A c \in ToSet(list) : c.id.kind = "state" =>
                  \E s \in DOMAIN services : c = PlannedState(s, services[s].state)
<1> DEFINE D == DOMAIN services
           first == [s \in D |-> PlannedState(s, services[s].state)]
           asks == [s \in D |-> services[s].asks]
           list == EntryLists(D, first, ServiceKinds, asks)
<1>1. BuildServiceChecks(services) = list
  <2>1. \A s \in D : asks[s] = services[s].asks /\ first[s] = PlannedState(s, services[s].state)
    OBVIOUS
  <2> QED
    BY <2>1 DEF BuildServiceChecks, EntryLists
<1>2. ASSUME NEW s \in D
      PROVE  /\ first[s] \in PlannedType /\ first[s].id = ID("service", s, "state")
             /\ first[s].prereqs = <<>>
  <2> DEFINE state == services[s].state
  <2>1. s \in Nat /\ state \in Text
    BY DEF Listed, Text, ServiceStates
  <2> HIDE DEF state
  <2>2. /\ PlannedState(s, state) \in PlannedType
        /\ PlannedState(s, state).id = ID("service", s, "state")
        /\ PlannedState(s, state).prereqs = <<>>
    BY <2>1, StateFacts
  <2> QED
    BY <2>2 DEF state
<1>3. first \in [D -> PlannedType]
  BY <1>2
<1>4. \A s \in D : first[s] = PlannedState(s, services[s].state)
                   /\ asks[s] \subseteq ToSet(ServiceKinds)
  OBVIOUS
<1> HIDE DEF first, asks
<1>5. Once(ServiceKinds) /\ ToSet(ServiceKinds) \cap {"namespace", "exists", "state"} = {}
  BY KindFacts
<1>6. Headed("service", "state", D, first, ServiceKinds)
  BY <1>2, <1>3, <1>5 DEF Headed, Listed, Text
<1>7. /\ Section(list, "service")
      /\ IDsOf(list) = AskedIDs("service", "state", D, asks)
      /\ \A s \in D : first[s] \in ToSet(list)
      /\ \A c \in ToSet(list) : c.id.kind = "state" => \E s \in D : c = first[s]
  <2>1. /\ \A s \in D : first[s].prereqs = <<>>
        /\ \A s \in D : asks[s] \subseteq ToSet(ServiceKinds)
        /\ "state" \in {"exists", "state"} /\ "service" # "identity"
    BY <1>2, <1>4
  <2>2. Section(list, "service") /\ IDsOf(list) = AskedIDs("service", "state", D, asks)
    BY <1>5, <1>6, <2>1, EntriesSection
  <2>3. \A s \in D : first[s] \in ToSet(list)
    BY <1>5, <1>6, <2>1, EntriesSection
  <2>4. \A c \in ToSet(list) : c.id.kind \in ToSet(ServiceKinds) \/ IsFirst(c, D, first)
    BY <1>5, <1>6, <2>1, EntriesSection
  <2>5. "state" \notin ToSet(ServiceKinds)
    BY <1>5
  <2> QED
    BY <2>2, <2>3, <2>4, <2>5 DEF IsFirst
<1> QED
  BY <1>1, <1>4, <1>7 DEF asks

\* The synthesized state checks.
LEMMA StatesSection ==
  ASSUME NEW states, Listed(states), \A s \in DOMAIN states : states[s] \in Text
  PROVE  LET list == BuildServiceStateChecks(states)
         IN  /\ Section(list, "service")
             /\ ToSet(list) = {PlannedState(s, states[s]) : s \in DOMAIN states}
<1> DEFINE D == DOMAIN states
           of == [s \in D |-> <<PlannedState(s, states[s])>>]
           list == Flattened(of)
<1>1. ASSUME NEW s \in D
      PROVE  LET c == PlannedState(s, states[s])
             IN  /\ c \in PlannedType /\ c.id = ID("service", s, "state") /\ c.prereqs = <<>>
                 /\ c.id.name = s /\ c.id.domain = "service" /\ c.id.kind = "state"
  <2> DEFINE state == states[s]
  <2>1. s \in Nat /\ state \in Text /\ "service" \in Text /\ "state" \in Text
    BY DEF Listed, Text
  <2> HIDE DEF state
  <2>2. /\ PlannedState(s, state) \in PlannedType
        /\ PlannedState(s, state).id = ID("service", s, "state")
        /\ PlannedState(s, state).prereqs = <<>>
    BY <2>1, StateFacts
  <2> DEFINE id == ID("service", s, "state")
  <2>3. id.name = s /\ id.domain = "service" /\ id.kind = "state"
    BY <2>1, IDFacts
  <2> QED
    BY <2>2, <2>3 DEF state
<1>2. ASSUME NEW s \in D
      PROVE  /\ of[s] \in Seq(PlannedType) /\ Distinct(of[s])
             /\ ToSet(of[s]) = {PlannedState(s, states[s])}
  <2> DEFINE c == PlannedState(s, states[s])
  <2>1. c \in PlannedType /\ of[s] = <<c>>
    BY <1>1
  <2> HIDE DEF c, of
  <2>2. <<c>> \in Seq(PlannedType) /\ Distinct(<<c>>) /\ ToSet(<<c>>) = {c}
    BY <2>1 DEF ToSet, Distinct
  <2> QED
    BY <2>1, <2>2 DEF c
<1>3. DOMAIN of = D /\ of \in [DOMAIN of -> Seq(PlannedType)] /\ Listed(of)
  <2>1. DOMAIN of = D /\ of = [s \in D |-> of[s]]
    OBVIOUS
  <2> HIDE DEF of
  <2> QED
    BY <1>2, <2>1 DEF Listed
<1>4. BuildServiceStateChecks(states) = list
  BY DEF BuildServiceStateChecks
<1> HIDE DEF of
<1>5. \A k, l \in DOMAIN of : k # l => Apart(of[k], of[l])
  BY <1>1, <1>2, <1>3 DEF Apart
<1>6. /\ list \in Seq(PlannedType) /\ Distinct(list)
      /\ ToSet(list) = UNION {ToSet(of[k]) : k \in DOMAIN of}
  <2>1. \A k \in DOMAIN of : Distinct(of[k])
    BY <1>2, <1>3
  <2> QED
    BY <1>3, <1>5, <2>1, FlattenedFacts
<1>7. ToSet(list) = {PlannedState(s, states[s]) : s \in D}
  <2>1. \A k \in D : ToSet(of[k]) = {PlannedState(k, states[k])}
    BY <1>2
  <2> QED
    BY <1>3, <1>6, <2>1
<1> HIDE DEF list
<1>8. Section(list, "service")
  <2>1. ASSUME NEW c \in ToSet(list)
        PROVE  c.id.domain = "service" /\ c.id.kind # "namespace" /\ c.prereqs = <<>>
    <3>1. PICK s \in D : c = PlannedState(s, states[s])
      BY <1>7
    <3> QED
      BY <1>1, <3>1
  <2> QED
    BY <1>6, <2>1 DEF Section
<1> QED
  BY <1>4, <1>7, <1>8

-----------------------------------------------------------------------------
(* Behind a preflight *)

\* Each check of the list waits for lower ones of the list only.
Grounded(list) ==
    \A c \in ToSet(list) : \A p \in ToSet(c.prereqs) :
      \E r \in ToSet(list) : r.id = p /\ Level(p) < Level(c.id)

Fits(list, domain) ==
    /\ list \in Seq(PlannedType) /\ Distinct(list) /\ Grounded(list)
    /\ \A c \in ToSet(list) : c.id.domain = domain

\* Nothing of one list is lost in the other.
Covers(list, other) ==
    \A c \in ToSet(other) : \E r \in ToSet(list) : r.id = c.id /\ r.expects = c.expects

LEMMA SectionFits ==
  ASSUME NEW list, NEW domain, Section(list, domain) PROVE Fits(list, domain)
<1>1. ASSUME NEW c \in ToSet(list), NEW p \in ToSet(c.prereqs)
      PROVE  \E r \in ToSet(list) : r.id = p /\ Level(p) < Level(c.id)
  <2>1. CASE c.prereqs = <<>>
    BY <1>1, <2>1 DEF ToSet
  <2>2. ASSUME NEW r \in ToSet(list), c.prereqs = <<r.id>>, Level(r.id) < Level(c.id)
        PROVE  \E s \in ToSet(list) : s.id = p /\ Level(p) < Level(c.id)
    <3>1. ToSet(c.prereqs) = {r.id}
      BY <2>2 DEF ToSet
    <3> QED
      BY <1>1, <2>2, <3>1
  <2> QED
    BY <2>1, <2>2 DEF Section
<1> QED
  BY <1>1 DEF Section, Fits, Grounded

\* Two sections of a domain without an ID in common are one.
LEMMA SectionsJoin ==
  ASSUME NEW one, NEW other, NEW domain, Section(one, domain), Section(other, domain),
         Apart(one, other)
  PROVE  Section(one \o other, domain) /\ ToSet(one \o other) = ToSet(one) \union ToSet(other)
<1>1. /\ one \o other \in Seq(PlannedType) /\ Distinct(one \o other)
      /\ ToSet(one \o other) = ToSet(one) \union ToSet(other)
  BY ConcatFacts DEF Section
<1> DEFINE both == one \o other
<1> HIDE DEF both
<1> QED
  BY <1>1 DEF Section, both

LEMMA PreflightFacts ==
  ASSUME NEW domain \in {"path", "socket", "service"}
  PROVE  LET p == Preflight(domain)
         IN  /\ p \in IDType /\ p.domain = domain /\ p.kind = "namespace" /\ p.name = 0
             /\ Planned(p, <<>>) \in PlannedType /\ Planned(p, <<>>).id = p
             /\ Planned(p, <<>>).prereqs = <<>>
<1> DEFINE p == Preflight(domain)
           none == <<>>
<1>1. domain \in Text /\ "namespace" \in Text /\ p = ID(domain, 0, "namespace")
  BY DEF Text, Preflight
<1>2. p \in IDType /\ p.domain = domain /\ p.kind = "namespace" /\ p.name = 0
  BY <1>1, IDFacts
<1>3. none \in Seq(IDType)
  OBVIOUS
<1> HIDE DEF p, none
<1>4. Planned(p, none) \in PlannedType /\ Planned(p, none).id = p /\ Planned(p, none).prereqs = none
  BY <1>2, <1>3, PlannedFacts
<1> QED
  BY <1>2, <1>4 DEF p, none

\* A planned check with other prerequisites.
LEMMA PlannedChanged ==
  ASSUME NEW c \in PlannedType, NEW ws
  PROVE  [c EXCEPT !.prereqs = ws] = [id |-> c.id, prereqs |-> ws, expects |-> c.expects]
<1>1. PICK i \in IDType, ps \in Seq(IDType), e \in Text :
        c = [id |-> i, prereqs |-> ps, expects |-> e]
  BY DEF PlannedType
<1> QED
  BY <1>1

\* withPrerequisite on a section: the preflight is one more prerequisite, the first.
LEMMA WithPrerequisiteFacts ==
  ASSUME NEW list, NEW domain \in {"path", "socket", "service"}, Section(list, domain)
  PROVE  LET w == WithPrerequisite(list, Preflight(domain))
         IN  /\ w \in Seq(PlannedType) /\ Len(w) = Len(list)
             /\ \A i \in 1..Len(list) :
                  /\ w[i].id = list[i].id /\ w[i].expects = list[i].expects
                  /\ ToSet(w[i].prereqs) = {Preflight(domain)} \union ToSet(list[i].prereqs)
<1> DEFINE p == Preflight(domain)
           w == WithPrerequisite(list, p)
           n == Len(list)
           waits(c) == IF c.prereqs # <<>> /\ Head(c.prereqs) = p THEN c.prereqs
                       ELSE <<p>> \o c.prereqs
<1>1. p \in IDType /\ p.kind = "namespace"
  BY PreflightFacts
<1>2. list \in Seq(PlannedType) /\ n \in Nat /\ \A i \in 1..n : list[i] \in PlannedType
  BY DEF Section
<1>3. w = [i \in 1..n |-> [list[i] EXCEPT !.prereqs = waits(list[i])]]
  BY DEF WithPrerequisite
<1> HIDE DEF p, w, n
<1>4. ASSUME NEW c \in ToSet(list), c \in PlannedType
      PROVE  waits(c) \in Seq(IDType) /\ ToSet(waits(c)) = {p} \union ToSet(c.prereqs)
  <2>1. CASE c.prereqs = <<>>
    <3>1. waits(c) = <<p>>
      BY <1>1, <2>1
    <3>2. <<p>> \in Seq(IDType) /\ ToSet(<<p>>) = {p} /\ ToSet(<<>>) = {}
      BY <1>1 DEF ToSet
    <3> HIDE DEF waits
    <3> QED
      BY <2>1, <3>1, <3>2
  <2>2. CASE \E r \in ToSet(list) : c.prereqs = <<r.id>>
    <3>1. PICK r \in ToSet(list) : c.prereqs = <<r.id>>
      BY <2>2
    <3> DEFINE id == r.id
    <3>2. id.kind # "namespace" /\ id # p
      BY <1>1 DEF Section
    <3>3. id \in IDType
      <4>1. ToSet(list) \subseteq PlannedType
        BY <1>2, MemberOf
      <4> QED
        BY <4>1 DEF PlannedType
    <3> HIDE DEF id
    <3>4. c.prereqs = <<id>> /\ Head(<<id>>) = id
      BY <3>1 DEF id
    <3> DEFINE a == <<p>>
               b == <<id>>
    <3>5. waits(c) = a \o b
      BY <3>2, <3>4
    <3>6. /\ a \in Seq(IDType) /\ b \in Seq(IDType)
          /\ ToSet(a) = {p} /\ ToSet(b) = {id} /\ c.prereqs = b
      BY <1>1, <3>3, <3>4 DEF ToSet
    <3> HIDE DEF waits, a, b
    <3>7. a \o b \in Seq(IDType) /\ ToSet(a \o b) = ToSet(a) \union ToSet(b)
      BY <3>6, ConcatFacts
    <3> QED
      BY <3>5, <3>6, <3>7
  <2> QED
    BY <2>1, <2>2 DEF Section
<1>5. \A i \in 1..n : list[i] \in ToSet(list)
  <2>1. ToSet(list) = {list[i] : i \in 1..n}
    BY <1>2, MemberOf DEF n
  <2> QED
    BY <2>1
<1>6. ASSUME NEW i \in 1..n
      PROVE  /\ w[i] \in PlannedType /\ w[i].id = list[i].id /\ w[i].expects = list[i].expects
             /\ w[i].prereqs = waits(list[i])
  <2> DEFINE c == list[i]
             ws == waits(c)
  <2>1. w[i] = [c EXCEPT !.prereqs = ws]
    BY <1>3
  <2>2. c \in PlannedType /\ ws \in Seq(IDType)
    BY <1>2, <1>4, <1>5
  <2> HIDE DEF c, ws
  <2>3. [c EXCEPT !.prereqs = ws] = [id |-> c.id, prereqs |-> ws, expects |-> c.expects]
    BY <2>2, PlannedChanged
  <2>4. /\ w[i] \in PlannedType /\ w[i].id = c.id /\ w[i].expects = c.expects
        /\ w[i].prereqs = ws
    BY <2>1, <2>2, <2>3 DEF PlannedType
  <2> QED
    BY <2>4 DEF c, ws
<1> HIDE DEF waits
<1>7. w \in Seq(PlannedType) /\ Len(w) = n
  BY <1>2, <1>3, <1>6
<1>8. \A i \in 1..n : ToSet(w[i].prereqs) = {p} \union ToSet(list[i].prereqs)
  BY <1>2, <1>4, <1>5, <1>6
<1> QED
  BY <1>6, <1>7, <1>8 DEF p, w, n

LEMMA GuardedFacts ==
  ASSUME NEW list, NEW domain \in {"path", "socket", "service"}, Section(list, domain)
  PROVE  LET g == Guarded(domain, list)
         IN  /\ Fits(g, domain) /\ Covers(g, list)
             /\ IDsOf(g) = IDsOf(list) \union (IF list = <<>> THEN {} ELSE {Preflight(domain)})
             /\ \A c \in ToSet(g) :
                  c.id = Preflight(domain) \/ Preflight(domain) \in ToSet(c.prereqs)
<1> DEFINE p == Preflight(domain)
           first == Planned(p, <<>>)
           alone == <<first>>
           w == WithPrerequisite(list, p)
           g == Guarded(domain, list)
<1>1. CASE list = <<>>
  <2>1. g = <<>> /\ ToSet(g) = {} /\ ToSet(list) = {}
    BY <1>1 DEF Guarded, ToSet
  <2>2. g \in Seq(PlannedType) /\ Distinct(g)
    BY <2>1 DEF Distinct
  <2> HIDE DEF g
  <2> QED
    BY <1>1, <2>1, <2>2 DEF g, Fits, Grounded, Covers, IDsOf
<1>2. CASE list # <<>>
  <2>1. g = alone \o w
    BY <1>2 DEF Guarded
  <2>2. /\ p.kind = "namespace" /\ p.domain = domain
        /\ first \in PlannedType /\ first.id = p /\ first.prereqs = <<>>
    BY PreflightFacts
  <2>3. /\ w \in Seq(PlannedType) /\ Len(w) = Len(list)
        /\ \A i \in 1..Len(list) :
             /\ w[i].id = list[i].id /\ w[i].expects = list[i].expects
             /\ ToSet(w[i].prereqs) = {p} \union ToSet(list[i].prereqs)
    BY WithPrerequisiteFacts
  <2>4. list \in Seq(PlannedType) /\ Distinct(list) /\ Len(list) \in Nat /\ Fits(list, domain)
    BY SectionFits DEF Section
  <2>5. ToSet(list) = {list[i] : i \in 1..Len(list)} /\ ToSet(w) = {w[i] : i \in 1..Len(list)}
    BY <2>3, <2>4, MemberOf
  <2> HIDE DEF first, p, w
  <2>6. alone \in Seq(PlannedType) /\ Distinct(alone) /\ ToSet(alone) = {first}
    BY <2>2 DEF Distinct, ToSet
  <2> HIDE DEF alone
  <2>7. Distinct(w)
    BY <2>3, <2>4 DEF Distinct
  <2>8. Apart(alone, w)
    <3>1. \A i \in 1..Len(list) : list[i].id.kind # "namespace"
      BY <2>5 DEF Section
    <3> QED
      BY <2>2, <2>3, <2>5, <2>6, <3>1 DEF Apart
  <2>9. /\ g \in Seq(PlannedType) /\ Distinct(g)
        /\ ToSet(g) = {first} \union ToSet(w)
    BY <2>1, <2>3, <2>6, <2>7, <2>8, ConcatFacts
  <2> HIDE DEF g
  <2>10. ASSUME NEW c \in ToSet(g)
         PROVE  \/ c = first
                \/ \E i \in 1..Len(list) :
                     /\ c.id = list[i].id /\ c.expects = list[i].expects
                     /\ ToSet(c.prereqs) = {p} \union ToSet(list[i].prereqs)
    BY <2>3, <2>5, <2>9
  <2>11. ASSUME NEW d \in ToSet(list) PROVE \E r \in ToSet(g) : r.id = d.id /\ r.expects = d.expects
    BY <2>3, <2>5, <2>9
  <2>12. first \in ToSet(g)
    BY <2>9
  <2>13. ASSUME NEW c \in ToSet(g), NEW q \in ToSet(c.prereqs)
         PROVE  \E r \in ToSet(g) : r.id = q /\ Level(q) < Level(c.id)
    <3>1. c # first
      BY <2>2, <2>13 DEF ToSet
    <3>2. PICK i \in 1..Len(list) : /\ c.id = list[i].id
                                    /\ ToSet(c.prereqs) = {p} \union ToSet(list[i].prereqs)
      BY <2>10, <3>1
    <3>3. list[i] \in ToSet(list)
      BY <2>5
    <3>4. CASE q = p
      <4>1. c.id.kind # "namespace"
        BY <3>2, <3>3 DEF Section
      <4>2. Level(p) = 0 /\ Level(c.id) \in {1, 2, 3}
        BY <2>2, <4>1 DEF Level
      <4> QED
        BY <2>2, <2>12, <3>4, <4>2
    <3>5. CASE q \in ToSet(list[i].prereqs)
      <4>1. PICK s \in ToSet(list) : s.id = q /\ Level(q) < Level(list[i].id)
        BY <2>4, <3>3, <3>5 DEF Fits, Grounded
      <4>2. PICK r \in ToSet(g) : r.id = s.id
        BY <2>11
      <4> QED
        BY <3>2, <4>1, <4>2
    <3> QED
      BY <2>13, <3>2, <3>4, <3>5
  <2>14. ASSUME NEW c \in ToSet(g) PROVE c.id.domain = domain
    BY <2>2, <2>5, <2>10 DEF Section
  <2>15. Fits(g, domain)
    BY <2>9, <2>13, <2>14 DEF Fits, Grounded
  <2>16. IDsOf(g) = IDsOf(list) \union {p}
    <3>1. ASSUME NEW c \in ToSet(g) PROVE c.id \in IDsOf(list) \union {p}
      BY <2>2, <2>5, <2>10 DEF IDsOf
    <3>2. IDsOf(list) \subseteq IDsOf(g) /\ p \in IDsOf(g)
      BY <2>2, <2>11, <2>12 DEF IDsOf
    <3> QED
      BY <3>1, <3>2 DEF IDsOf
  <2>17. \A c \in ToSet(g) : c.id = p \/ p \in ToSet(c.prereqs)
    BY <2>2, <2>10
  <2> QED
    BY <1>2, <2>11, <2>15, <2>16, <2>17 DEF g, p, Covers
<1> QED
  BY <1>1, <1>2

-----------------------------------------------------------------------------
(* The checks of services and of their processes *)

StateOf(service) == ID("service", service, "state")
IdentityIDs(identities) ==
    UNION {{ID("identity", l, k) : k \in identities[l].asks} : l \in DOMAIN identities}

\* Every identity check waits for the state of the service its label is about.
LEMMA IdentityFacts ==
  ASSUME NEW identities, Listed(identities),
         \A l \in DOMAIN identities : /\ identities[l].service \in Nat
                                      /\ identities[l].asks \subseteq ToSet(IdentityKinds)
  PROVE  LET list == BuildIdentityChecks(identities)
         IN  /\ list \in Seq(PlannedType) /\ Distinct(list)
             /\ IDsOf(list) = IdentityIDs(identities)
             /\ \A c \in ToSet(list) :
                  /\ c.id.domain = "identity" /\ c.id.kind # "namespace"
                  /\ \E l \in DOMAIN identities : c.prereqs = <<StateOf(identities[l].service)>>
<1> DEFINE D == DOMAIN identities
           waits(l) == <<StateOf(identities[l].service)>>
           asks(l) == identities[l].asks
           of == [l \in D |-> Chosen(Offer("identity", l, IdentityKinds, waits(l)), asks(l))]
           list == Flattened(of)
           check(l, k) == Planned(ID("identity", l, k), waits(l))
<1>1. BuildIdentityChecks(identities) = list
  BY DEF BuildIdentityChecks, Offer, StateOf
<1>2. /\ Once(IdentityKinds)
      /\ ToSet(IdentityKinds) = {"uid", "gid", "capabilities.effective", "capabilities.permitted",
                   "capabilities.inheritable", "capabilities.bounding",
                   "capabilities.ambient"}
  <2>1. Once(IdentityKinds)
    BY DEF Once, IdentityKinds, Text
  <2> QED
    BY <2>1 DEF ToSet, IdentityKinds
<1>3. ASSUME NEW l \in D
      PROVE  waits(l) \in Seq(IDType) /\ l \in Nat /\ ToSet(IdentityKinds) \cap asks(l) = asks(l)
  <2> DEFINE s == identities[l].service
             id == ID("service", s, "state")
  <2>1. s \in Nat /\ "service" \in Text /\ "state" \in Text /\ l \in Nat
    BY DEF Text, Listed
  <2>2. id \in IDType
    BY <2>1, IDFacts
  <2>3. waits(l) = <<id>>
    BY DEF StateOf
  <2> HIDE DEF id, waits
  <2> QED
    BY <2>1, <2>2, <2>3
<1>4. ASSUME NEW l \in D, NEW k \in asks(l)
      PROVE  LET c == check(l, k)
             IN  /\ c.id = ID("identity", l, k) /\ c.prereqs = waits(l)
                 /\ c.id.domain = "identity" /\ c.id.kind # "namespace" /\ c.id.name = l
  <2> DEFINE id == ID("identity", l, k)
             ws == waits(l)
  <2>1. "identity" \in Text /\ k \in Text /\ k # "namespace"
    BY <1>2 DEF Text
  <2>2. id \in IDType /\ id.domain = "identity" /\ id.kind = k /\ id.name = l
    BY <1>3, <2>1, IDFacts
  <2>3. ws \in Seq(IDType)
    BY <1>3
  <2> HIDE DEF id, ws
  <2>4. Planned(id, ws).id = id /\ Planned(id, ws).prereqs = ws
    BY <2>2, <2>3, PlannedFacts
  <2> QED
    BY <2>1, <2>2, <2>4 DEF id, ws
<1>5. ASSUME NEW l \in D
      PROVE  /\ of[l] \in Seq(PlannedType) /\ Distinct(of[l])
             /\ ToSet(of[l]) = {check(l, k) : k \in asks(l)}
  <2> DEFINE ws == waits(l)
             as == asks(l)
             d == "identity"
             offer == Offer(d, l, IdentityKinds, ws)
  <2>1. of[l] = Chosen(offer, as) /\ ToSet(IdentityKinds) \cap as = as
    BY <1>3
  <2>4. ws \in Seq(IDType) /\ l \in Nat /\ d \in Text
    BY <1>3 DEF Text
  <2> HIDE DEF ws, as, d
  <2>3. Once(IdentityKinds)
    BY <1>2
  <2>2. /\ Chosen(offer, as) \in Seq(PlannedType)
        /\ Distinct(Chosen(offer, as))
        /\ ToSet(Chosen(offer, as)) = Taken(d, l, IdentityKinds, ws, as)
    BY <2>3, <2>4, OfferFacts
  <2> HIDE DEF offer
  <2> QED
    BY <2>1, <2>2 DEF ws, as, d, Taken
<1>6. DOMAIN of = D /\ of \in [DOMAIN of -> Seq(PlannedType)] /\ Listed(of)
  <2>1. DOMAIN of = D /\ of = [l \in D |-> of[l]]
    OBVIOUS
  <2> HIDE DEF of
  <2> QED
    BY <1>5, <2>1 DEF Listed
<1> HIDE DEF of, check, waits
<1>7. ASSUME NEW l \in D, NEW m \in D, l # m, NEW a \in ToSet(of[l]), NEW b \in ToSet(of[m])
      PROVE  a.id # b.id
  <2>1. PICK j \in asks(l) : a = check(l, j)
    BY <1>5
  <2>2. PICK k \in asks(m) : b = check(m, k)
    BY <1>5
  <2>3. a.id.name = l
    BY <1>4, <2>1
  <2>4. b.id.name = m
    BY <1>4, <2>2
  <2> QED
    BY <1>7, <2>3, <2>4
<1>8. /\ list \in Seq(PlannedType) /\ Distinct(list)
      /\ ToSet(list) = UNION {ToSet(of[l]) : l \in DOMAIN of}
  <2>1. \A l \in DOMAIN of : Distinct(of[l])
    BY <1>5, <1>6
  <2>2. \A l, m \in DOMAIN of : l # m => Apart(of[l], of[m])
    BY <1>6, <1>7 DEF Apart
  <2> QED
    BY <1>6, <2>1, <2>2, FlattenedFacts
<1> HIDE DEF list
<1>9. ASSUME NEW c \in ToSet(list)
      PROVE  \E l \in D : \E k \in asks(l) : c = check(l, k)
  BY <1>5, <1>6, <1>8
<1>10. ASSUME NEW l \in D, NEW k \in asks(l) PROVE check(l, k) \in ToSet(list)
  <2>1. check(l, k) \in ToSet(of[l])
    BY <1>5
  <2> QED
    BY <1>6, <1>8, <2>1
<1>11. IDsOf(list) = IdentityIDs(identities)
  <2>1. ASSUME NEW c \in ToSet(list) PROVE c.id \in IdentityIDs(identities)
    BY <1>4, <1>9 DEF IdentityIDs
  <2>2. ASSUME NEW l \in D, NEW k \in asks(l) PROVE ID("identity", l, k) \in IDsOf(list)
    BY <1>4, <1>10 DEF IDsOf
  <2> QED
    BY <2>1, <2>2 DEF IDsOf, IdentityIDs
<1>12. ASSUME NEW c \in ToSet(list)
       PROVE  /\ c.id.domain = "identity" /\ c.id.kind # "namespace"
              /\ \E l \in D : c.prereqs = <<StateOf(identities[l].service)>>
  <2>1. PICK l \in D : \E k \in asks(l) : c = check(l, k)
    BY <1>9
  <2>2. c.id.domain = "identity" /\ c.id.kind # "namespace" /\ c.prereqs = waits(l)
    BY <1>4, <2>1
  <2> QED
    BY <2>2 DEF waits
<1> QED
  BY <1>1, <1>8, <1>11, <1>12

\* What buildServiceBackedChecks puts behind the preflight of the services.
OwnChecks(c, domains) ==
    IF "services" \in domains THEN BuildServiceChecks(c.services) ELSE <<>>
StatesFor(c, domains) ==
    IF "identity" \in domains THEN SynthesizedStates(c, "services" \in domains) ELSE <<>>
ServiceChecks(c, domains) == OwnChecks(c, domains) \o BuildServiceStateChecks(StatesFor(c, domains))

OwnIDs(c, domains) ==
    IF "services" \in domains
    THEN AskedIDs("service", "state", DOMAIN c.services,
                  [s \in DOMAIN c.services |-> c.services[s].asks])
    ELSE {}

LEMMA StatesForFacts ==
  ASSUME NEW c, WellFormed(c), NEW domains
  PROVE  LET states == StatesFor(c, domains)
         IN  /\ Listed(states) /\ \A s \in DOMAIN states : states[s] \in Text
             /\ "services" \in domains => DOMAIN states \cap DOMAIN c.services = {}
             /\ "identity" \in domains =>
                  \A l \in DOMAIN c.identity :
                    LET s == c.identity[l].service
                    IN  s \in DOMAIN states \/ ("services" \in domains /\ s \in DOMAIN c.services)
             /\ DOMAIN states # {} => "identity" \in domains
             /\ \A s \in DOMAIN states :
                  /\ \E l \in DOMAIN c.identity : s = c.identity[l].service
                  /\ SemanticallyValid(c) => states[s] = "active"
<1> DEFINE states == StatesFor(c, domains)
           Backed == {c.identity[l].service : l \in DOMAIN c.identity}
<1>1. CASE "identity" \notin domains
  <2>1. DOMAIN states = {}
    BY <1>1 DEF StatesFor
  <2>2. Listed(states)
    BY <2>1, FS_EmptySet DEF Listed
  <2> HIDE DEF states
  <2> QED
    BY <1>1, <2>1, <2>2 DEF states
<1>2. CASE "identity" \in domains
  <2> DEFINE S == Synthesized(c, "services" \in domains)
  <2>1. states = [s \in S |-> IF s \in DOMAIN c.services THEN c.services[s].state ELSE "active"]
    BY <1>2 DEF StatesFor, SynthesizedStates
  <2>2. S = Backed \ (IF "services" \in domains THEN DOMAIN c.services ELSE {})
    BY DEF Synthesized
  <2>3. IsFiniteSet(S) /\ S \subseteq Nat
    <3>1. IsFiniteSet(DOMAIN c.identity) /\ Backed \subseteq Nat
      BY DEF WellFormed, Listed
    <3> DEFINE f == [l \in DOMAIN c.identity |-> c.identity[l].service]
    <3>2. f \in Surjection(DOMAIN c.identity, Backed)
      BY DEF Surjection
    <3> HIDE DEF f, Backed
    <3>3. IsFiniteSet(Backed)
      BY <3>1, <3>2, FS_Surjection
    <3> QED
      BY <2>2, <3>1, <3>3, FS_Subset
  <2> HIDE DEF states, S
  <2>4. DOMAIN states = S
    BY <2>1
  <2>5. ASSUME NEW s \in S
        PROVE  /\ states[s] \in Text
               /\ SemanticallyValid(c) => states[s] = "active"
    <3>1. CASE s \in DOMAIN c.services
      <4>1. states[s] = c.services[s].state /\ c.services[s].state \in ServiceStates
        BY <2>1, <3>1 DEF WellFormed
      <4>2. PICK l \in DOMAIN c.identity : s = c.identity[l].service
        BY <2>2
      <4>3. states[s] \in Text
        BY <4>1 DEF Text, ServiceStates
      <4>4. SemanticallyValid(c) => states[s] = "active"
        BY <3>1, <4>1, <4>2 DEF SemanticallyValid
      <4> QED
        BY <4>3, <4>4
    <3>2. CASE s \notin DOMAIN c.services
      BY <2>1, <3>2 DEF Text
    <3> QED
      BY <3>1, <3>2
  <2>6. Listed(states)
    BY <2>3, <2>4 DEF Listed
  <2>7. \A l \in DOMAIN c.identity :
           LET s == c.identity[l].service
           IN  s \in S \/ ("services" \in domains /\ s \in DOMAIN c.services)
    BY <2>2
  <2> QED
    BY <1>2, <2>2, <2>4, <2>5, <2>6, <2>7 DEF states
<1> QED
  BY <1>1, <1>2

LEMMA ServiceChecksFacts ==
  ASSUME NEW c, WellFormed(c), NEW domains
  PROVE  LET list == ServiceChecks(c, domains)
             states == StatesFor(c, domains)
         IN  /\ Section(list, "service")
             /\ IDsOf(list) = OwnIDs(c, domains) \union {StateOf(s) : s \in DOMAIN states}
             /\ "identity" \in domains =>
                  \A l \in DOMAIN c.identity : \E r \in ToSet(list) :
                    /\ r.id = StateOf(c.identity[l].service)
                    /\ SemanticallyValid(c) => r.expects = "active"
<1> DEFINE own == OwnChecks(c, domains)
           states == StatesFor(c, domains)
           synth == BuildServiceStateChecks(states)
           list == ServiceChecks(c, domains)
<1>1. /\ Listed(states) /\ \A s \in DOMAIN states : states[s] \in Text
      /\ "services" \in domains => DOMAIN states \cap DOMAIN c.services = {}
      /\ "identity" \in domains =>
           \A l \in DOMAIN c.identity :
             LET s == c.identity[l].service
             IN  s \in DOMAIN states \/ ("services" \in domains /\ s \in DOMAIN c.services)
      /\ \A s \in DOMAIN states : SemanticallyValid(c) => states[s] = "active"
  BY StatesForFacts
<1>2. /\ Listed(c.services)
      /\ \A s \in DOMAIN c.services : /\ c.services[s].state \in ServiceStates
                                      /\ c.services[s].asks \subseteq ToSet(ServiceKinds)
  BY DEF WellFormed
<1>3. list = own \o synth
  BY DEF ServiceChecks
<1> HIDE DEF states
<1>4. Section(synth, "service") /\ ToSet(synth) = {PlannedState(s, states[s]) : s \in DOMAIN states}
  BY <1>1, StatesSection
<1>5. /\ Section(own, "service") /\ IDsOf(own) = OwnIDs(c, domains)
      /\ \A d \in ToSet(own) : d.id.kind = "state" =>
           /\ "services" \in domains
           /\ \E s \in DOMAIN c.services : d = PlannedState(s, c.services[s].state)
      /\ "services" \in domains =>
           \A s \in DOMAIN c.services : PlannedState(s, c.services[s].state) \in ToSet(own)
  <2>1. CASE "services" \in domains
    <3> DEFINE built == BuildServiceChecks(c.services)
               asks == [s \in DOMAIN c.services |-> c.services[s].asks]
    <3>1. /\ Section(built, "service")
          /\ IDsOf(built) = AskedIDs("service", "state", DOMAIN c.services, asks)
          /\ \A s \in DOMAIN c.services : PlannedState(s, c.services[s].state) \in ToSet(built)
          /\ \A d \in ToSet(built) : d.id.kind = "state" =>
               \E s \in DOMAIN c.services : d = PlannedState(s, c.services[s].state)
      BY <1>2, ServiceSection
    <3>2. own = built
      BY <2>1 DEF OwnChecks
    <3> HIDE DEF own, built
    <3> QED
      BY <2>1, <3>1, <3>2 DEF OwnIDs
  <2>2. CASE "services" \notin domains
    <3>1. own = <<>> /\ ToSet(own) = {}
      BY <2>2 DEF OwnChecks, ToSet
    <3>2. own \in Seq(PlannedType) /\ Distinct(own)
      BY <3>1 DEF Distinct
    <3> HIDE DEF own
    <3> QED
      BY <2>2, <3>1, <3>2 DEF Section, IDsOf, OwnIDs
  <2> QED
    BY <2>1, <2>2
<1>6. ASSUME NEW s \in Nat, NEW state \in Text
      PROVE  LET d == PlannedState(s, state)
             IN  d.id = StateOf(s) /\ d.id.name = s /\ d.id.kind = "state" /\ d.expects = state
  <2>1. "service" \in Text /\ "state" \in Text
    BY DEF Text
  <2> DEFINE id == ID("service", s, "state")
  <2>2. id.name = s /\ id.kind = "state"
    BY <2>1, IDFacts
  <2>3. PlannedState(s, state).id = id /\ PlannedState(s, state).expects = state
    BY StateFacts
  <2> HIDE DEF id
  <2>4. id = StateOf(s)
    BY DEF id, StateOf
  <2> QED
    BY <2>2, <2>3, <2>4
<1>7. \A s \in DOMAIN states : s \in Nat /\ states[s] \in Text
  BY <1>1 DEF Listed
<1>8. \A s \in DOMAIN c.services : s \in Nat /\ c.services[s].state \in Text
  BY <1>2 DEF Listed, Text, ServiceStates
<1> HIDE DEF own, synth, list
<1>9. Apart(own, synth)
  <2> SUFFICES ASSUME NEW a \in ToSet(own), NEW b \in ToSet(synth), a.id = b.id PROVE FALSE
    BY DEF Apart
  <2>1. PICK s \in DOMAIN states : b = PlannedState(s, states[s])
    BY <1>4
  <2>2. a.id.kind = "state" /\ a.id.name = s
    BY <1>6, <1>7, <2>1
  <2>3. "services" \in domains
    BY <1>5, <2>2
  <2>4. PICK t \in DOMAIN c.services : a = PlannedState(t, c.services[t].state)
    BY <1>5, <2>2
  <2>5. a.id.name = t
    BY <1>6, <1>8, <2>4
  <2> QED
    BY <1>1, <2>2, <2>3, <2>5
<1>10. Section(list, "service") /\ ToSet(list) = ToSet(own) \union ToSet(synth)
  BY <1>3, <1>4, <1>5, <1>9, SectionsJoin
<1>11. IDsOf(list) = OwnIDs(c, domains) \union {StateOf(s) : s \in DOMAIN states}
  <2>1. IDsOf(synth) = {StateOf(s) : s \in DOMAIN states}
    <3>1. \A s \in DOMAIN states : PlannedState(s, states[s]).id = StateOf(s)
      BY <1>6, <1>7
    <3> QED
      BY <1>4, <3>1 DEF IDsOf
  <2>2. IDsOf(list) = IDsOf(own) \union IDsOf(synth)
    BY <1>10 DEF IDsOf
  <2> QED
    BY <1>5, <2>1, <2>2
<1>12. ASSUME "identity" \in domains, NEW l \in DOMAIN c.identity
       PROVE  \E r \in ToSet(list) : /\ r.id = StateOf(c.identity[l].service)
                                     /\ SemanticallyValid(c) => r.expects = "active"
  <2> DEFINE s == c.identity[l].service
  <2>1. CASE s \in DOMAIN states
    <3> DEFINE r == PlannedState(s, states[s])
    <3>1. r \in ToSet(list)
      BY <1>4, <1>10, <2>1
    <3>2. r.id = StateOf(s) /\ r.expects = states[s]
      BY <1>6, <1>7, <2>1
    <3> HIDE DEF r, s
    <3> QED
      BY <1>1, <2>1, <3>1, <3>2 DEF s
  <2>2. CASE "services" \in domains /\ s \in DOMAIN c.services
    <3> DEFINE r == PlannedState(s, c.services[s].state)
    <3>1. r \in ToSet(list)
      BY <1>5, <1>10, <2>2
    <3>2. r.id = StateOf(s) /\ r.expects = c.services[s].state
      BY <1>6, <1>8, <2>2
    <3>3. SemanticallyValid(c) => c.services[s].state = "active"
      BY <2>2 DEF SemanticallyValid
    <3> HIDE DEF r
    <3> QED
      BY <3>1, <3>2, <3>3
  <2> QED
    BY <1>1, <1>12, <2>1, <2>2
<1> QED
  BY <1>10, <1>11, <1>12 DEF list, states

-----------------------------------------------------------------------------
(* The plan *)

\* The checks of a domain in a plan: those that are asked for, behind its preflight.
Part(list, domain, ids, rooted) ==
    /\ Fits(list, domain)
    /\ IDsOf(list) \ {Preflight(domain)} = ids
    /\ \A c \in ToSet(list) :
         IF rooted THEN c.id.kind # "namespace"
         ELSE c.id.kind = "namespace" \/ Preflight(domain) \in ToSet(c.prereqs)

LEMMA PartFacts ==
  ASSUME NEW list, NEW domain \in {"path", "socket", "service"}, Section(list, domain),
         NEW rooted \in BOOLEAN, NEW part,
         part = IF rooted THEN list ELSE Guarded(domain, list)
  PROVE  Part(part, domain, IDsOf(list), rooted)
<1>1. Preflight(domain).kind = "namespace"
  BY PreflightFacts
<1>2. Preflight(domain) \notin IDsOf(list)
  BY <1>1 DEF Section, IDsOf
<1>3. CASE rooted
  <2>1. part = list /\ Fits(list, domain)
    BY <1>3, SectionFits
  <2> QED
    BY <1>2, <1>3, <2>1 DEF Part, Section
<1>4. CASE ~rooted
  <2> DEFINE g == Guarded(domain, list)
  <2>1. /\ Fits(g, domain)
        /\ IDsOf(g) = IDsOf(list) \union (IF list = <<>> THEN {} ELSE {Preflight(domain)})
        /\ \A c \in ToSet(g) : c.id = Preflight(domain) \/ Preflight(domain) \in ToSet(c.prereqs)
    BY GuardedFacts
  <2>2. part = g
    BY <1>4
  <2> HIDE DEF g
  <2> QED
    BY <1>1, <1>2, <1>4, <2>1, <2>2 DEF Part
<1> QED
  BY <1>3, <1>4

\* The empty part, of a domain that is not selected.
LEMMA EmptyPart ==
  ASSUME NEW domain, NEW rooted \in BOOLEAN PROVE Part(<<>>, domain, {}, rooted)
<1> DEFINE list == <<>>
<1>1. list \in Seq(PlannedType) /\ ToSet(list) = {} /\ Distinct(list)
  BY DEF ToSet, Distinct
<1> HIDE DEF list
<1>2. Part(list, domain, {}, rooted)
  BY <1>1 DEF Part, Fits, Grounded, IDsOf
<1> QED
  BY <1>2 DEF list

ExistsIDs(domain, entries) == AskedIDs(domain, "exists", DOMAIN entries, entries)

\* buildChecksForDomains may be called: of a host root, for paths and sockets only.
Plannable(c, domains, rooted) ==
    /\ WellFormed(c) /\ SemanticallyValid(c) /\ rooted \in BOOLEAN
    /\ rooted => domains \cap {"identity", "services"} = {}

PathPart(c, domains, rooted) ==
    IF "paths" \in domains
    THEN IF rooted THEN BuildPathChecks(c.paths) ELSE Guarded("path", BuildPathChecks(c.paths))
    ELSE <<>>
SocketPart(c, domains, rooted) ==
    IF "sockets" \in domains
    THEN IF rooted THEN BuildSocketChecks(c.sockets)
         ELSE Guarded("socket", BuildSocketChecks(c.sockets))
    ELSE <<>>
ServicePart(c, domains) == Guarded("service", ServiceChecks(c, domains))
IdentityPart(c, domains) ==
    IF "identity" \in domains THEN BuildIdentityChecks(c.identity) ELSE <<>>

LEMMA PlanParts ==
  ASSUME NEW c, NEW domains, NEW rooted
  PROVE  Plan(c, domains, rooted) =
           (PathPart(c, domains, rooted) \o SocketPart(c, domains, rooted))
             \o (ServicePart(c, domains) \o IdentityPart(c, domains))
BY DEF Plan, ServiceBacked, PathPart, SocketPart, ServicePart, IdentityPart, ServiceChecks,
       OwnChecks, StatesFor

LEMMA PathPartFacts ==
  ASSUME NEW c, NEW domains, NEW rooted, Plannable(c, domains, rooted)
  PROVE  Part(PathPart(c, domains, rooted), "path",
              IF "paths" \in domains THEN ExistsIDs("path", c.paths) ELSE {}, rooted)
<1>1. CASE "paths" \in domains
  <2> DEFINE list == BuildPathChecks(c.paths)
             part == PathPart(c, domains, rooted)
  <2>1. Section(list, "path") /\ IDsOf(list) = ExistsIDs("path", c.paths)
    BY PathSection DEF Plannable, WellFormed, ExistsIDs
  <2>2. part = IF rooted THEN list ELSE Guarded("path", list)
    BY <1>1 DEF PathPart
  <2> HIDE DEF list, part
  <2>3. Part(part, "path", IDsOf(list), rooted)
    BY <2>1, <2>2, PartFacts DEF Plannable
  <2> QED
    BY <1>1, <2>1, <2>3 DEF part
<1>2. CASE "paths" \notin domains
  BY <1>2, EmptyPart DEF PathPart, Plannable
<1> QED
  BY <1>1, <1>2

LEMMA SocketPartFacts ==
  ASSUME NEW c, NEW domains, NEW rooted, Plannable(c, domains, rooted)
  PROVE  Part(SocketPart(c, domains, rooted), "socket",
              IF "sockets" \in domains THEN ExistsIDs("socket", c.sockets) ELSE {}, rooted)
<1>1. CASE "sockets" \in domains
  <2> DEFINE list == BuildSocketChecks(c.sockets)
             part == SocketPart(c, domains, rooted)
  <2>1. Section(list, "socket") /\ IDsOf(list) = ExistsIDs("socket", c.sockets)
    BY SocketSection DEF Plannable, WellFormed, ExistsIDs
  <2>2. part = IF rooted THEN list ELSE Guarded("socket", list)
    BY <1>1 DEF SocketPart
  <2> HIDE DEF list, part
  <2>3. Part(part, "socket", IDsOf(list), rooted)
    BY <2>1, <2>2, PartFacts DEF Plannable
  <2> QED
    BY <1>1, <2>1, <2>3 DEF part
<1>2. CASE "sockets" \notin domains
  BY <1>2, EmptyPart DEF SocketPart, Plannable
<1> QED
  BY <1>1, <1>2

\* The services whose state only the identity checks need checked.
NeededIDs(c, domains) ==
    IF "identity" \in domains
    THEN {StateOf(c.identity[l].service) : l \in DOMAIN c.identity} ELSE {}

LEMMA ServicePartFacts ==
  ASSUME NEW c, NEW domains, NEW rooted, Plannable(c, domains, rooted)
  PROVE  LET part == ServicePart(c, domains)
         IN  /\ Part(part, "service", OwnIDs(c, domains) \union NeededIDs(c, domains), rooted)
             /\ rooted => part = <<>>
             /\ "identity" \in domains =>
                  \A l \in DOMAIN c.identity : \E r \in ToSet(part) :
                    r.id = StateOf(c.identity[l].service) /\ r.expects = "active"
<1> DEFINE list == ServiceChecks(c, domains)
           part == ServicePart(c, domains)
           states == StatesFor(c, domains)
<1>1. /\ Section(list, "service")
      /\ IDsOf(list) = OwnIDs(c, domains) \union {StateOf(s) : s \in DOMAIN states}
      /\ "identity" \in domains =>
           \A l \in DOMAIN c.identity : \E r \in ToSet(list) :
             /\ r.id = StateOf(c.identity[l].service)
             /\ SemanticallyValid(c) => r.expects = "active"
  BY ServiceChecksFacts DEF Plannable
<1>2. /\ DOMAIN states # {} => "identity" \in domains
      /\ \A s \in DOMAIN states : \E l \in DOMAIN c.identity : s = c.identity[l].service
  BY StatesForFacts DEF Plannable
<1>3. part = Guarded("service", list)
  BY DEF ServicePart
<1> HIDE DEF list, part, states
<1>4. IDsOf(list) = OwnIDs(c, domains) \union NeededIDs(c, domains)
  <2>1. \A s \in DOMAIN states : StateOf(s) \in NeededIDs(c, domains)
    BY <1>2 DEF NeededIDs
  <2>2. ASSUME NEW id \in NeededIDs(c, domains) PROVE id \in IDsOf(list)
    <3>1. "identity" \in domains
      BY DEF NeededIDs
    <3>2. PICK l \in DOMAIN c.identity : id = StateOf(c.identity[l].service)
      BY <3>1 DEF NeededIDs
    <3>3. PICK r \in ToSet(list) : r.id = id
      BY <1>1, <3>1, <3>2
    <3> QED
      BY <3>3 DEF IDsOf
  <2> QED
    BY <1>1, <2>1, <2>2
<1>5. CASE rooted
  <2>1. "identity" \notin domains /\ "services" \notin domains
    BY <1>5 DEF Plannable
  <2>2. OwnIDs(c, domains) = {} /\ NeededIDs(c, domains) = {}
    BY <2>1 DEF OwnIDs, NeededIDs
  <2>3. list = <<>>
    <3>1. ToSet(list) = {}
      BY <1>4, <2>2 DEF IDsOf
    <3> QED
      BY <1>1, <3>1, MemberOf DEF Section
  <2>4. part = <<>>
    BY <1>3, <2>3 DEF Guarded
  <2>5. Part(<<>>, "service", {}, rooted)
    BY EmptyPart DEF Plannable
  <2>6. Part(part, "service", OwnIDs(c, domains) \union NeededIDs(c, domains), rooted)
    BY <2>2, <2>4, <2>5
  <2> QED
    BY <2>1, <2>4, <2>6 DEF part
<1>6. CASE ~rooted
  <2>1. part = IF rooted THEN list ELSE Guarded("service", list)
    BY <1>3, <1>6
  <2>2. Part(part, "service", IDsOf(list), rooted)
    BY <1>1, <2>1, PartFacts DEF Plannable
  <2>3. Covers(part, list)
    BY <1>1, <1>3, GuardedFacts
  <2>4. ASSUME "identity" \in domains, NEW l \in DOMAIN c.identity
        PROVE  \E r \in ToSet(part) :
                 r.id = StateOf(c.identity[l].service) /\ r.expects = "active"
    <3>1. PICK r \in ToSet(list) : /\ r.id = StateOf(c.identity[l].service)
                                   /\ r.expects = "active"
      BY <1>1, <2>4 DEF Plannable
    <3> QED
      BY <2>3, <3>1 DEF Covers
  <2> QED
    BY <1>4, <1>6, <2>2, <2>4 DEF part
<1> QED
  BY <1>5, <1>6

LEMMA IdentityPartFacts ==
  ASSUME NEW c, NEW domains, NEW rooted, Plannable(c, domains, rooted)
  PROVE  LET part == IdentityPart(c, domains)
         IN  /\ part \in Seq(PlannedType) /\ Distinct(part)
             /\ IDsOf(part) = IF "identity" \in domains THEN IdentityIDs(c.identity) ELSE {}
             /\ rooted => part = <<>>
             /\ \A d \in ToSet(part) :
                  /\ d.id.domain = "identity" /\ d.id.kind # "namespace"
                  /\ \E r \in ToSet(ServicePart(c, domains)) :
                       d.prereqs = <<r.id>> /\ r.id.kind = "state" /\ r.expects = "active"
                         /\ r.id.domain = "service"
<1>1. CASE "identity" \in domains
  <2> DEFINE list == BuildIdentityChecks(c.identity)
             served == ServicePart(c, domains)
  <2>1. /\ list \in Seq(PlannedType) /\ Distinct(list)
        /\ IDsOf(list) = IdentityIDs(c.identity)
        /\ \A d \in ToSet(list) :
             /\ d.id.domain = "identity" /\ d.id.kind # "namespace"
             /\ \E l \in DOMAIN c.identity : d.prereqs = <<StateOf(c.identity[l].service)>>
    BY IdentityFacts DEF Plannable, WellFormed
  <2>2. \A l \in DOMAIN c.identity : \E r \in ToSet(served) :
           r.id = StateOf(c.identity[l].service) /\ r.expects = "active"
    BY <1>1, ServicePartFacts
  <2>3. IdentityPart(c, domains) = list
    BY <1>1 DEF IdentityPart
  <2>4. ~rooted
    BY <1>1 DEF Plannable
  <2> HIDE DEF list, served
  <2>5. ASSUME NEW d \in ToSet(list)
        PROVE  \E r \in ToSet(served) : /\ d.prereqs = <<r.id>> /\ r.id.kind = "state"
                                        /\ r.expects = "active" /\ r.id.domain = "service"
    <3>1. PICK l \in DOMAIN c.identity : d.prereqs = <<StateOf(c.identity[l].service)>>
      BY <2>1
    <3>2. PICK r \in ToSet(served) : r.id = StateOf(c.identity[l].service) /\ r.expects = "active"
      BY <2>2
    <3>3. r.id.kind = "state" /\ r.id.domain = "service"
      BY <3>2 DEF StateOf, ID
    <3>4. d.prereqs = <<r.id>>
      BY <3>1, <3>2
    <3> QED
      BY <3>2, <3>3, <3>4
  <2> QED
    BY <1>1, <2>1, <2>3, <2>4, <2>5 DEF served
<1>2. CASE "identity" \notin domains
  <2>1. IdentityPart(c, domains) = <<>>
    BY <1>2 DEF IdentityPart
  <2> DEFINE none == <<>>
  <2>2. none \in Seq(PlannedType) /\ Distinct(none) /\ ToSet(none) = {} /\ IDsOf(none) = {}
    BY DEF Distinct, ToSet, IDsOf
  <2> HIDE DEF none
  <2>3. IdentityPart(c, domains) = none
    BY <2>1 DEF none
  <2> QED
    BY <1>2, <2>1, <2>2, <2>3
<1> QED
  BY <1>1, <1>2

\* What a plan is asked for, and the preflights, that are only there to be waited for.
WantedIDs(c, domains) ==
    (IF "paths" \in domains THEN ExistsIDs("path", c.paths) ELSE {})
      \union (IF "sockets" \in domains THEN ExistsIDs("socket", c.sockets) ELSE {})
      \union OwnIDs(c, domains) \union NeededIDs(c, domains)
      \union (IF "identity" \in domains THEN IdentityIDs(c.identity) ELSE {})
Preflights == {Preflight(d) : d \in {"path", "socket", "service"}}

\* Nothing is unguarded, without a host root; nothing guarded, and nothing to guard, with one.
GuardedIn(plan, rooted) ==
    \A p \in ToSet(plan) :
      IF rooted THEN p.id.kind # "namespace" /\ p.id.domain \in {"path", "socket"}
      ELSE p.id.kind = "namespace" \/ WaitsFor(plan, p, Preflight(Home(p.id.domain)))

ActiveFirst(plan) ==
    \A p \in ToSet(plan) : p.id.domain = "identity" =>
      \E s \in ToSet(plan) : s.id \in ToSet(p.prereqs) /\ s.id.kind = "state"
                             /\ s.expects = "active"

(***************************************************************************)
(* What buildChecksForDomains returns, of every contract and selection it  *)
(* does not refuse: no ID occurs twice and every check waits for checks of *)
(* a lower level that are there; without a host root each is a preflight   *)
(* or waits for that of its domain, with one there are none; an identity   *)
(* check waits for its service to be active; and besides the preflights    *)
(* there are exactly the checks that are asked for.                        *)
(***************************************************************************)
THEOREM PlansAreSound ==
  ASSUME NEW c, NEW domains, NEW rooted, Plannable(c, domains, rooted)
  PROVE  LET plan == Plan(c, domains, rooted)
         IN  /\ plan \in Seq(PlannedType) /\ Distinct(plan) /\ Grounded(plan)
             /\ GuardedIn(plan, rooted) /\ ActiveFirst(plan)
             /\ IDsOf(plan) \ Preflights = WantedIDs(c, domains)
<1> DEFINE P == PathPart(c, domains, rooted)
           S == SocketPart(c, domains, rooted)
           V == ServicePart(c, domains)
           I == IdentityPart(c, domains)
           plan == Plan(c, domains, rooted)
           pids == IF "paths" \in domains THEN ExistsIDs("path", c.paths) ELSE {}
           sids == IF "sockets" \in domains THEN ExistsIDs("socket", c.sockets) ELSE {}
           vids == OwnIDs(c, domains) \union NeededIDs(c, domains)
           iids == IF "identity" \in domains THEN IdentityIDs(c.identity) ELSE {}
<1>1. plan = (P \o S) \o (V \o I)
  BY PlanParts
<1>2. Part(P, "path", pids, rooted) /\ Part(S, "socket", sids, rooted)
  BY PathPartFacts, SocketPartFacts
<1>3. Part(V, "service", vids, rooted) /\ (rooted => V = <<>>)
  BY ServicePartFacts
<1>4. /\ I \in Seq(PlannedType) /\ Distinct(I) /\ IDsOf(I) = iids /\ (rooted => I = <<>>)
      /\ \A d \in ToSet(I) :
           /\ d.id.domain = "identity" /\ d.id.kind # "namespace"
           /\ \E r \in ToSet(V) :
                d.prereqs = <<r.id>> /\ r.id.kind = "state" /\ r.expects = "active"
                  /\ r.id.domain = "service"
  BY IdentityPartFacts
<1>5. WantedIDs(c, domains) = pids \union sids \union vids \union iids
  BY DEF WantedIDs
<1> HIDE DEF P, S, V, I, plan, pids, sids, vids, iids
<1>6. /\ P \in Seq(PlannedType) /\ Distinct(P) /\ Grounded(P)
      /\ S \in Seq(PlannedType) /\ Distinct(S) /\ Grounded(S)
      /\ V \in Seq(PlannedType) /\ Distinct(V) /\ Grounded(V)
      /\ \A d \in ToSet(P) : d.id.domain = "path"
      /\ \A d \in ToSet(S) : d.id.domain = "socket"
      /\ \A d \in ToSet(V) : d.id.domain = "service"
  BY <1>2, <1>3 DEF Part, Fits
<1>7. P \o S \in Seq(PlannedType) /\ Distinct(P \o S) /\ ToSet(P \o S) = ToSet(P) \union ToSet(S)
  <2>1. Apart(P, S)
    BY <1>6 DEF Apart
  <2> QED
    BY <1>6, <2>1, ConcatFacts
<1>8. V \o I \in Seq(PlannedType) /\ Distinct(V \o I) /\ ToSet(V \o I) = ToSet(V) \union ToSet(I)
  <2>1. Apart(V, I)
    BY <1>4, <1>6 DEF Apart
  <2> QED
    BY <1>4, <1>6, <2>1, ConcatFacts
<1> DEFINE PS == P \o S
           VI == V \o I
<1> HIDE DEF PS, VI
<1>9. /\ plan \in Seq(PlannedType) /\ Distinct(plan)
      /\ ToSet(plan) = ToSet(P) \union ToSet(S) \union ToSet(V) \union ToSet(I)
  <2>1. Apart(PS, VI)
    BY <1>4, <1>6, <1>7, <1>8 DEF Apart, PS, VI
  <2>2. PS \o VI \in Seq(PlannedType) /\ Distinct(PS \o VI)
        /\ ToSet(PS \o VI) = ToSet(PS) \union ToSet(VI)
    <3>1. PS \in Seq(PlannedType) /\ VI \in Seq(PlannedType) /\ Distinct(PS) /\ Distinct(VI)
      BY <1>7, <1>8 DEF PS, VI
    <3> QED
      BY <2>1, <3>1, ConcatFacts
  <2>3. plan = PS \o VI
    BY <1>1 DEF PS, VI
  <2>4. ToSet(PS) = ToSet(P) \union ToSet(S) /\ ToSet(VI) = ToSet(V) \union ToSet(I)
    BY <1>7, <1>8 DEF PS, VI
  <2> QED
    BY <2>2, <2>3, <2>4
<1>10. ASSUME NEW d \in ToSet(plan), NEW q \in ToSet(d.prereqs)
       PROVE  \E r \in ToSet(plan) : r.id = q /\ Level(q) < Level(d.id)
  <2>1. ASSUME NEW list, Grounded(list), d \in ToSet(list), ToSet(list) \subseteq ToSet(plan)
        PROVE  \E r \in ToSet(plan) : r.id = q /\ Level(q) < Level(d.id)
    BY <1>10, <2>1 DEF Grounded
  <2>2. CASE d \in ToSet(P) \/ d \in ToSet(S) \/ d \in ToSet(V)
    BY <1>6, <1>9, <2>1, <2>2
  <2>3. CASE d \in ToSet(I)
    <3>1. PICK r \in ToSet(V) : d.prereqs = <<r.id>> /\ r.id.kind = "state"
                                /\ r.id.domain = "service"
      BY <1>4, <2>3
    <3>2. q = r.id
      BY <1>10, <3>1 DEF ToSet
    <3>3. Level(d.id) = 3 /\ Level(r.id) = 1
      BY <1>4, <2>3, <3>1 DEF Level
    <3> QED
      BY <1>9, <3>2, <3>3
  <2> QED
    BY <1>9, <2>2, <2>3
<1>11. ASSUME NEW d \in ToSet(I)
       PROVE  \E r \in ToSet(plan) : /\ r.id \in ToSet(d.prereqs) /\ r.id.kind = "state"
                                     /\ r.expects = "active" /\ r \in ToSet(V)
  <2>1. PICK r \in ToSet(V) : d.prereqs = <<r.id>> /\ r.id.kind = "state" /\ r.expects = "active"
    BY <1>4
  <2>2. r.id \in ToSet(d.prereqs)
    BY <2>1 DEF ToSet
  <2> QED
    BY <1>9, <2>1, <2>2
<1>12. ActiveFirst(plan)
  <2> SUFFICES ASSUME NEW d \in ToSet(plan), d.id.domain = "identity"
               PROVE  \E s \in ToSet(plan) : s.id \in ToSet(d.prereqs) /\ s.id.kind = "state"
                                             /\ s.expects = "active"
    BY DEF ActiveFirst
  <2>1. d \in ToSet(I)
    BY <1>6, <1>9
  <2> QED
    BY <1>11, <2>1
<1>13. ASSUME ~rooted PROVE GuardedIn(plan, rooted)
  <2> SUFFICES ASSUME NEW d \in ToSet(plan), d.id.kind # "namespace"
               PROVE  WaitsFor(plan, d, Preflight(Home(d.id.domain)))
    BY <1>13 DEF GuardedIn
  <2>1. CASE d \in ToSet(P)
    BY <1>2, <1>6, <1>13, <2>1 DEF Part, WaitsFor, Home
  <2>2. CASE d \in ToSet(S)
    BY <1>2, <1>6, <1>13, <2>2 DEF Part, WaitsFor, Home
  <2>3. CASE d \in ToSet(V)
    BY <1>3, <1>6, <1>13, <2>3 DEF Part, WaitsFor, Home
  <2>4. CASE d \in ToSet(I)
    <3>1. PICK r \in ToSet(plan) :
            r.id \in ToSet(d.prereqs) /\ r.id.kind = "state" /\ r \in ToSet(V)
      BY <1>11, <2>4
    <3>2. Preflight("service") \in ToSet(r.prereqs)
      BY <1>3, <1>13, <3>1 DEF Part
    <3>3. Home(d.id.domain) = "service"
      BY <1>4, <2>4 DEF Home
    <3> QED
      BY <3>1, <3>2, <3>3 DEF WaitsFor
  <2> QED
    BY <1>9, <2>1, <2>2, <2>3, <2>4
<1>14. ASSUME rooted PROVE GuardedIn(plan, rooted)
  <2>1. ToSet(V) = {} /\ ToSet(I) = {}
    BY <1>3, <1>4, <1>14 DEF ToSet
  <2> QED
    BY <1>2, <1>6, <1>9, <1>14, <2>1 DEF GuardedIn, Part
<1>15. IDsOf(plan) \ Preflights = pids \union sids \union vids \union iids
  <2>1. IDsOf(plan) = IDsOf(P) \union IDsOf(S) \union IDsOf(V) \union IDsOf(I)
    BY <1>9 DEF IDsOf
  <2>2. ASSUME NEW id \in Preflights PROVE id.kind = "namespace"
    BY PreflightFacts DEF Preflights
  <2>3. \A id \in iids : id.kind # "namespace"
    BY <1>4 DEF IDsOf
  <2>4. \A d \in {"path", "socket", "service"} :
          Preflight(d).domain = d /\ Preflight(d) \in Preflights
    BY PreflightFacts DEF Preflights
  <2>5. ASSUME NEW id \in Preflights
        PROVE  id = Preflight("path") \/ id = Preflight("socket") \/ id = Preflight("service")
    BY DEF Preflights
  <2>6. /\ \A id \in IDsOf(P) : id.domain = "path"
        /\ \A id \in IDsOf(S) : id.domain = "socket"
        /\ \A id \in IDsOf(V) : id.domain = "service"
    BY <1>6 DEF IDsOf
  <2>7. /\ IDsOf(P) \ Preflights = pids /\ IDsOf(S) \ Preflights = sids
        /\ IDsOf(V) \ Preflights = vids
    <3>1. /\ IDsOf(P) \ {Preflight("path")} = pids /\ IDsOf(S) \ {Preflight("socket")} = sids
          /\ IDsOf(V) \ {Preflight("service")} = vids
      BY <1>2, <1>3 DEF Part
    <3> QED
      BY <2>4, <2>5, <2>6, <3>1
  <2>8. iids \cap Preflights = {}
    BY <2>2, <2>3
  <2> QED
    BY <1>4, <2>1, <2>7, <2>8
<1>16. GuardedIn(plan, rooted)
  BY <1>13, <1>14 DEF Plannable
<1> QED
  BY <1>5, <1>9, <1>10, <1>12, <1>15, <1>16 DEF plan, Grounded
=============================================================================
