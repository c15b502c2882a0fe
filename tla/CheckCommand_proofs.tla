-------------------------- MODULE CheckCommand_proofs --------------------------
(***************************************************************************)
(* The check command: whatever contracts, of any size, and whatever        *)
(* filters it is given, what it hands to the engine is the plan that       *)
(* Planner_proofs shows sound, its exit code is that of the results, and   *)
(* what it shows of a text, however long, is safe.                         *)
(***************************************************************************)
EXTENDS CheckCommand, Planner_proofs

-----------------------------------------------------------------------------
(* The evidence *)

Kinds == {"char", "secret", "stray", "mark", "torn", "suffix"}
Sized == [kind : Kinds, size : Nat \ {0}]

LEMMA SizeFacts ==
  ASSUME NEW text \in Seq(Sized)
  PROVE  /\ Len(text) \in Nat
         /\ \A i \in 1..Len(text) : /\ text[i] \in Sized /\ text[i].size \in Nat
                                    /\ text[i].size > 0 /\ text[i].kind \in Kinds
<1>1. Len(text) \in Nat /\ \A i \in 1..Len(text) : text[i] \in Sized
  OBVIOUS
<1>2. \A p \in Sized : p.size \in Nat /\ p.size > 0 /\ p.kind \in Kinds
  BY DEF Sized
<1> QED
  BY <1>1, <1>2

\* Pieces follow one another.
Sums(f, text, m) ==
    /\ f[0] = 0
    /\ \A i \in 0..m : i + 1 \in 0..m => f[i + 1] = f[i] + text[i + 1].size

LEMMA SumsExist ==
  ASSUME NEW text \in Seq(Sized)
  PROVE  \E f \in [0..Len(text) -> Nat] : Sums(f, text, Len(text))
<1> DEFINE n == Len(text)
           Has(m) == \E f \in [0..m -> Nat] : Sums(f, text, m)
           Reached == {m \in Nat : m > n \/ Has(m)}
<1>1. n \in Nat /\ \A i \in 1..n : text[i].size \in Nat
  BY SizeFacts
<1>2. 0 \in Reached
  <2> DEFINE f == [i \in 0..0 |-> 0]
  <2>1. f \in [0..0 -> Nat] /\ f[0] = 0
    OBVIOUS
  <2> HIDE DEF f
  <2>2. Sums(f, text, 0)
    BY <2>1 DEF Sums
  <2> QED
    BY <2>1, <2>2
<1>3. ASSUME NEW m \in 0..n, m \in Reached PROVE m + 1 \in Reached
  <2>1. CASE m = n
    BY <1>1, <2>1
  <2>2. CASE m # n
    <3>1. PICK f \in [0..m -> Nat] : Sums(f, text, m)
      BY <1>1, <1>3
    <3> DEFINE last == f[m] + text[m + 1].size
               g == [i \in 0..(m + 1) |-> IF i = m + 1 THEN last ELSE f[i]]
    <3>2. m \in Nat /\ m + 1 \in 1..n /\ last \in Nat
      BY <1>1, <2>2, <3>1
    <3> HIDE DEF last, n
    <3>3. g \in [0..(m + 1) -> Nat]
      BY <3>1, <3>2
    <3>4. g[m + 1] = last /\ \A i \in 0..m : g[i] = f[i]
      BY <3>2
    <3> HIDE DEF g
    <3>5. ASSUME NEW i \in 0..(m + 1), i + 1 \in 0..(m + 1)
          PROVE  g[i + 1] = g[i] + text[i + 1].size
      <4>1. CASE i = m
        <5>1. g[i + 1] = last /\ g[i] = f[m]
          BY <3>2, <3>4, <4>1
        <5> QED
          BY <4>1, <5>1 DEF last
      <4>2. CASE i # m
        <5>1. i \in 0..m /\ i + 1 \in 0..m
          BY <3>2, <3>5, <4>2
        <5> QED
          BY <3>1, <3>4, <5>1 DEF Sums
      <4> QED
        BY <4>1, <4>2
    <3>6. g[0] = 0
      BY <3>1, <3>2, <3>4 DEF Sums
    <3>7. Sums(g, text, m + 1)
      BY <3>5, <3>6 DEF Sums
    <3>8. Has(m + 1)
      BY <3>3, <3>7
    <3> HIDE DEF Has
    <3> QED
      BY <3>2, <3>8
  <2> QED
    BY <2>1, <2>2
<1> HIDE DEF Reached, n
<1>4. 1..n \subseteq Reached
  <2>1. CASE n = 0
    BY <2>1
  <2>2. CASE n # 0
    <3>1. 1 \in Reached
      BY <1>1, <1>2, <1>3, 0 + 1 = 1
    <3>2. \A m \in 1..n : m \in Reached => m + 1 \in Reached
      BY <1>3
    <3> QED
      BY <1>1, <3>1, <3>2, UpTo
  <2> QED
    BY <2>1, <2>2
<1>5. n \in Reached
  BY <1>1, <1>2, <1>4
<1> QED
  BY <1>1, <1>5 DEF Reached, n

LEMMA EndsFacts ==
  ASSUME NEW text \in Seq(Sized)
  PROVE  /\ Ends(text) \in [0..Len(text) -> Nat]
         /\ Ends(text)[0] = 0
         /\ \A i \in 1..Len(text) : Ends(text)[i] = Ends(text)[i - 1] + text[i].size
<1> DEFINE n == Len(text)
           Summed(f) == [i \in 0..n |-> IF i = 0 THEN 0 ELSE f[i - 1] + text[i].size]
           end == CHOOSE f : f = Summed(f)
<1>1. PICK f \in [0..n -> Nat] : Sums(f, text, n)
  BY SumsExist
<1>2. n \in Nat
  OBVIOUS
<1> HIDE DEF n
<1>3. \E g : g = Summed(g)
  <2>1. ASSUME NEW i \in 0..n PROVE f[i] = Summed(f)[i]
    <3>1. CASE i = 0
      BY <1>1, <3>1 DEF Sums
    <3>2. CASE i # 0
      <4>1. i - 1 \in 0..n /\ (i - 1) + 1 = i
        BY <1>2, <3>2
      <4>2. f[i] = f[i - 1] + text[i].size
        BY <1>1, <4>1 DEF Sums
      <4> QED
        BY <3>2, <4>2
    <3> QED
      BY <3>1, <3>2
  <2>2. f = [i \in 0..n |-> f[i]] /\ Summed(f) = [i \in 0..n |-> Summed(f)[i]]
    BY <1>1
  <2> HIDE DEF Summed
  <2>3. f = Summed(f)
    BY <2>1, <2>2
  <2> QED
    BY <2>3
<1>4. end = Summed(end)
  <2> HIDE DEF Summed
  <2> QED
    BY <1>3
<1>5. Ends(text) = end
  BY DEF Ends, n
<1> HIDE DEF end
<1>6. \A i \in 0..n : end[i] = IF i = 0 THEN 0 ELSE end[i - 1] + text[i].size
  BY <1>4
<1>7. end[0] = 0 /\ \A i \in 1..n : end[i] = end[i - 1] + text[i].size
  BY <1>2, <1>6
<1>8. \A i \in 1..n : text[i].size \in Nat
  BY SizeFacts DEF n
<1>9. \A i \in 0..n : end[i] \in Nat
  <2> DEFINE Typed == {i \in Nat : i > n \/ end[i] \in Nat}
  <2>1. ASSUME NEW i \in 0..n, i \in Typed PROVE i + 1 \in Typed
    <3>1. CASE i = n
      BY <1>2, <3>1
    <3>2. CASE i # n
      <4>1. i + 1 \in 1..n /\ (i + 1) - 1 = i /\ end[i] \in Nat
        BY <1>2, <2>1, <3>2
      <4>2. end[i + 1] = end[i] + text[i + 1].size /\ text[i + 1].size \in Nat
        BY <1>7, <1>8, <4>1
      <4>3. end[i + 1] \in Nat
        BY <4>1, <4>2
      <4> QED
        BY <4>1, <4>3
    <3> QED
      BY <3>1, <3>2
  <2>2. 0 \in Typed
    BY <1>7
  <2> HIDE DEF Typed
  <2>3. 1 \in Typed
    BY <1>2, <2>1, <2>2, 0 + 1 = 1
  <2>4. \A i \in 1..n : i \in Typed => i + 1 \in Typed
    BY <1>2, <2>1
  <2>5. 1..n \subseteq Typed
    BY <1>2, <2>3, <2>4, UpTo
  <2> QED
    BY <1>2, <2>2, <2>5 DEF Typed
<1>10. end = [i \in 0..n |-> end[i]]
  BY <1>4
<1>11. end \in [0..n -> Nat]
  BY <1>9, <1>10
<1> QED
  BY <1>5, <1>7, <1>11 DEF n

\* A later piece ends later, and every number up to the size lies in front of one or at the end.
LEMMA EndsAscend ==
  ASSUME NEW text \in Seq(Sized), NEW i \in 0..Len(text), NEW j \in 0..Len(text), i < j
  PROVE  Ends(text)[i] < Ends(text)[j]
<1> DEFINE n == Len(text)
           Later == {k \in Nat : k <= i \/ k > n \/ Ends(text)[i] < Ends(text)[k]}
<1>1. n \in Nat /\ i \in Nat /\ j \in Nat /\ j \in 1..n
  OBVIOUS
<1>2. \A k \in 1..n : text[k].size \in Nat /\ text[k].size > 0
  BY SizeFacts DEF n
<1>3. \A k \in 0..n : Ends(text)[k] \in Nat
  BY EndsFacts DEF n
<1>4. \A k \in 1..n : Ends(text)[k] = Ends(text)[k - 1] + text[k].size
  BY EndsFacts DEF n
<1> HIDE DEF n
<1>5. ASSUME NEW k \in 0..n, k \in Later PROVE k + 1 \in Later
  <2>1. CASE k < i \/ k = n
    BY <1>1, <2>1
  <2>2. CASE ~(k < i) /\ k # n
    <3>1. k + 1 \in 1..n /\ (k + 1) - 1 = k /\ k \in Nat
      BY <1>1, <2>2
    <3>2. Ends(text)[k + 1] = Ends(text)[k] + text[k + 1].size
      BY <1>4, <3>1
    <3>3. Ends(text)[i] <= Ends(text)[k]
      <4>1. CASE k = i
        BY <1>1, <1>3, <4>1
      <4>2. CASE k # i
        BY <1>1, <1>3, <1>5, <2>2, <4>2
      <4> QED
        BY <4>1, <4>2
    <3>4. text[k + 1].size \in Nat /\ text[k + 1].size > 0
      BY <1>2, <3>1
    <3>5. Ends(text)[i] \in Nat /\ Ends(text)[k] \in Nat
      BY <1>1, <1>3
    <3>6. Ends(text)[i] < Ends(text)[k + 1]
      BY <3>2, <3>3, <3>4, <3>5
    <3> QED
      BY <3>1, <3>6
  <2> QED
    BY <2>1, <2>2
<1>6. 0 \in Later
  BY <1>1
<1> HIDE DEF Later
<1>7. 1 \in Later /\ \A k \in 1..n : k \in Later => k + 1 \in Later
  BY <1>1, <1>5, <1>6, 0 + 1 = 1
<1>8. 1..n \subseteq Later
  BY <1>1, <1>7, UpTo
<1> QED
  BY <1>1, <1>8 DEF Later

\* Pieces of the same sizes end at the same places.
LEMMA EndsAgree ==
  ASSUME NEW one \in Seq(Sized), NEW other \in Seq(Sized), NEW n \in Nat,
         n <= Len(one), n <= Len(other), \A i \in 1..n : one[i].size = other[i].size
  PROVE  \A i \in 0..n : Ends(one)[i] = Ends(other)[i]
<1> DEFINE Alike == {i \in Nat : i > n \/ Ends(one)[i] = Ends(other)[i]}
<1>1. Len(one) \in Nat /\ Len(other) \in Nat
  OBVIOUS
<1>2. ASSUME NEW i \in 0..n, i \in Alike PROVE i + 1 \in Alike
  <2>1. CASE i = n
    BY <2>1
  <2>2. CASE i # n
    <3>1. /\ i + 1 \in 1..n /\ i + 1 \in 1..Len(one) /\ i + 1 \in 1..Len(other)
          /\ (i + 1) - 1 = i /\ Ends(one)[i] = Ends(other)[i]
      BY <1>1, <1>2, <2>2
    <3>2. Ends(one)[i + 1] = Ends(one)[i] + one[i + 1].size
      BY <3>1, EndsFacts
    <3>3. Ends(other)[i + 1] = Ends(other)[i] + other[i + 1].size
      BY <3>1, EndsFacts
    <3>4. Ends(one)[i + 1] = Ends(other)[i + 1]
      BY <3>1, <3>2, <3>3
    <3> QED
      BY <3>1, <3>4
  <2> QED
    BY <2>1, <2>2
<1>3. 0 \in Alike
  BY EndsFacts
<1> HIDE DEF Alike
<1>4. 1 \in Alike /\ \A i \in 1..n : i \in Alike => i + 1 \in Alike
  <2>1. 0 \in 0..n /\ 0 + 1 = 1 /\ \A i \in 1..n : i \in 0..n
    OBVIOUS
  <2> QED
    BY <1>2, <1>3, <2>1
<1>5. 1..n \subseteq Alike
  BY <1>4, UpTo
<1> QED
  BY <1>3, <1>5 DEF Alike

\* What is left of a text in front of a cut: whole pieces, and perhaps a torn one.
LEMMA PrefixFacts ==
  ASSUME NEW text \in Seq(Sized), NEW cut \in Nat
  PROVE  \E m \in 0..Len(text) :
           /\ \A i \in 1..Len(text) : Ends(text)[i - 1] < cut <=> i <= m
           /\ Prefix(text, cut) \in Seq(Sized) /\ Len(Prefix(text, cut)) = m
           /\ \A i \in 1..m :
                /\ Prefix(text, cut)[i].kind \in {text[i].kind, "torn"}
                /\ Ends(text)[i] <= cut => Prefix(text, cut)[i] = text[i]
                /\ Ends(text)[i] > cut => Prefix(text, cut)[i].size = cut - Ends(text)[i - 1]
<1> DEFINE n == Len(text)
           inFront == {i \in DOMAIN text : Offset(text, i) < cut}
           m == Max({0} \union inFront)
           p == Prefix(text, cut)
<1>1. n \in Nat /\ DOMAIN text = 1..n
  OBVIOUS
<1>2. {0} \union inFront \subseteq 0..n
  BY <1>1
<1>3. m \in {0} \union inFront /\ \A i \in {0} \union inFront : i <= m
  BY <1>1, <1>2, MaxFacts
<1>4. p = [i \in 1..m |-> IF Offset(text, i) + text[i].size <= cut THEN text[i]
                          ELSE Piece("torn", cut - Offset(text, i))]
  BY DEF Prefix
<1>5. \A i \in 1..n : Offset(text, i) < cut <=> i \in inFront
  BY <1>1
<1>6. m \in 0..n
  BY <1>2, <1>3
<1>7. \A i \in 1..n : /\ Ends(text)[i] = Ends(text)[i - 1] + text[i].size
                      /\ i - 1 \in 0..n /\ i \in 0..n
  BY <1>1, EndsFacts DEF n
<1>8. \A i \in 0..n : Ends(text)[i] \in Nat
  BY EndsFacts DEF n
<1> HIDE DEF n, m, p
<1>9. ASSUME NEW i \in 1..n PROVE Ends(text)[i - 1] < cut <=> i <= m
  <2>1. CASE Ends(text)[i - 1] < cut
    <3>1. i \in inFront
      BY <1>5, <2>1 DEF Offset
    <3> QED
      BY <1>3, <2>1, <3>1
  <2>2. CASE i <= m
    <3>1. m \in 1..n /\ m \in inFront
      BY <1>1, <1>3, <1>6, <2>2
    <3>2. Ends(text)[m - 1] < cut
      BY <1>5, <3>1 DEF Offset
    <3>3. CASE i = m
      BY <3>2, <3>3
    <3>4. CASE i # m
      <4>1. i - 1 < m - 1 /\ i - 1 \in 0..n /\ m - 1 \in 0..n
        BY <1>1, <2>2, <3>1, <3>4
      <4>2. Ends(text)[i - 1] < Ends(text)[m - 1]
        BY <4>1, EndsAscend DEF n
      <4> QED
        <5>1. Ends(text)[i - 1] \in Nat /\ Ends(text)[m - 1] \in Nat
          BY <1>8, <4>1
        <5> QED
          BY <2>2, <3>2, <4>2, <5>1
    <3> QED
      BY <3>3, <3>4
  <2> QED
    BY <2>1, <2>2
<1>10. ASSUME NEW i \in 1..m
       PROVE  /\ p[i] \in Sized
              /\ p[i].kind \in {text[i].kind, "torn"}
              /\ Ends(text)[i] <= cut => p[i] = text[i]
              /\ Ends(text)[i] > cut => p[i].size = cut - Ends(text)[i - 1]
  <2>1. i \in 1..n
    BY <1>1, <1>6
  <2>2. Offset(text, i) = Ends(text)[i - 1] /\ Offset(text, i) + text[i].size = Ends(text)[i]
    BY <1>7, <2>1 DEF Offset
  <2>3. /\ Ends(text)[i - 1] \in Nat /\ Ends(text)[i] \in Nat
        /\ Ends(text)[i - 1] < cut /\ text[i] \in Sized
    BY <1>6, <1>7, <1>8, <1>9, <2>1, SizeFacts DEF n
  <2>4. p[i] = IF Ends(text)[i] <= cut THEN text[i] ELSE Piece("torn", cut - Ends(text)[i - 1])
    BY <1>4, <2>2
  <2>5. CASE Ends(text)[i] <= cut
    BY <2>3, <2>4, <2>5
  <2>6. CASE Ends(text)[i] > cut
    <3>1. p[i] = Piece("torn", cut - Ends(text)[i - 1])
      BY <2>3, <2>4, <2>6
    <3>2. cut - Ends(text)[i - 1] \in Nat \ {0}
      BY <2>3
    <3> QED
      BY <2>3, <2>6, <3>1, <3>2 DEF Piece, Sized, Kinds
  <2> QED
    BY <2>3, <2>5, <2>6
<1>11. p \in Seq(Sized) /\ Len(p) = m
  <2>1. p = [i \in 1..m |-> p[i]]
    BY <1>4
  <2>2. m \in Nat
    BY <1>1, <1>6
  <2> QED
    BY <1>10, <2>1, <2>2
<1> QED
  BY <1>6, <1>9, <1>10, <1>11 DEF n, p

LEMMA PrefixFits ==
  ASSUME NEW text \in Seq(Sized), NEW cut \in Nat
  PROVE  Bytes(Prefix(text, cut)) \in Nat /\ Bytes(Prefix(text, cut)) <= cut
<1> DEFINE p == Prefix(text, cut)
           n == Len(text)
<1>1. PICK m \in 0..n :
        /\ \A i \in 1..n : Ends(text)[i - 1] < cut <=> i <= m
        /\ p \in Seq(Sized) /\ Len(p) = m
        /\ \A i \in 1..m : /\ Ends(text)[i] <= cut => p[i] = text[i]
                           /\ Ends(text)[i] > cut => p[i].size = cut - Ends(text)[i - 1]
  BY PrefixFacts DEF n, p
<1>2. n \in Nat /\ m \in Nat /\ m <= n /\ Bytes(p) = Ends(p)[m]
  BY <1>1 DEF Bytes
<1>3. \A i \in 0..n : Ends(text)[i] \in Nat
  BY EndsFacts DEF n
<1>4. /\ Ends(p) \in [0..m -> Nat] /\ Ends(p)[0] = 0
      /\ \A i \in 1..m : Ends(p)[i] = Ends(p)[i - 1] + p[i].size
  BY <1>1, EndsFacts
<1>5. \A i \in 1..n : Ends(text)[i] = Ends(text)[i - 1] + text[i].size
  BY EndsFacts DEF n
<1> SUFFICES Bytes(p) \in Nat /\ Bytes(p) <= cut
  OBVIOUS
<1> HIDE DEF p
<1>6. CASE m = 0
  BY <1>2, <1>4, <1>6
<1>7. CASE m # 0
  <2>1. m \in 1..n /\ m - 1 \in 0..n /\ m - 1 \in Nat /\ m \in 1..m /\ m \in 0..m /\ m \in 0..n
    BY <1>2, <1>7
  <2>2. Ends(text)[m - 1] < cut
    BY <1>1, <2>1
  <2>3. ASSUME NEW i \in 1..(m - 1) PROVE p[i].size = text[i].size
    <3>1. i \in 1..n /\ i + 1 \in 1..n /\ (i + 1) - 1 = i /\ i + 1 <= m /\ i \in 1..m /\ i \in 0..n
      BY <1>2, <2>1
    <3>2. Ends(text)[i] < cut
      BY <1>1, <3>1
    <3>3. Ends(text)[i] <= cut
      BY <1>3, <3>1, <3>2
    <3> QED
      BY <1>1, <3>1, <3>3
  <2>4. Ends(p)[m - 1] = Ends(text)[m - 1]
    <3>1. m - 1 <= Len(p) /\ m - 1 <= Len(text) /\ m - 1 \in 0..(m - 1)
      BY <1>1, <1>2, <2>1 DEF n
    <3> QED
      BY <1>1, <2>1, <2>3, <3>1, EndsAgree
  <2>5. Ends(p)[m] = Ends(text)[m - 1] + p[m].size
    BY <1>4, <2>1, <2>4
  <2>6. Ends(text)[m - 1] \in Nat /\ Ends(text)[m] \in Nat
    BY <1>3, <2>1
  <2>7. CASE Ends(text)[m] <= cut
    <3>1. p[m] = text[m] /\ Ends(text)[m] = Ends(text)[m - 1] + text[m].size
      BY <1>1, <1>5, <2>1, <2>7
    <3>2. Ends(p)[m] = Ends(text)[m]
      BY <2>5, <3>1
    <3> QED
      BY <1>2, <2>6, <2>7, <3>2
  <2>8. CASE Ends(text)[m] > cut
    <3>1. p[m].size = cut - Ends(text)[m - 1]
      BY <1>1, <2>1, <2>8
    <3>2. Ends(p)[m] = cut
      BY <2>5, <2>6, <3>1
    <3> QED
      BY <1>2, <3>2
  <2> QED
    BY <2>6, <2>7, <2>8
<1> QED
  BY <1>2, <1>6, <1>7

\* A cut between two pieces tears none.
LEMMA WholePrefix ==
  ASSUME NEW text \in Seq(Sized), NEW k \in 0..Len(text)
  PROVE  Prefix(text, Ends(text)[k]) = SubSeq(text, 1, k)
<1> DEFINE cut == Ends(text)[k]
           p == Prefix(text, cut)
           n == Len(text)
<1>1. n \in Nat /\ k \in Nat /\ k <= n /\ cut \in Nat
  BY EndsFacts
<1>2. \A i \in 0..n : Ends(text)[i] \in Nat
  BY EndsFacts DEF n
<1>3. PICK m \in 0..n :
        /\ \A i \in 1..n : Ends(text)[i - 1] < cut <=> i <= m
        /\ p \in Seq(Sized) /\ Len(p) = m
        /\ \A i \in 1..m : Ends(text)[i] <= cut => p[i] = text[i]
  BY <1>1, PrefixFacts DEF n, p
<1> HIDE DEF cut, p, n
<1>4. ASSUME NEW i \in 0..n PROVE /\ i < k => Ends(text)[i] < cut
                                  /\ i > k => Ends(text)[i] > cut
                                  /\ i = k => Ends(text)[i] = cut
  <2>1. i \in 0..Len(text)
    BY DEF n
  <2>2. i < k => Ends(text)[i] < cut
    BY <2>1, EndsAscend DEF cut
  <2>3. i > k => Ends(text)[i] > cut
    BY <1>1, <1>2, <2>1, EndsAscend DEF cut
  <2> QED
    BY <2>2, <2>3 DEF cut
<1>5. ASSUME NEW i \in 1..n PROVE i <= m <=> i <= k
  <2>1. i - 1 \in 0..n /\ i - 1 \in Nat /\ i \in Nat /\ Ends(text)[i - 1] \in Nat
    BY <1>1, <1>2
  <2>2. Ends(text)[i - 1] < cut <=> i - 1 < k
    BY <1>1, <1>4, <2>1
  <2> QED
    BY <1>1, <1>3, <2>1, <2>2
<1>6. m = k
  <2>1. CASE m < k
    <3>1. k \in 1..n /\ ~(k <= m)
      BY <1>1, <1>3, <2>1
    <3> QED
      BY <1>1, <1>5, <3>1
  <2>2. CASE m > k
    <3>1. m \in 1..n /\ ~(m <= k) /\ m <= m
      BY <1>1, <1>3, <2>2
    <3> QED
      BY <1>5, <3>1
  <2> QED
    BY <1>1, <1>3, <2>1, <2>2
<1>7. ASSUME NEW i \in 1..k PROVE p[i] = text[i]
  <2>1. i \in 0..n /\ i \in 1..m /\ Ends(text)[i] \in Nat /\ (i < k \/ i = k)
    BY <1>1, <1>2, <1>6
  <2>2. Ends(text)[i] <= cut
    BY <1>1, <1>4, <2>1
  <2> QED
    BY <1>3, <2>1, <2>2
<1>8. SubSeq(text, 1, k) \in Seq(Sized) /\ Len(SubSeq(text, 1, k)) = k
      /\ \A i \in 1..k : SubSeq(text, 1, k)[i] = text[i]
  BY <1>1 DEF n
<1>9. p = [i \in 1..k |-> p[i]] /\ SubSeq(text, 1, k) = [i \in 1..k |-> SubSeq(text, 1, k)[i]]
  BY <1>3, <1>6, <1>8
<1> QED
  BY <1>7, <1>8, <1>9 DEF p, cut

\* The last piece in front of the first that does not fit.
LEMMA CutFacts ==
  ASSUME NEW text \in Seq(Sized), NEW limit \in Nat
  PROVE  \E k \in 0..Len(text) :
           /\ Cut(text, limit) = IF k = 0 THEN 0 ELSE Offset(text, k) + RuneLen(text[k])
           /\ \A j \in 1..k : Offset(text, j) + RuneLen(text[j]) <= limit
           /\ k < Len(text) =>
                \E j \in 1..(k + 1) : ~(Offset(text, j) + RuneLen(text[j]) <= limit)
<1> DEFINE n == Len(text)
           after(i) == Offset(text, i) + RuneLen(text[i])
           fits == {i \in DOMAIN text : \A j \in 1..i : after(j) <= limit}
           k == Max({0} \union fits)
<1>1. n \in Nat /\ DOMAIN text = 1..n
  OBVIOUS
<1>2. {0} \union fits \subseteq 0..n
  BY <1>1
<1>3. k \in {0} \union fits /\ \A i \in {0} \union fits : i <= k
  BY <1>1, <1>2, MaxFacts
<1>4. Cut(text, limit) = IF k = 0 THEN 0 ELSE after(k)
  BY DEF Cut
<1>5. \A i \in 1..n : i \in fits <=> \A j \in 1..i : after(j) <= limit
  BY <1>1
<1>6. k \in 0..n
  BY <1>2, <1>3
<1> HIDE DEF n, k, fits, after
<1>7. \A j \in 1..k : after(j) <= limit
  <2>1. CASE k = 0
    BY <2>1
  <2>2. CASE k # 0
    <3>1. k \in 1..n /\ k \in fits
      BY <1>1, <1>3, <1>6, <2>2
    <3> QED
      BY <1>5, <3>1
  <2> QED
    BY <2>1, <2>2
<1>8. ASSUME k < n PROVE \E j \in 1..(k + 1) : ~(after(j) <= limit)
  <2>1. k + 1 \in 1..n /\ k \in Nat
    BY <1>1, <1>6, <1>8
  <2>2. k + 1 \notin fits
    BY <1>3, <2>1
  <2> QED
    BY <1>5, <2>1, <2>2
<1> QED
  BY <1>4, <1>6, <1>7, <1>8 DEF n, after

LEMMA CutFits ==
  ASSUME NEW text \in Seq(Sized), NEW limit \in Nat
  PROVE  Cut(text, limit) \in Nat /\ Cut(text, limit) <= limit
<1> DEFINE n == Len(text)
<1>1. PICK k \in 0..n :
        /\ Cut(text, limit) = IF k = 0 THEN 0 ELSE Offset(text, k) + RuneLen(text[k])
        /\ \A j \in 1..k : Offset(text, j) + RuneLen(text[j]) <= limit
  BY CutFacts DEF n
<1>2. n \in Nat /\ k \in Nat /\ k <= n
  OBVIOUS
<1>3. CASE k = 0
  BY <1>1, <1>3
<1>4. CASE k # 0
  <2>1. k \in 1..k /\ k \in 1..n /\ k - 1 \in 0..n
    BY <1>2, <1>4
  <2>2. Offset(text, k) \in Nat
    BY <2>1, EndsFacts DEF Offset, n
  <2>3. RuneLen(text[k]) \in Nat
    BY <2>1, SizeFacts DEF RuneLen, n
  <2> QED
    BY <1>1, <1>4, <2>1, <2>2, <2>3
<1> QED
  BY <1>3, <1>4

\* Without stray bytes the cut is the last place between two pieces that is within the limit.
LEMMA CutIsBetween ==
  ASSUME NEW text \in Seq(Sized), NEW limit \in Nat,
         \A i \in 1..Len(text) : text[i].kind # "stray", Bytes(text) > limit
  PROVE  \E k \in 0..Len(text) : /\ k < Len(text) /\ Cut(text, limit) = Ends(text)[k]
                                 /\ Ends(text)[k] <= limit /\ Ends(text)[k + 1] > limit
<1> DEFINE n == Len(text)
<1>1. PICK k \in 0..n :
        /\ Cut(text, limit) = IF k = 0 THEN 0 ELSE Offset(text, k) + RuneLen(text[k])
        /\ \A j \in 1..k : Offset(text, j) + RuneLen(text[j]) <= limit
        /\ k < n => \E j \in 1..(k + 1) : ~(Offset(text, j) + RuneLen(text[j]) <= limit)
  BY CutFacts DEF n
<1>2. n \in Nat /\ k \in Nat /\ k <= n /\ Bytes(text) = Ends(text)[n]
  BY DEF Bytes
<1>3. \A j \in 1..n : Offset(text, j) + RuneLen(text[j]) = Ends(text)[j]
  BY EndsFacts DEF n, Offset, RuneLen
<1>4. Ends(text)[0] = 0 /\ \A j \in 0..n : Ends(text)[j] \in Nat
  BY EndsFacts DEF n
<1>5. Cut(text, limit) = Ends(text)[k] /\ Ends(text)[k] <= limit
  <2>1. CASE k = 0
    BY <1>1, <1>4, <2>1
  <2>2. CASE k # 0
    <3>1. k \in 1..k /\ k \in 1..n
      BY <1>2, <2>2
    <3> QED
      BY <1>1, <1>3, <2>2, <3>1
  <2> QED
    BY <2>1, <2>2
<1>6. k < n
  <2>1. Ends(text)[n] > limit /\ Ends(text)[n] \in Nat
    BY <1>2, <1>4
  <2>2. k # n
    BY <1>5, <2>1
  <2> QED
    BY <1>2, <2>2
<1>7. Ends(text)[k + 1] > limit
  <2>1. PICK j \in 1..(k + 1) : ~(Offset(text, j) + RuneLen(text[j]) <= limit)
    BY <1>1, <1>6
  <2>2. j \in 1..n /\ j \in 0..n /\ k + 1 \in 0..n /\ j <= k + 1 /\ j \in Nat
    BY <1>2, <1>6
  <2>3. Ends(text)[j] > limit /\ Ends(text)[j] \in Nat /\ Ends(text)[k + 1] \in Nat
    BY <1>3, <1>4, <2>1, <2>2
  <2>4. CASE j = k + 1
    BY <2>3, <2>4
  <2>5. CASE j # k + 1
    <3>1. j < k + 1
      BY <1>2, <2>2, <2>5
    <3>2. Ends(text)[j] < Ends(text)[k + 1]
      BY <2>2, <3>1, EndsAscend DEF n
    <3> QED
      BY <2>3, <3>2
  <2> QED
    BY <2>4, <2>5
<1> QED
  BY <1>5, <1>6, <1>7 DEF n

LEMMA SuffixFacts ==
  ASSUME NEW text \in Seq(Sized)
  PROVE  /\ text \o Suffix \in Seq(Sized) /\ Len(text \o Suffix) = Len(text) + 1
         /\ \A i \in 1..Len(text) : (text \o Suffix)[i] = text[i]
         /\ (text \o Suffix)[Len(text) + 1].kind = "suffix"
         /\ Bytes(text \o Suffix) = Bytes(text) + SuffixSize
<1> DEFINE n == Len(text)
           whole == text \o Suffix
<1>1. n \in Nat /\ SuffixSize \in Nat \ {0}
  BY LimitAssumption
<1>2. /\ Suffix \in Seq(Sized) /\ Len(Suffix) = 1
      /\ Suffix[1].kind = "suffix" /\ Suffix[1].size = SuffixSize
  BY <1>1 DEF Suffix, Piece, Sized, Kinds
<1>3. /\ whole \in Seq(Sized) /\ Len(whole) = n + 1 /\ whole[n + 1] = Suffix[1]
      /\ \A i \in 1..n : whole[i] = text[i]
  <2> DEFINE last == Suffix
  <2>1. last \in Seq(Sized) /\ Len(last) = 1
    BY <1>2
  <2> HIDE DEF last
  <2>2. /\ text \o last \in Seq(Sized) /\ Len(text \o last) = n + 1
        /\ \A i \in 1..n : (text \o last)[i] = text[i]
    <3>1. \A i \in 1..n : i \in 1..(Len(text) + Len(last)) /\ i <= Len(text)
      BY <1>1, <2>1
    <3> QED
      BY <2>1, <3>1, ConcatProperties
  <2>3. (text \o last)[n + 1] = last[1]
    <3>1. n + 1 \in 1..(Len(text) + Len(last)) /\ n + 1 > Len(text) /\ (n + 1) - Len(text) = 1
      BY <1>1, <2>1
    <3> QED
      BY <2>1, <3>1, ConcatProperties
  <2> QED
    BY <2>2, <2>3 DEF last
<1> HIDE DEF whole, n
<1>4. Ends(whole)[n + 1] = Ends(whole)[n] + SuffixSize
  <2>1. n + 1 \in 1..Len(whole) /\ (n + 1) - 1 = n
    BY <1>1, <1>3
  <2> QED
    BY <1>2, <1>3, <2>1, EndsFacts
<1>5. Ends(whole)[n] = Ends(text)[n]
  <2>1. n <= Len(whole) /\ n <= Len(text) /\ n \in 0..n
    BY <1>1, <1>3 DEF n
  <2> QED
    BY <1>1, <1>3, <2>1, EndsAgree
<1>6. Bytes(whole) = Bytes(text) + SuffixSize
  BY <1>3, <1>4, <1>5 DEF Bytes, n
<1> QED
  BY <1>2, <1>3, <1>6 DEF whole, n

\* What is left after redaction.
Clean == [kind : {"char", "stray", "mark"}, size : Nat \ {0}]

LEMMA CleanFacts ==
  /\ Clean \subseteq Sized /\ RawPiece \subseteq Sized
  /\ \A p \in Clean : p.kind \notin {"secret", "suffix", "torn"}
  /\ \A p \in RawPiece : p.kind # "secret" => p \in Clean
BY DEF Clean, Sized, RawPiece, Kinds

\* Sequences of one piece each, one after the other.
LEMMA FlattenPieces ==
  ASSUME NEW T, NEW text \in Seq(T)
  PROVE  FlattenSeq([i \in 1..Len(text) |-> <<text[i]>>]) = text
<1> DEFINE n == Len(text)
           ss == [i \in 1..n |-> <<text[i]>>]
<1>1. n \in Nat /\ text = [i \in 1..n |-> text[i]] /\ \A i \in 1..n : text[i] \in T
  OBVIOUS
<1>2. ss \in [1..n -> Seq(T)] /\ \A i \in 1..n : ss[i] = <<text[i]>>
  BY <1>1
<1>3. CASE n = 0
  <2>1. Len(ss) = 0 /\ ss = <<>> /\ text = <<>>
    BY <1>3
  <2> QED
    BY <2>1 DEF FlattenSeq
<1>4. CASE n # 0
  <2> HIDE DEF ss, n
  <2>1. PICK f \in [1..n -> Seq(T)] : Appends(f, ss, n) /\ FlattenSeq(ss) = f[n]
    BY <1>1, <1>2, <1>4, FlattenSteps
  <2> DEFINE Same(i) == Len(f[i]) = i /\ \A j \in 1..i : f[i][j] = text[j]
             Done == {i \in Nat : i > n \/ Same(i)}
  <2>2. 1 \in Done
    <3>1. f[1] = <<text[1]>>
      BY <1>1, <1>2, <1>4, <2>1 DEF Appends
    <3>2. Same(1)
      <4>1. \A j \in 1..1 : j = 1
        OBVIOUS
      <4> QED
        BY <3>1, <4>1
    <3> HIDE DEF Same
    <3> QED
      BY <3>2
  <2>3. ASSUME NEW i \in 1..n, i \in Done PROVE i + 1 \in Done
    <3>1. CASE i = n
      BY <1>1, <3>1
    <3>2. CASE i # n
      <4>1. i \in Nat /\ i + 1 \in 1..n /\ Same(i) /\ f[i] \in Seq(T)
        <5> HIDE DEF Same
        <5> QED
          BY <1>1, <2>1, <2>3, <3>2
      <4>2. f[i + 1] = f[i] \o <<text[i + 1]>> /\ text[i + 1] \in T
        BY <1>1, <1>2, <2>1, <4>1 DEF Appends
      <4> DEFINE last == <<text[i + 1]>>
      <4>3. last \in Seq(T) /\ Len(last) = 1 /\ last[1] = text[i + 1]
        BY <4>2
      <4>4. f[i + 1] = f[i] \o last
        BY <4>2
      <4> HIDE DEF last
      <4>5. /\ Len(f[i + 1]) = i + 1
            /\ \A j \in 1..(i + 1) : f[i + 1][j] = IF j <= i THEN f[i][j] ELSE last[j - i]
        <5>1. /\ Len(f[i] \o last) = Len(f[i]) + Len(last)
              /\ \A j \in 1..(Len(f[i]) + Len(last)) :
                   (f[i] \o last)[j] = IF j <= Len(f[i]) THEN f[i][j] ELSE last[j - Len(f[i])]
          BY <4>1, <4>3, ConcatProperties
        <5>2. Len(f[i]) = i /\ Len(last) = 1
          BY <4>1, <4>3
        <5> QED
          BY <4>4, <5>1, <5>2
      <4>6. ASSUME NEW j \in 1..(i + 1) PROVE f[i + 1][j] = text[j]
        <5>1. CASE j <= i
          BY <4>1, <4>5, <5>1
        <5>2. CASE ~(j <= i)
          <6>1. j = i + 1 /\ j - i = 1
            BY <4>1, <5>2
          <6> QED
            BY <4>3, <4>5, <5>2, <6>1
        <5> QED
          BY <5>1, <5>2
      <4>7. Same(i + 1)
        BY <4>5, <4>6
      <4> HIDE DEF Same
      <4> QED
        BY <4>1, <4>7
    <3> QED
      BY <3>1, <3>2
  <2> HIDE DEF Done
  <2>4. 1..n \subseteq Done
    BY <1>1, <2>2, <2>3, UpTo
  <2>5. Same(n) /\ n \in 1..n
    <3>1. n \in 1..n /\ n \in Done
      BY <1>1, <1>4, <2>4
    <3> HIDE DEF Same
    <3> QED
      BY <1>1, <3>1 DEF Done
  <2>6. f[n] \in Seq(T)
    BY <2>1, <2>5
  <2>7. f[n] = text
    <3>1. f[n] = [j \in 1..n |-> f[n][j]]
      BY <2>5, <2>6
    <3> QED
      BY <1>1, <2>5, <3>1
  <2> QED
    BY <2>1, <2>7 DEF ss, n
<1> QED
  BY <1>3, <1>4

\* Redacting leaves no credential, and changes only texts that have one.
LEMMA RedactFacts ==
  ASSUME NEW text \in Seq(RawPiece)
  PROVE  /\ Redact(text) \in Seq(Clean)
         /\ Redact(text) # text <=> \E i \in DOMAIN text : text[i].kind = "secret"
<1> DEFINE n == Len(text)
           secret(i) == text[i].kind = "secret"
           ss == [i \in DOMAIN text |-> IF secret(i) THEN Mark ELSE <<text[i]>>]
<1>1. n \in Nat /\ DOMAIN text = 1..n /\ \A i \in 1..n : text[i] \in RawPiece
  OBVIOUS
<1>2. Mark \in Seq(Clean)
  <2>1. MarkSize \in Nat /\ Piece("mark", 1) \in Clean
    BY LimitAssumption DEF Piece, Clean
  <2> QED
    BY <2>1 DEF Mark
<1>3. \A i \in 1..n : ~secret(i) => text[i] \in Clean
  BY <1>1, CleanFacts
<1>4. Redact(text) = FlattenSeq(ss)
  BY DEF Redact
<1> HIDE DEF secret
<1>5. ss \in [1..n -> Seq(Clean)]
  BY <1>1, <1>2, <1>3
<1>6. Redact(text) \in Seq(Clean)
  <2> HIDE DEF ss, n
  <2> QED
    BY <1>1, <1>4, <1>5, FlattenFacts
<1>7. ASSUME \A i \in 1..n : ~secret(i) PROVE Redact(text) = text
  <2>1. ss = [i \in 1..Len(text) |-> <<text[i]>>]
    BY <1>1, <1>7
  <2> HIDE DEF ss
  <2> QED
    BY <1>4, <2>1, FlattenPieces
<1>8. ASSUME NEW i \in 1..n, secret(i) PROVE Redact(text) # text
  <2>1. text[i].kind = "secret"
    BY <1>8 DEF secret
  <2>2. text[i] \notin Clean
    BY <2>1, CleanFacts
  <2>3. text \notin Seq(Clean)
    BY <1>1, <2>2
  <2> QED
    BY <1>6, <2>3
<1> QED
  BY <1>1, <1>6, <1>7, <1>8 DEF secret

\* What is shown is within the limit, ends where a piece ends, and has no room for the next.
LEMMA TruncateFacts ==
  ASSUME NEW text \in Seq(Clean)
  PROVE  /\ Bytes(text) \in Nat
         /\ Bytes(text) <= RawLimit => Truncate(text) = text
         /\ Bytes(Truncate(text)) <= RawLimit
         /\ Truncate(text) \in Seq(Sized)
         /\ \A i \in DOMAIN Truncate(text) : Truncate(text)[i].kind # "secret"
         /\ Bytes(text) > RawLimit =>
              /\ Truncate(text) # text /\ Len(Truncate(text)) \in Nat \ {0}
              /\ (\A i \in DOMAIN text : text[i].kind # "stray") =>
                   LET kept == SubSeq(Truncate(text), 1, Len(Truncate(text)) - 1)
                   IN /\ kept = SubSeq(text, 1, Len(kept))
                      /\ Len(kept) \in 0..Len(text)
                      /\ Bytes(Truncate(text)) + text[Len(kept) + 1].size > RawLimit
<1> DEFINE n == Len(text)
           limit == RawLimit - SuffixSize
           cut == Cut(text, limit)
           p == Prefix(text, cut)
           t == Truncate(text)
<1>1. text \in Seq(Sized)
  BY CleanFacts
<1>2. /\ n \in Nat /\ DOMAIN text = 1..n /\ Bytes(text) \in Nat
      /\ \A i \in 1..n : text[i] \in Clean /\ text[i].kind \notin {"secret", "suffix", "torn"}
  <2>1. n \in Nat /\ DOMAIN text = 1..n /\ \A i \in 1..n : text[i] \in Clean
    OBVIOUS
  <2>2. Bytes(text) \in Nat
    BY <1>1, <2>1, EndsFacts DEF Bytes
  <2> QED
    BY <2>1, <2>2, CleanFacts
<1>3. SuffixSize \in Nat \ {0} /\ RawLimit \in Int /\ limit \in Nat /\ limit + SuffixSize = RawLimit
  BY LimitAssumption
<1>4. CASE Bytes(text) <= RawLimit
  <2>1. t = text
    BY <1>4 DEF Truncate
  <2>2. ~(Bytes(text) > RawLimit)
    BY <1>2, <1>3, <1>4
  <2> QED
    BY <1>1, <1>2, <1>4, <2>1, <2>2
<1>5. CASE ~(Bytes(text) <= RawLimit)
  <2>1. t = p \o Suffix
    BY <1>5 DEF Truncate
  <2>2. cut \in Nat /\ cut <= limit
    BY <1>1, <1>3, CutFits
  <2> HIDE DEF cut
  <2>3. /\ p \in Seq(Sized) /\ Len(p) \in 0..n
        /\ \A i \in 1..Len(p) : p[i].kind \in {text[i].kind, "torn"}
    BY <1>1, <2>2, PrefixFacts
  <2>4. Bytes(p) \in Nat /\ Bytes(p) <= cut
    BY <1>1, <2>2, PrefixFits
  <2> HIDE DEF p, t, limit
  <2> DEFINE m == Len(p)
  <2>5. /\ t \in Seq(Sized) /\ Len(t) = m + 1 /\ \A i \in 1..m : t[i] = p[i]
        /\ t[m + 1].kind = "suffix" /\ Bytes(t) = Bytes(p) + SuffixSize
    BY <2>1, <2>3, SuffixFacts
  <2>6. m \in Nat /\ m <= n /\ DOMAIN t = 1..(m + 1)
    BY <1>2, <2>3, <2>5
  <2>7. \A i \in DOMAIN t : t[i].kind # "secret"
    <3> SUFFICES ASSUME NEW i \in 1..(m + 1) PROVE t[i].kind # "secret"
      BY <2>6
    <3>1. CASE i = m + 1
      BY <2>5, <3>1
    <3>2. CASE i # m + 1
      <4>1. i \in 1..m /\ i \in 1..n
        BY <1>2, <2>6, <3>2
      <4>2. p[i].kind \in {text[i].kind, "torn"} /\ text[i].kind # "secret"
        BY <1>2, <2>3, <4>1
      <4> QED
        BY <2>5, <4>1, <4>2
    <3> QED
      BY <3>1, <3>2
  <2>8. t # text
    <3>1. t[m + 1].kind = "suffix"
      BY <2>5
    <3>2. m + 1 \in DOMAIN t
      BY <2>6
    <3> QED
      BY <1>2, <3>1, <3>2
  <2>9. Bytes(t) <= RawLimit
    BY <1>3, <2>2, <2>4, <2>5
  <2>10. ASSUME \A i \in DOMAIN text : text[i].kind # "stray"
         PROVE  LET kept == SubSeq(t, 1, Len(t) - 1)
                IN /\ kept = SubSeq(text, 1, Len(kept))
                   /\ Len(kept) \in 0..Len(text)
                   /\ Bytes(t) + text[Len(kept) + 1].size > RawLimit
    <3>1. Bytes(text) > limit
      BY <1>2, <1>3, <1>5
    <3>2. PICK k \in 0..n : /\ k < n /\ cut = Ends(text)[k]
                            /\ Ends(text)[k] <= limit /\ Ends(text)[k + 1] > limit
      BY <1>1, <1>2, <1>3, <2>10, <3>1, CutIsBetween DEF cut, limit, n
    <3>3. p = SubSeq(text, 1, k)
      BY <1>1, <3>2, WholePrefix DEF p
    <3>4. /\ k \in Nat /\ k <= n /\ m = k /\ SubSeq(text, 1, k) \in Seq(Sized)
          /\ \A i \in 1..k : SubSeq(text, 1, k)[i] = text[i]
      BY <1>1, <1>2, <3>2, <3>3
    <3>5. SubSeq(t, 1, Len(t) - 1) = p
      <4>1. (m + 1) - 1 = m
        BY <2>6
      <4>2. /\ SubSeq(t, 1, m) \in Seq(Sized) /\ Len(SubSeq(t, 1, m)) = m
            /\ \A i \in 1..m : SubSeq(t, 1, m)[i] = t[i]
        BY <2>5, <2>6
      <4>3. SubSeq(t, 1, m) = [i \in 1..m |-> SubSeq(t, 1, m)[i]] /\ p = [i \in 1..m |-> p[i]]
        BY <2>3, <4>2
      <4>4. SubSeq(t, 1, m) = p
        BY <2>5, <4>2, <4>3
      <4> QED
        BY <2>5, <4>1, <4>4
    <3>6. Bytes(p) = Ends(text)[k]
      <4>1. \A i \in 1..k : p[i].size = text[i].size
        BY <3>3, <3>4
      <4>2. k <= Len(p) /\ k <= Len(text) /\ k \in 0..k
        BY <3>4
      <4>3. Ends(p)[k] = Ends(text)[k]
        BY <1>1, <2>3, <3>4, <4>1, <4>2, EndsAgree
      <4> QED
        BY <3>4, <4>3 DEF Bytes
    <3>7. k + 1 \in 1..n /\ Ends(text)[k + 1] = Ends(text)[k] + text[k + 1].size
      <4>1. k + 1 \in 1..n /\ (k + 1) - 1 = k
        BY <1>2, <3>2, <3>4
      <4> QED
        BY <1>1, <4>1, EndsFacts
    <3>8. Bytes(t) + text[k + 1].size > RawLimit
      <4>1. text[k + 1].size \in Nat /\ Ends(text)[k] \in Nat
        BY <1>1, <3>4, <3>7, SizeFacts, EndsFacts
      <4> QED
        BY <1>3, <2>5, <3>2, <3>6, <3>7, <4>1
    <3> QED
      BY <3>3, <3>4, <3>5, <3>8
  <2>11. Len(t) \in Nat \ {0}
    BY <2>5, <2>6
  <2> QED
    BY <1>2, <1>5, <2>5, <2>7, <2>8, <2>9, <2>10, <2>11 DEF t
<1> QED
  BY <1>4, <1>5

\* Nothing is shown of no evidence, whether it was to be shown as it is or not.
LEMMA NothingToShow == Sanitize(<<>>, TRUE) = Sanitize(<<>>, FALSE)
<1>1. <<>> \in Seq(RawPiece) /\ DOMAIN <<>> = {} /\ Len(<<>>) = 0 /\ <<>> \in Seq(Sized)
  OBVIOUS
<1>2. Redact(<<>>) = <<>>
  BY <1>1, RedactFacts
<1>3. Bytes(<<>>) = 0
  BY <1>1, EndsFacts DEF Bytes
<1>4. Bytes(<<>>) <= RawLimit /\ ~(Bytes(<<>>) > RawLimit)
  BY <1>3, LimitAssumption
<1>5. Truncate(<<>>) = <<>>
  BY <1>4 DEF Truncate
<1> DEFINE none == <<>>
<1>6. /\ Redact(none) = none /\ Truncate(none) = none
      /\ (Redact(none) # none) = FALSE /\ (Bytes(Redact(none)) > RawLimit) = FALSE
  BY <1>2, <1>4, <1>5
<1>7. Sanitize(none, TRUE) = [raw |-> none, redacted |-> FALSE, truncated |-> FALSE]
  BY Zenon DEF Sanitize
<1>8. Sanitize(none, FALSE) = [raw |-> Truncate(Redact(none)), redacted |-> Redact(none) # none,
                               truncated |-> Bytes(Redact(none)) > RawLimit]
  BY Zenon DEF Sanitize
<1> HIDE DEF none
<1>9. Sanitize(none, TRUE) = Sanitize(none, FALSE)
  BY <1>6, <1>7, <1>8
<1> QED
  BY <1>9 DEF none

\* What is shown of any evidence is safe.
LEMMA ShownIsSafe == ShownInv => EvidenceIsSafe
<1> SUFFICES ASSUME ShownInv PROVE EvidenceIsSafe
  OBVIOUS
<1>1. /\ found.raw \in Seq(RawPiece) /\ found.includeRaw \in BOOLEAN
      /\ shown = Sanitize(found.raw, found.includeRaw)
  BY DEF ShownInv
<1>2. CASE found.includeRaw
  BY <1>1, <1>2 DEF EvidenceIsSafe, Sanitize
<1>3. CASE ~found.includeRaw
  <2> DEFINE all == Redact(found.raw)
             kept == SubSeq(shown.raw, 1, Len(shown.raw) - (IF shown.truncated THEN 1 ELSE 0))
             whole == \A i \in DOMAIN all : all[i].kind # "stray"
  <2>1. /\ shown.raw = Truncate(all) /\ shown.redacted = (all # found.raw)
        /\ shown.truncated = (Bytes(all) > RawLimit)
    BY <1>1, <1>3 DEF Sanitize
  <2>2. /\ all \in Seq(Clean)
        /\ all # found.raw <=> \E i \in DOMAIN found.raw : found.raw[i].kind = "secret"
    BY <1>1, RedactFacts
  <2> HIDE DEF all
  <2>3. /\ Bytes(all) \in Nat
        /\ Bytes(all) <= RawLimit => Truncate(all) = all
        /\ Bytes(Truncate(all)) <= RawLimit
        /\ Truncate(all) \in Seq(Sized)
        /\ \A i \in DOMAIN Truncate(all) : Truncate(all)[i].kind # "secret"
    BY <2>2, TruncateFacts
  <2>4. ASSUME Bytes(all) > RawLimit
        PROVE  /\ Truncate(all) # all /\ Len(Truncate(all)) \in Nat \ {0}
               /\ whole =>
                    LET cut == SubSeq(Truncate(all), 1, Len(Truncate(all)) - 1)
                    IN /\ cut = SubSeq(all, 1, Len(cut)) /\ Len(cut) \in 0..Len(all)
                       /\ Bytes(Truncate(all)) + all[Len(cut) + 1].size > RawLimit
    BY <2>2, <2>4, TruncateFacts
  <2>5. Bytes(all) <= RawLimit \/ Bytes(all) > RawLimit
    BY <2>3, LimitAssumption
  <2>6. ~(Bytes(all) <= RawLimit /\ Bytes(all) > RawLimit)
    BY <2>3, LimitAssumption
  <2>7. shown.truncated <=> shown.raw # all
    BY <2>1, <2>3, <2>4, <2>5, <2>6
  <2>8. whole => /\ IsPrefix(kept, all)
                 /\ shown.truncated => Bytes(shown.raw) + all[Len(kept) + 1].size > RawLimit
    <3> SUFFICES ASSUME whole
                 PROVE  /\ IsPrefix(kept, all)
                        /\ shown.truncated =>
                             Bytes(shown.raw) + all[Len(kept) + 1].size > RawLimit
      OBVIOUS
    <3>1. CASE Bytes(all) > RawLimit
      <4>1. kept = SubSeq(shown.raw, 1, Len(shown.raw) - 1)
        BY <2>1, <3>1
      <4>2. /\ kept = SubSeq(all, 1, Len(kept)) /\ Len(kept) \in 0..Len(all)
            /\ Bytes(shown.raw) + all[Len(kept) + 1].size > RawLimit
        BY <2>1, <2>4, <3>1, <4>1
      <4> HIDE DEF kept
      <4>3. kept \in Seq(Clean) /\ Len(kept) <= Len(all)
        <5>1. SubSeq(all, 1, Len(kept)) \in Seq(Clean)
          BY <2>2, <4>2
        <5> QED
          BY <2>2, <4>2, <5>1
      <4>4. SubSeq(kept, 1, Len(kept)) = kept
        BY <4>3
      <4> QED
        BY <4>2, <4>3, <4>4 DEF IsPrefix
    <3>2. CASE ~(Bytes(all) > RawLimit)
      <4>1. shown.raw = all /\ ~shown.truncated
        BY <2>1, <2>3, <2>5, <3>2
      <4>2. kept = SubSeq(all, 1, Len(all) - 0)
        BY <4>1
      <4>3. Len(all) - 0 = Len(all) /\ Len(all) \in Nat /\ SubSeq(all, 1, Len(all)) = all
        BY <2>2
      <4>4. kept = all
        BY <4>2, <4>3
      <4> HIDE DEF kept
      <4> QED
        BY <4>1, <4>3, <4>4 DEF IsPrefix
    <3> QED
      BY <3>1, <3>2
  <2>9. "secret" \notin {shown.raw[i].kind : i \in DOMAIN shown.raw}
    BY <2>1, <2>3
  <2>10. shown.redacted <=> "secret" \in {found.raw[i].kind : i \in DOMAIN found.raw}
    BY <2>1, <2>2
  <2>11. whole <=> ~\E i \in DOMAIN all : all[i].kind = "stray"
    OBVIOUS
  <2> HIDE DEF kept, whole
  <2> QED
    BY <1>3, <2>1, <2>3, <2>7, <2>8, <2>9, <2>10, <2>11 DEF EvidenceIsSafe, kept, all
<1> QED
  BY <1>1, <1>2, <1>3

-----------------------------------------------------------------------------
(* The command's invariant *)

LEMMA CommandInitInv == Init => CommandInv
<1> SUFFICES ASSUME Init PROVE CommandInv
  OBVIOUS
<1>1. ShownInv
  <2>1. found = [raw |-> <<>>, includeRaw |-> FALSE] /\ shown = Sanitize(<<>>, FALSE)
    BY NothingToShow DEF Init, NothingShown
  <2> QED
    BY <2>1 DEF ShownInv
<1> QED
  BY <1>1 DEF Init, CommandInv, TypeOK, BuiltInv, EarnedInv, Running, Statuses

\* What is shown is settled by the text and whether it is asked for as it is.
LEMMA ShownKept == ASSUME ShownInv, UNCHANGED evidenceVars PROVE ShownInv'
BY DEF ShownInv, evidenceVars

\* Refusals return 3, and change nothing else.
LEMMA RefuseInv ==
  ASSUME CommandInv, NEW from \in {"invoked", "selected", "built", "ran"}, Refuse(from)
  PROVE  CommandInv'
<1>1. ShownInv'
  BY ShownKept DEF CommandInv, Refuse
<1> QED
  BY <1>1 DEF CommandInv, Refuse, Step, inputVars, TypeOK, BuiltInv, EarnedInv, Running

LEMMA SelectInv == CommandInv /\ Select => CommandInv'
<1> SUFFICES ASSUME CommandInv, Select PROVE CommandInv'
  OBVIOUS
<1>1. ShownInv'
  BY ShownKept DEF CommandInv, Select
<1> QED
  BY <1>1 DEF CommandInv, Select, Step, inputVars, TypeOK, BuiltInv, EarnedInv, Running

LEMMA BuildInv == CommandInv /\ Build => CommandInv'
<1> SUFFICES ASSUME CommandInv, Build PROVE CommandInv'
  OBVIOUS
<1>1. /\ pc = "selected" /\ pc' = "built" /\ checks' = Plan(cfg, domains, rooted)
      /\ SemanticallyValid(cfg) /\ domains \subseteq Domains /\ ~WrongRoot
      /\ UNCHANGED <<cfg, filter, rooted, domains, statuses, exit>>
  BY DEF Build, Step, inputVars
<1>2. TypeOK'
  BY <1>1 DEF CommandInv, TypeOK, Running
<1>3. BuiltInv'
  BY <1>1 DEF BuiltInv, WrongRoot, RootExcludes
<1>4. EarnedInv'
  BY <1>1 DEF CommandInv, EarnedInv
<1>5. ShownInv'
  BY ShownKept DEF CommandInv, Build
<1> QED
  BY <1>2, <1>3, <1>4, <1>5 DEF CommandInv

LEMMA RunEngineInv == CommandInv /\ RunEngine => CommandInv'
<1> SUFFICES ASSUME CommandInv, RunEngine PROVE CommandInv'
  OBVIOUS
<1>1. /\ pc = "built" /\ pc' = "ran" /\ statuses' \subseteq Statuses
      /\ UNCHANGED <<cfg, filter, rooted, exit>>
  BY DEF RunEngine, Step, inputVars
<1>2. ShownInv'
  BY ShownKept DEF CommandInv, RunEngine
<1> QED
  BY <1>1, <1>2 DEF CommandInv, TypeOK, BuiltInv, EarnedInv, Running

LEMMA ReportInv == CommandInv /\ Report => CommandInv'
<1> SUFFICES ASSUME CommandInv, Report PROVE CommandInv'
  OBVIOUS
<1>1. /\ pc = "ran" /\ pc' = "exited" /\ exit' = ExitCode(statuses)
      /\ UNCHANGED <<cfg, filter, rooted, statuses>>
  BY DEF Report, Step, inputVars
<1>2. ExitCode(statuses) \in {0, 1, 2}
  BY DEF ExitCode
<1>3. ExitCode(statuses)' = ExitCode(statuses)
  BY <1>1 DEF ExitCode
<1>4. ShownInv'
  <2>1. PICK raw \in Raws \union {<<>>}, includeRaw \in BOOLEAN :
          found' = [raw |-> raw, includeRaw |-> includeRaw] /\ shown' = Sanitize(raw, includeRaw)
    <3>1. CASE Len(checks) <= MaxShown
      BY <3>1 DEF Report
    <3>2. CASE ~(Len(checks) <= MaxShown)
      BY <3>2 DEF Report
    <3> QED
      BY <3>1, <3>2
  <2>2. raw \in Seq(RawPiece)
    <3>1. <<>> \in Seq(RawPiece)
      OBVIOUS
    <3>2. Raws \subseteq Seq(RawPiece)
      BY RawsAssumption
    <3> QED
      BY <3>1, <3>2, Zenon
  <2>3. found'.raw = raw /\ found'.includeRaw = includeRaw
    BY <2>1
  <2> QED
    BY <2>1, <2>2, <2>3 DEF ShownInv
<1> QED
  BY <1>1, <1>2, <1>3, <1>4 DEF CommandInv, TypeOK, BuiltInv, EarnedInv, Running

LEMMA CommandStutterInv == CommandInv /\ UNCHANGED vars => CommandInv'
<1> SUFFICES ASSUME CommandInv, UNCHANGED vars PROVE CommandInv'
  OBVIOUS
<1>1. UNCHANGED <<pc, cfg, filter, rooted, domains, checks, statuses, exit>>
  BY DEF vars, inputVars
<1>2. ShownInv'
  BY ShownKept DEF CommandInv, vars
<1> QED
  BY <1>1, <1>2 DEF CommandInv, TypeOK, BuiltInv, EarnedInv, WrongRoot, RootExcludes, ExitCode

(***************************************************************************)
(* When a plan is handed to the engine it is that of a contract and a      *)
(* selection past all refusals, and the process ends with the exit code of *)
(* the statuses it recorded, or with 3; and what it shows of any evidence  *)
(* is what Sanitize makes of it.                                           *)
(***************************************************************************)
THEOREM CommandInvariant == Spec => []CommandInv
<1>1. CommandInv /\ [Next]_vars => CommandInv'
  <2> SUFFICES ASSUME CommandInv, [Next]_vars PROVE CommandInv'
    OBVIOUS
  <2>1. CASE RefuseInvocation
    BY <2>1, RefuseInv DEF RefuseInvocation
  <2>2. CASE Select
    BY <2>2, SelectInv
  <2>3. CASE RefuseSelection \/ RefuseBuild
    BY <2>3, RefuseInv DEF RefuseSelection, RefuseBuild
  <2>4. CASE Build
    BY <2>4, BuildInv
  <2>5. CASE RefuseEmpty \/ RefuseReport
    BY <2>5, RefuseInv DEF RefuseEmpty, RefuseReport
  <2>6. CASE RunEngine
    BY <2>6, RunEngineInv
  <2>7. CASE Report
    BY <2>7, ReportInv
  <2>8. CASE UNCHANGED vars
    BY <2>8, CommandStutterInv
  <2> QED
    BY <2>1, <2>2, <2>3, <2>4, <2>5, <2>6, <2>7, <2>8 DEF Next
<1> QED
  BY <1>1, CommandInitInv, PTL DEF Spec

\* An exit code is returned exactly at the end.
THEOREM CommandTypeCorrect == Spec => []TypeOK
<1>1. CommandInv => TypeOK
  BY DEF CommandInv
<1> QED
  BY <1>1, CommandInvariant, PTL

-----------------------------------------------------------------------------
(* The plan *)

\* What is built may be planned, and so is a sound plan.
LEMMA BuiltFacts ==
  ASSUME CommandInv, pc = "built"
  PROVE  /\ checks \in Seq(PlannedType) /\ Distinct(checks) /\ Plans = ToSet(checks)
         /\ GuardedIn(checks, rooted) /\ ActiveFirst(checks)
         /\ IDsOf(checks) \ Preflights = WantedIDs(cfg, domains)
<1>1. /\ checks = Plan(cfg, domains, rooted) /\ SemanticallyValid(cfg)
      /\ domains \subseteq Domains /\ ~WrongRoot /\ cfg \in Contracts /\ rooted \in BOOLEAN
  BY DEF CommandInv, BuiltInv, TypeOK
<1>2. Plannable(cfg, domains, rooted)
  BY <1>1, ContractsAssumption DEF Plannable, WrongRoot, RootExcludes
<1> DEFINE plan == Plan(cfg, domains, rooted)
<1>3. /\ plan \in Seq(PlannedType) /\ Distinct(plan)
      /\ GuardedIn(plan, rooted) /\ ActiveFirst(plan)
      /\ IDsOf(plan) \ Preflights = WantedIDs(cfg, domains)
  BY <1>2, PlansAreSound
<1> HIDE DEF plan
<1>4. checks = plan
  BY <1>1 DEF plan
<1> QED
  BY <1>3, <1>4 DEF Plans

(***************************************************************************)
(* No check looks at the observer's own system before the preflight of its *)
(* domain has passed, for contracts of any size and every filter.          *)
(***************************************************************************)
THEOREM NothingIsUnguarded == Spec => []EverythingIsGuarded
<1>1. CommandInv => EverythingIsGuarded
  <2> SUFFICES ASSUME CommandInv, NEW c \in Plans
               PROVE  IF rooted THEN ~IsPreflight(c.id) /\ c.id.domain \in {"path", "socket"}
                      ELSE IsPreflight(c.id)
                             \/ WaitsFor(checks, c, Preflight(Home(c.id.domain)))
    BY DEF EverythingIsGuarded
  <2>1. pc = "built"
    BY DEF Plans
  <2> QED
    BY <2>1, BuiltFacts DEF GuardedIn, IsPreflight
<1> QED
  BY <1>1, CommandInvariant, PTL

(***************************************************************************)
(* An identity check waits for its service to be active, whether the       *)
(* contract declares the service or not and whatever else is selected.     *)
(***************************************************************************)
THEOREM IdentityWaitsForActive == Spec => []IdentityNeedsActive
<1>1. CommandInv => IdentityNeedsActive
  <2> SUFFICES ASSUME CommandInv, NEW c \in Plans, c.id.domain = "identity"
               PROVE  \E s \in Plans : /\ s.id \in ToSet(c.prereqs) /\ s.id.kind = "state"
                                       /\ s.expects = "active"
    BY DEF IdentityNeedsActive
  <2>1. pc = "built"
    BY DEF Plans
  <2> QED
    BY <2>1, BuiltFacts DEF ActiveFirst
<1> QED
  BY <1>1, CommandInvariant, PTL

\* A list in which no ID occurs twice has as many IDs as places.
LEMMA DistinctCount ==
  ASSUME NEW list, list \in Seq(PlannedType), Distinct(list)
  PROVE  Cardinality(IDsOf(list)) = Len(list)
<1> DEFINE n == Len(list)
           f == [i \in 1..n |-> list[i].id]
<1>1. n \in Nat /\ ToSet(list) = {list[i] : i \in 1..n}
  BY MemberOf
<1>2. f \in Bijection(1..n, IDsOf(list))
  <2>1. IDsOf(list) = {list[i].id : i \in 1..n}
    BY <1>1 DEF IDsOf
  <2>2. \A i, j \in 1..n : list[i].id = list[j].id => i = j
    BY DEF Distinct
  <2> QED
    BY <2>1, <2>2 DEF Bijection, Injection, Surjection, IsInjective
<1>3. ExistsBijection(1..n, IDsOf(list))
  BY <1>2 DEF ExistsBijection
<1> QED
  BY <1>1, <1>3, FS_CountingElements

\* What the contract and the selection call for, in the words of Planner_proofs.
LEMMA WantedIsWanted == Wanted = WantedIDs(cfg, domains)
<1> DEFINE on(domain) == domain \in domains
           asked(domain, entries, asks(_)) ==
             UNION {{ID(domain, n, k) : k \in asks(n)} : n \in DOMAIN entries}
           paths == asked("path", cfg.paths, LAMBDA p : {"exists"} \union cfg.paths[p])
           sockets == asked("socket", cfg.sockets, LAMBDA s : {"exists"} \union cfg.sockets[s])
           services == asked("service", cfg.services,
                             LAMBDA s : {"state"} \union cfg.services[s].asks)
           identity == asked("identity", cfg.identity, LAMBDA l : cfg.identity[l].asks)
           needed == {ID("service", cfg.identity[l].service, "state") : l \in DOMAIN cfg.identity}
<1>1. Wanted = UNION {IF on("paths") THEN paths ELSE {}, IF on("sockets") THEN sockets ELSE {},
                      IF on("services") THEN services ELSE {},
                      IF on("identity") THEN identity \union needed ELSE {}}
  BY DEF Wanted
<1>2. paths = ExistsIDs("path", cfg.paths) /\ sockets = ExistsIDs("socket", cfg.sockets)
  BY DEF ExistsIDs, AskedIDs
<1>3. services = AskedIDs("service", "state", DOMAIN cfg.services,
                          [s \in DOMAIN cfg.services |-> cfg.services[s].asks])
  <2> DEFINE asks == [s \in DOMAIN cfg.services |-> cfg.services[s].asks]
  <2>1. \A s \in DOMAIN cfg.services : asks[s] = cfg.services[s].asks
    OBVIOUS
  <2> HIDE DEF asks
  <2>2. services = AskedIDs("service", "state", DOMAIN cfg.services, asks)
    BY <2>1 DEF AskedIDs
  <2> QED
    BY <2>2 DEF asks
<1>4. identity = IdentityIDs(cfg.identity)
  BY DEF IdentityIDs
<1>5. needed = {StateOf(cfg.identity[l].service) : l \in DOMAIN cfg.identity}
  BY DEF StateOf
<1> HIDE DEF paths, sockets, services, identity, needed
<1> QED
  BY <1>1, <1>2, <1>3, <1>4, <1>5 DEF WantedIDs, OwnIDs, NeededIDs

(***************************************************************************)
(* The plan holds exactly the checks the contract and the selection call   *)
(* for, each once, and the preflights they wait for.                       *)
(***************************************************************************)
THEOREM NothingIsMissing == Spec => []PlanIsExact
<1>1. CommandInv => PlanIsExact
  <2> SUFFICES ASSUME CommandInv, pc = "built"
               PROVE  /\ {c.id : c \in Plans} \ {Preflight(d) : d \in {"path", "socket", "service"}}
                           = Wanted
                      /\ Cardinality({c.id : c \in Plans}) = Len(checks)
    BY DEF PlanIsExact
  <2>1. IDsOf(checks) = {c.id : c \in Plans}
    BY BuiltFacts DEF IDsOf
  <2> QED
    BY <2>1, BuiltFacts, DistinctCount, WantedIsWanted DEF Preflights
<1> QED
  BY <1>1, CommandInvariant, PTL

-----------------------------------------------------------------------------
(***************************************************************************)
(* The exit code says of the results what report-v1.md says: 0 that all    *)
(* passed or do not apply, 1 that one failed and all could be evaluated, 2 *)
(* that one could not.                                                     *)
(***************************************************************************)
THEOREM ExitCodeIsOfResults == Spec => []ExitCodeIsEarned
<1>1. CommandInv => ExitCodeIsEarned
  <2> SUFFICES ASSUME CommandInv PROVE ExitCodeIsEarned
    OBVIOUS
  <2>1. statuses \subseteq Statuses /\ (exit \in {0, 1, 2} => exit = ExitCode(statuses))
    BY DEF CommandInv, TypeOK, EarnedInv
  <2> QED
    BY <2>1 DEF ExitCodeIsEarned, ExitCode, Statuses
<1> QED
  BY <1>1, CommandInvariant, PTL

(***************************************************************************)
(* Unless asked for as it is, evidence of any length is shown without      *)
(* credentials, within the limit although redacting may have made it       *)
(* longer, and with the flags that say what was done to it; in a text      *)
(* without stray bytes no character is broken, and none is left out that   *)
(* would have fitted.                                                      *)
(***************************************************************************)
THEOREM EvidenceIsSanitized == Spec => []EvidenceIsSafe
<1>1. CommandInv => EvidenceIsSafe
  BY ShownIsSafe DEF CommandInv
<1> QED
  BY <1>1, CommandInvariant, PTL
=============================================================================
