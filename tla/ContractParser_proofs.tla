------------------------ MODULE ContractParser_proofs ------------------------
(***************************************************************************)
(* The contract parser: whatever lines it is given, and however many, the  *)
(* recursive descent finds the outline or refuses the document; whatever   *)
(* is written between quotes, and however long, is read as it was meant.   *)
(***************************************************************************)
EXTENDS QuotedLines, Planner_proofs

-----------------------------------------------------------------------------
(* Functions that are defined from one number to the next *)

LEMMA FromZero ==
  ASSUME NEW n \in Nat, NEW T, 0 \in T, \A i \in 0..n : i \in T => i + 1 \in T
  PROVE  0..n \subseteq T
<1>1. \A i \in 0..n : i = 0 \/ i \in 1..n
  OBVIOUS
<1>2. 0 \in 0..n /\ \A i \in 1..n : i \in 0..n
  OBVIOUS
<1>3. 1 \in T
  BY <1>2, 0 + 1 = 1
<1>4. 1..n \subseteq T
  BY <1>2, <1>3, UpTo
<1> QED
  BY <1>1, <1>4

\* What the values up to each number make of one another.
Collects(f, chosen, value, m) ==
    /\ f[0] = <<>>
    /\ \A i \in 1..m : f[i] = IF i \in chosen THEN Append(f[i - 1], value[i]) ELSE f[i - 1]

LEMMA CollectedFacts ==
  ASSUME NEW n \in Nat, NEW chosen, NEW value
  PROVE  Collects(Collected(n, chosen, value), chosen, value, n)
<1> DEFINE Grown(f, i) == IF i \in chosen THEN Append(f[i - 1], value[i]) ELSE f[i - 1]
           Reaches(m) == \E f : Collects(f, chosen, value, m)
           Reached == {m \in Nat : Reaches(m)}
           Body(f) == [i \in 0..n |-> IF i = 0 THEN <<>> ELSE Grown(f, i)]
           found == CHOOSE f : f = Body(f)
<1>1. 0 \in Reached
  <2> DEFINE f == [i \in 0..0 |-> <<>>]
  <2>1. f[0] = <<>> /\ 1..0 = {}
    OBVIOUS
  <2> HIDE DEF f
  <2>2. Collects(f, chosen, value, 0)
    BY <2>1 DEF Collects
  <2> QED
    BY <2>2
<1>2. ASSUME NEW m \in 0..n, m \in Reached PROVE m + 1 \in Reached
  <2>1. PICK f : Collects(f, chosen, value, m)
    BY <1>2
  <2> DEFINE g == [i \in 0..(m + 1) |-> IF i = m + 1 THEN Grown(f, m + 1) ELSE f[i]]
  <2>2. m \in Nat /\ m + 1 \in Nat
    OBVIOUS
  <2>3. g[m + 1] = Grown(f, m + 1) /\ \A i \in 0..m : g[i] = f[i]
    BY <2>2
  <2> HIDE DEF g
  <2>4. ASSUME NEW i \in 1..(m + 1) PROVE g[i] = Grown(g, i)
    <3>1. i - 1 \in 0..m /\ g[i - 1] = f[i - 1]
      BY <2>2, <2>3
    <3>2. CASE i = m + 1
      BY <2>3, <3>1, <3>2
    <3>3. CASE i # m + 1
      <4>1. i \in 1..m /\ i \in 0..m
        BY <2>2, <3>3
      <4> QED
        BY <2>1, <2>3, <3>1, <4>1 DEF Collects
    <3> QED
      BY <3>2, <3>3
  <2>5. 0 \in 0..m /\ g[0] = <<>>
    BY <2>1, <2>2, <2>3 DEF Collects
  <2>6. Collects(g, chosen, value, m + 1)
    BY <2>4, <2>5 DEF Collects
  <2> QED
    BY <2>2, <2>6
<1>3. 0..n \subseteq Reached
  <2> HIDE DEF Reached
  <2> QED
    BY <1>1, <1>2, FromZero
<1>4. PICK f : Collects(f, chosen, value, n)
  <2>1. n \in Reached
    BY <1>3
  <2> QED
    BY <2>1
<1>5. \E h : h = Body(h)
  <2> DEFINE h == [i \in 0..n |-> f[i]]
  <2>1. \A i \in 0..n : h[i] = f[i]
    OBVIOUS
  <2>2. ASSUME NEW i \in 0..n PROVE h[i] = IF i = 0 THEN <<>> ELSE Grown(h, i)
    <3>1. CASE i = 0
      BY <1>4, <2>1, <3>1 DEF Collects
    <3>2. CASE i # 0
      <4>1. i \in 1..n /\ i - 1 \in 0..n
        BY <3>2
      <4> HIDE DEF h
      <4> QED
        BY <1>4, <2>1, <3>2, <4>1 DEF Collects
    <3> QED
      BY <3>1, <3>2
  <2>3. h = [i \in 0..n |-> h[i]]
    OBVIOUS
  <2> HIDE DEF h
  <2>4. [i \in 0..n |-> h[i]] = Body(h)
    BY <2>2
  <2> HIDE DEF Body
  <2>5. h = Body(h)
    BY <2>3, <2>4, Zenon
  <2> QED
    BY <2>5
<1>6. found = Body(found)
  BY <1>5
<1>7. Collected(n, chosen, value) = found
  BY DEF Collected
<1> HIDE DEF found
<1>8. found[0] = <<>> /\ \A i \in 1..n : found[i] = Grown(found, i)
  <2>1. 0 \in 0..n /\ \A i \in 1..n : i \in 0..n /\ i # 0
    OBVIOUS
  <2>2. \A i \in 0..n : found[i] = IF i = 0 THEN <<>> ELSE Grown(found, i)
    BY <1>6
  <2> QED
    BY <2>1, <2>2
<1> QED
  BY <1>7, <1>8 DEF Collects

-----------------------------------------------------------------------------
(* Which line belongs to which *)

LineType == [indent : Nat, text : Seq(STRING)]
LinesOK == lines \in Seq(LineType)

LEMMA LineFacts ==
  ASSUME LinesOK
  PROVE  Len(lines) \in Nat /\ \A i \in 1..Len(lines) : lines[i].indent \in Nat
<1>1. Len(lines) \in Nat /\ \A i \in 1..Len(lines) : lines[i] \in LineType
  BY DEF LinesOK
<1> QED
  BY <1>1 DEF LineType

\* The nearest line above that is less deep: there is none in between.
LEMMA NearestFacts ==
  ASSUME LinesOK, NEW i \in 1..(Len(lines) + 1), NEW depth \in Nat
  PROVE  /\ Nearest(i, depth) \in 0..(i - 1)
         /\ Nearest(i, depth) # 0 => lines[Nearest(i, depth)].indent < depth
         /\ \A j \in 1..(i - 1) : j > Nearest(i, depth) => lines[j].indent >= depth
<1> DEFINE Above == {0} \union {j \in 1..(i - 1) : lines[j].indent < depth}
<1>1. Len(lines) \in Nat /\ \A j \in 1..Len(lines) : lines[j].indent \in Nat
  BY LineFacts
<1>2. i - 1 \in Nat /\ Above \in SUBSET (0..(i - 1)) /\ Above # {}
  BY <1>1
<1>3. Nearest(i, depth) = Max(Above)
  BY DEF Nearest
<1>4. Max(Above) \in Above /\ \A j \in Above : j <= Max(Above)
  <2> HIDE DEF Above
  <2> QED
    BY <1>2, MaxFacts
<1>5. \A j \in 1..(i - 1) : j > Max(Above) => lines[j].indent >= depth
  <2> SUFFICES ASSUME NEW j \in 1..(i - 1), j > Max(Above), ~(lines[j].indent >= depth) PROVE FALSE
    OBVIOUS
  <2>1. lines[j].indent \in Nat
    BY <1>1
  <2>2. j \in Above
    BY <2>1
  <2>3. Max(Above) \in 0..(i - 1)
    BY <1>2, <1>4
  <2> HIDE DEF Above
  <2> QED
    BY <1>4, <2>2, <2>3
<1> QED
  BY <1>2, <1>3, <1>4, <1>5

LEMMA NearestIs ==
  ASSUME LinesOK, NEW i \in 1..(Len(lines) + 1), NEW depth \in Nat, NEW k \in 0..(i - 1),
         k # 0 => lines[k].indent < depth,
         \A j \in 1..(i - 1) : j > k => lines[j].indent >= depth
  PROVE  Nearest(i, depth) = k
<1> DEFINE m == Nearest(i, depth)
<1>1. Len(lines) \in Nat /\ \A j \in 1..Len(lines) : lines[j].indent \in Nat
  BY LineFacts
<1>2. /\ m \in 0..(i - 1)
      /\ m # 0 => lines[m].indent < depth
      /\ \A j \in 1..(i - 1) : j > m => lines[j].indent >= depth
  BY NearestFacts
<1> HIDE DEF m
<1>3. CASE m < k
  <2>1. k \in 1..(i - 1) /\ k # 0 /\ k \in 1..Len(lines)
    BY <1>1, <1>2, <1>3
  <2> QED
    BY <1>1, <1>2, <1>3, <2>1
<1>4. CASE k < m
  <2>1. m \in 1..(i - 1) /\ m # 0 /\ m \in 1..Len(lines)
    BY <1>1, <1>2, <1>4
  <2> QED
    BY <1>1, <1>2, <1>4, <2>1
<1> QED
  BY <1>2, <1>3, <1>4 DEF m

\* Past a line that is not less deep, the nearest one stays; a less deep one becomes it.
LEMMA NearestNext ==
  ASSUME LinesOK, NEW i \in 1..Len(lines), NEW depth \in Nat
  PROVE  Nearest(i + 1, depth) = IF lines[i].indent >= depth THEN Nearest(i, depth) ELSE i
<1>1. Len(lines) \in Nat /\ lines[i].indent \in Nat
  BY LineFacts
<1>2. i \in 1..(Len(lines) + 1) /\ i + 1 \in 1..(Len(lines) + 1) /\ (i + 1) - 1 = i
  BY <1>1
<1> DEFINE k == Nearest(i, depth)
<1>3. /\ k \in 0..(i - 1)
      /\ k # 0 => lines[k].indent < depth
      /\ \A j \in 1..(i - 1) : j > k => lines[j].indent >= depth
  BY <1>2, NearestFacts
<1> HIDE DEF k
<1>4. CASE lines[i].indent >= depth
  <2>1. \A j \in 1..i : j > k => lines[j].indent >= depth
    BY <1>1, <1>3, <1>4
  <2>2. k \in 0..i
    BY <1>1, <1>3
  <2>3. Nearest(i + 1, depth) = k
    BY <1>2, <1>3, <2>1, <2>2, NearestIs
  <2> QED
    BY <1>4, <2>3 DEF k
<1>5. CASE ~(lines[i].indent >= depth)
  <2>1. i \in 0..i /\ lines[i].indent < depth
    BY <1>1, <1>5
  <2>2. \A j \in 1..i : j > i => lines[j].indent >= depth
    BY <1>1
  <2>3. Nearest(i + 1, depth) = i
    BY <1>2, <2>1, <2>2, NearestIs
  <2> QED
    BY <1>5, <2>3
<1> QED
  BY <1>4, <1>5

LEMMA OwnerFacts ==
  ASSUME LinesOK, NEW i \in 1..Len(lines)
  PROVE  /\ Owner(i) \in 0..(i - 1)
         /\ Owner(i) # 0 => lines[Owner(i)].indent < lines[i].indent
         /\ \A j \in 1..(i - 1) : j > Owner(i) => lines[j].indent >= lines[i].indent
<1>1. i \in 1..(Len(lines) + 1) /\ lines[i].indent \in Nat
  BY LineFacts
<1> QED
  BY <1>1, NearestFacts DEF Owner

\* What is below a line comes after it.
LEMMA BelowFacts ==
  ASSUME LinesOK, NEW last \in 0..Len(lines), NEW i, NEW j \in Below(i, last)
  PROVE  /\ j \in 1..last /\ j \in 1..Len(lines) /\ Owner(j) = i /\ i \in 0..(j - 1)
         /\ i # 0 => lines[i].indent < lines[j].indent
         /\ \A h \in 1..(j - 1) : h > i => lines[h].indent >= lines[j].indent
<1>1. Len(lines) \in Nat
  BY LineFacts
<1>2. j \in 1..last /\ Owner(j) = i
  BY DEF Below
<1>3. j \in 1..Len(lines)
  BY <1>1, <1>2
<1> QED
  BY <1>2, <1>3, OwnerFacts

\* One more line is one more below its owner, and below no other.
LEMMA BelowNext ==
  ASSUME LinesOK, NEW x \in 1..Len(lines), NEW i
  PROVE  /\ Below(i, x) = IF Owner(x) = i THEN Below(i, x - 1) \union {x} ELSE Below(i, x - 1)
         /\ x \notin Below(i, x - 1)
         /\ Below(x, x) = {}
<1>1. Len(lines) \in Nat /\ x \in Nat
  BY LineFacts
<1>2. \A j : j \in 1..x <=> j \in 1..(x - 1) \/ j = x
  BY <1>1
<1>3. x \notin 1..(x - 1)
  BY <1>1
<1>4. ASSUME NEW j \in Below(x, x) PROVE FALSE
  <2>1. j \in 1..x /\ x \in 0..(j - 1)
    BY <1>1, <1>4, BelowFacts
  <2> QED
    BY <1>1, <2>1
<1> QED
  BY <1>2, <1>3, <1>4 DEF Below

\* Behind a line that is not deeper, nothing more is below the ones above it.
LEMMA BelowComplete ==
  ASSUME LinesOK, NEW x \in 1..(Len(lines) + 1), NEW i \in 0..(x - 1),
         x <= Len(lines) => i # 0 /\ lines[x].indent <= lines[i].indent
  PROVE  Below(i, Len(lines)) = Below(i, x - 1)
<1>1. Len(lines) \in Nat /\ \A j \in 1..Len(lines) : lines[j].indent \in Nat
  BY LineFacts
<1>2. \A j \in 1..(x - 1) : j \in 1..Len(lines)
  BY <1>1
<1>3. ASSUME NEW j \in Below(i, Len(lines)), ~(j < x) PROVE FALSE
  <2>1. /\ j \in 1..Len(lines) /\ i \in 0..(j - 1)
        /\ i # 0 => lines[i].indent < lines[j].indent
        /\ \A h \in 1..(j - 1) : h > i => lines[h].indent >= lines[j].indent
    BY <1>1, <1>3, BelowFacts
  <2>2. x \in 1..Len(lines) /\ x <= j
    BY <1>1, <1>3, <2>1
  <2>3. i # 0 /\ lines[x].indent <= lines[i].indent /\ i \in 1..Len(lines)
    BY <1>1, <2>1, <2>2
  <2>4. lines[x].indent < lines[j].indent
    BY <1>1, <2>1, <2>2, <2>3
  <2>5. x # j
    BY <1>1, <2>1, <2>4
  <2>6. x \in 1..(j - 1) /\ x > i
    BY <1>1, <2>1, <2>2, <2>5
  <2>7. lines[x].indent >= lines[j].indent
    BY <2>1, <2>6
  <2> QED
    BY <1>1, <2>1, <2>2, <2>4, <2>7
<1>4. \A j \in 1..Len(lines) : j < x => j \in 1..(x - 1)
  BY <1>1
<1> QED
  BY <1>2, <1>3, <1>4 DEF Below

-----------------------------------------------------------------------------
(* The outline is made from its end: a node needs those below it only. *)

LEMMA NodeIsLocal ==
  ASSUME NEW i, NEW f, NEW g, \A j \in Below(i, Len(lines)) : f[j] = g[j]
  PROVE  OutlineNode(i, f) = OutlineNode(i, g)
<1> DEFINE below == Below(i, Len(lines))
           names == {LineSplit(j).key : j \in below}
           At(key) == CHOOSE j \in below : LineSplit(j).key = key
<1>1. ASSUME NEW key \in names PROVE At(key) \in below
  <2>1. \E j \in below : LineSplit(j).key = key
    OBVIOUS
  <2> HIDE DEF below, names
  <2> QED
    BY <2>1
<1>2. \A key \in names : f[At(key)] = g[At(key)]
  BY <1>1
<1> HIDE DEF At
<1>3. [key \in names |-> f[At(key)]] = [key \in names |-> g[At(key)]]
  BY <1>2
<1> QED
  BY <1>3 DEF OutlineNode, At

LEMMA OutlineFacts ==
  ASSUME LinesOK, NEW i \in 0..Len(lines)
  PROVE  Outline[i] = OutlineNode(i, Outline)
<1> DEFINE n == Len(lines)
           Reaches(f, m) == \A k \in 0..n : k >= n - m => f[k] = OutlineNode(k, f)
           Reached == {m \in Nat : \E f : Reaches(f, m)}
           Body(f) == [k \in 0..n |-> OutlineNode(k, f)]
           found == CHOOSE f : f = Body(f)
<1>1. n \in Nat
  BY LineFacts
<1>2. ASSUME NEW k \in 0..n, NEW j \in Below(k, n) PROVE j \in 0..n /\ j > k
  <2>1. j \in 1..n /\ k \in 0..(j - 1)
    BY <1>1, BelowFacts
  <2> QED
    BY <1>1, <2>1
<1> HIDE DEF n
<1>3. ASSUME NEW m \in 0..n, NEW f, m = 0 \/ Reaches(f, m - 1) PROVE \E g : Reaches(g, m)
  <2> DEFINE x == n - m
             g == [k \in 0..n |-> IF k = x THEN OutlineNode(x, f) ELSE f[k]]
  <2>1. x \in 0..n /\ \A k \in 0..n : k >= x => k = x \/ (m # 0 /\ k >= n - (m - 1))
    BY <1>1
  <2>2. g[x] = OutlineNode(x, f) /\ \A k \in 0..n : k # x => g[k] = f[k]
    BY <2>1
  <2> HIDE DEF g
  <2>3. ASSUME NEW k \in 0..n, k >= x PROVE OutlineNode(k, g) = OutlineNode(k, f)
    <3>1. \A j \in Below(k, n) : j \in 0..n /\ j # x
      BY <1>1, <1>2, <2>1, <2>3
    <3>2. \A j \in Below(k, n) : g[j] = f[j]
      BY <2>2, <3>1
    <3> QED
      BY <3>2, NodeIsLocal DEF n
  <2>4. ASSUME NEW k \in 0..n, k >= x PROVE g[k] = OutlineNode(k, g)
    <3>1. CASE k = x
      BY <2>2, <2>3, <2>4, <3>1
    <3>2. CASE k # x
      <4>1. f[k] = OutlineNode(k, f)
        BY <1>3, <2>1, <2>4, <3>2
      <4> QED
        BY <2>2, <2>3, <2>4, <3>2, <4>1
    <3> QED
      BY <3>1, <3>2
  <2> QED
    BY <2>4
<1>4. 0 \in Reached
  <2>1. \E g : Reaches(g, 0)
    BY <1>1, <1>3, 0 \in 0..n
  <2> QED
    BY <2>1
<1>5. ASSUME NEW m \in 0..n, m \in Reached PROVE m + 1 \in Reached
  <2>1. PICK f : Reaches(f, m)
    BY <1>5
  <2>2. m \in Nat /\ m + 1 \in Nat /\ (m + 1) - 1 = m
    OBVIOUS
  <2>3. CASE m = n
    <3>1. Reaches(f, m + 1)
      BY <1>1, <2>1, <2>3
    <3> QED
      BY <2>2, <3>1
  <2>4. CASE m # n
    <3>1. m + 1 \in 0..n
      BY <1>1, <2>4
    <3> HIDE DEF Reaches
    <3>2. \E g : Reaches(g, m + 1)
      BY <1>3, <2>1, <2>2, <3>1
    <3> QED
      BY <2>2, <3>2
  <2> QED
    BY <2>3, <2>4
<1>6. PICK f : Reaches(f, n)
  <2>1. 0..n \subseteq Reached
    <3> HIDE DEF Reached
    <3> QED
      BY <1>1, <1>4, <1>5, FromZero
  <2>2. n \in Reached
    BY <1>1, <2>1
  <2> QED
    BY <2>2
<1>7. \E h : h = Body(h)
  <2> DEFINE h == [k \in 0..n |-> f[k]]
  <2>1. \A k \in 0..n : h[k] = f[k]
    OBVIOUS
  <2>2. h = [k \in 0..n |-> h[k]]
    OBVIOUS
  <2> HIDE DEF h
  <2>3. ASSUME NEW k \in 0..n PROVE h[k] = OutlineNode(k, h)
    <3>1. \A j \in Below(k, n) : h[j] = f[j]
      BY <1>2, <2>1
    <3>2. OutlineNode(k, h) = OutlineNode(k, f)
      BY <3>1, NodeIsLocal DEF n
    <3>3. f[k] = OutlineNode(k, f)
      BY <1>1, <1>6
    <3> QED
      BY <2>1, <3>2, <3>3
  <2>4. [k \in 0..n |-> h[k]] = Body(h)
    BY <2>3
  <2> QED
    BY <2>2, <2>4
<1>8. found = Body(found)
  BY <1>7
<1>9. Outline = found
  BY DEF Outline, n
<1> HIDE DEF found
<1>10. found[i] = OutlineNode(i, found)
  <2>1. \A k \in 0..n : found[k] = OutlineNode(k, found)
    BY <1>8
  <2> QED
    BY <2>1 DEF n
<1> QED
  BY <1>9, <1>10

-----------------------------------------------------------------------------
(* One line more of an outline *)

LEMMA ItemsFacts ==
  ASSUME LinesOK, NEW i
  PROVE  /\ ItemsBelow(i)[0] = <<>>
         /\ \A x \in 1..Len(lines) :
              ItemsBelow(i)[x] = IF Owner(x) = i THEN Append(ItemsBelow(i)[x - 1], ItemOf(x))
                                 ELSE ItemsBelow(i)[x - 1]
<1> DEFINE n == Len(lines)
           value == [j \in 1..n |-> ItemOf(j)]
<1>1. n \in Nat
  BY LineFacts
<1>2. Collects(ItemsBelow(i), Below(i, n), value, n)
  BY <1>1, CollectedFacts DEF ItemsBelow
<1>3. \A x \in 1..n : value[x] = ItemOf(x) /\ (x \in Below(i, n) <=> Owner(x) = i)
  BY DEF Below
<1> HIDE DEF value
<1> QED
  BY <1>2, <1>3 DEF Collects

\* No item comes with lines that belong elsewhere.
LEMMA ItemsStay ==
  ASSUME LinesOK, NEW i, NEW x \in 0..Len(lines), NEW y \in x..Len(lines),
         \A j \in (x + 1)..y : Owner(j) # i
  PROVE  ItemsBelow(i)[y] = ItemsBelow(i)[x]
<1> DEFINE n == y - x
           T == {d \in 0..n : ItemsBelow(i)[x + d] = ItemsBelow(i)[x]} \union {n + 1}
<1>1. Len(lines) \in Nat /\ n \in Nat /\ x \in Nat /\ x + n = y /\ x + 0 = x
  BY LineFacts
<1>2. 0 \in T
  BY <1>1
<1>3. ASSUME NEW d \in 0..n, d \in T PROVE d + 1 \in T
  <2>1. CASE d = n
    BY <2>1
  <2>2. CASE d # n
    <3>1. /\ x + (d + 1) \in 1..Len(lines) /\ x + (d + 1) \in (x + 1)..y
          /\ (x + (d + 1)) - 1 = x + d /\ d + 1 \in 0..n /\ d # n + 1
      BY <1>1, <2>2
    <3>2. ItemsBelow(i)[x + d] = ItemsBelow(i)[x]
      BY <1>3, <3>1
    <3>3. ItemsBelow(i)[x + (d + 1)] = ItemsBelow(i)[x + d]
      BY <3>1, ItemsFacts
    <3> QED
      BY <3>1, <3>2, <3>3
  <2> QED
    BY <2>1, <2>2
<1>4. n \in T
  <2> HIDE DEF T
  <2>1. 0..n \subseteq T
    BY <1>1, <1>2, <1>3, FromZero
  <2> QED
    BY <1>1, <2>1
<1> QED
  BY <1>1, <1>4

\* Of a block of entries, of a block of items.
EntriesBelow(i, last) ==
    /\ \A j \in Below(i, last) :
         /\ IsEntry(j)
         /\ \/ LineSplit(j).raw = <<>>
            \/ Below(j, last) = {} /\ ParseInlineValue(LineSplit(j).raw) # Unreadable
    /\ \A j, k \in Below(i, last) : LineSplit(j).key = LineSplit(k).key => j = k
ItemsOnlyBelow(i, last) == \A j \in Below(i, last) : IsScalarItem(j) /\ Below(j, last) = {}
SameDepth(i, last) == \A j, k \in Below(i, last) : lines[j].indent = lines[k].indent

LEMMA BlockFacts ==
  ASSUME NEW i, NEW last
  PROVE  IsBlock(i, last) <=>
           SameDepth(i, last) /\ (ItemsOnlyBelow(i, last) \/ EntriesBelow(i, last))
BY DEF IsBlock, SameDepth, ItemsOnlyBelow, EntriesBelow

LEMMA EmptyBlock ==
  ASSUME NEW i, NEW last, Below(i, last) = {}
  PROVE  IsBlock(i, last)
BY BlockFacts DEF SameDepth, ItemsOnlyBelow

\* The line behind one that is less deep is the first below it.
LEMMA FirstBelow ==
  ASSUME LinesOK, NEW i \in 0..(Len(lines) - 1), i # 0 => lines[i].indent < lines[i + 1].indent,
         NEW last \in (i + 1)..Len(lines)
  PROVE  i + 1 \in Below(i, last)
<1>1. Len(lines) \in Nat /\ lines[i + 1].indent \in Nat /\ i + 1 \in 1..(Len(lines) + 1)
  BY LineFacts
<1>2. i \in 0..((i + 1) - 1) /\ \A j \in 1..((i + 1) - 1) : ~(j > i)
  BY <1>1
<1>3. Owner(i + 1) = i
  BY <1>1, <1>2, NearestIs DEF Owner
<1> QED
  BY <1>1, <1>3 DEF Below

\* The first line tells what the others are.
LEMMA BlockOfKind ==
  ASSUME LinesOK, NEW i \in 0..(Len(lines) - 1), i # 0 => lines[i].indent < lines[i + 1].indent,
         NEW last \in i..Len(lines), IsBlock(i, last)
  PROVE  /\ \A j \in Below(i, last) : lines[j].indent = lines[i + 1].indent
         /\ IF IsItem(lines[i + 1]) THEN ItemsOnlyBelow(i, last) ELSE EntriesBelow(i, last)
<1>1. Len(lines) \in Nat /\ last \in 0..Len(lines)
  BY LineFacts
<1>2. CASE last = i
  <2>1. ASSUME NEW j \in Below(i, last) PROVE FALSE
    <3>1. j \in 1..last /\ i \in 0..(j - 1)
      BY <1>1, BelowFacts
    <3> QED
      BY <1>1, <1>2, <3>1
  <2> QED
    BY <2>1 DEF ItemsOnlyBelow, EntriesBelow
<1>3. CASE last # i
  <2>1. i + 1 \in Below(i, last)
    <3>1. last \in (i + 1)..Len(lines)
      BY <1>1, <1>3
    <3> QED
      BY <3>1, FirstBelow
  <2>2. SameDepth(i, last) /\ (ItemsOnlyBelow(i, last) \/ EntriesBelow(i, last))
    BY BlockFacts
  <2>3. ItemsOnlyBelow(i, last) => IsItem(lines[i + 1])
    BY <2>1 DEF ItemsOnlyBelow, IsScalarItem
  <2>4. EntriesBelow(i, last) => ~IsItem(lines[i + 1])
    BY <2>1 DEF EntriesBelow, IsEntry
  <2> QED
    BY <2>1, <2>2, <2>3, <2>4 DEF SameDepth
<1> QED
  BY <1>2, <1>3

\* The lines up to x are an outline when those before it are and its own block is one;
\* the owner of x must be an entry without a value.
LEMMA OutlinedNext ==
  ASSUME LinesOK, NEW x \in 1..Len(lines), IsOutlined(x - 1), IsBlock(Owner(x), x),
         Owner(x) # 0 => ~IsItem(lines[Owner(x)]) /\ LineSplit(Owner(x)).raw = <<>>
  PROVE  IsOutlined(x)
<1> SUFFICES ASSUME NEW i \in 0..x PROVE IsBlock(i, x)
  BY DEF IsOutlined
<1>1. Len(lines) \in Nat /\ x \in Nat /\ x - 1 \in 0..Len(lines)
  BY LineFacts
<1>2. CASE i = Owner(x)
  BY <1>2
<1>3. CASE i = x
  BY <1>3, BelowNext, EmptyBlock
<1>4. CASE i # Owner(x) /\ i # x
  <2>1. i \in 0..(x - 1)
    BY <1>1, <1>4
  <2>2. IsBlock(i, x - 1)
    BY <2>1 DEF IsOutlined
  <2>3. Below(i, x) = Below(i, x - 1)
    BY <1>4, BelowNext
  <2>4. \A j : j # Owner(x) => Below(j, x) = Below(j, x - 1)
    BY BelowNext
  <2>5. \A j \in Below(i, x - 1) : j # 0
    <3>1. \A j \in Below(i, x - 1) : j \in 1..(x - 1)
      BY <1>1, BelowFacts
    <3> QED
      BY <1>1, <3>1
  <2>6. SameDepth(i, x)
    BY <2>2, <2>3, BlockFacts DEF SameDepth
  <2>7. CASE ItemsOnlyBelow(i, x - 1)
    <3>1. \A j \in Below(i, x - 1) : j # Owner(x)
      BY <2>5, <2>7 DEF ItemsOnlyBelow, IsScalarItem
    <3>2. ItemsOnlyBelow(i, x)
      BY <2>3, <2>4, <2>7, <3>1 DEF ItemsOnlyBelow
    <3> QED
      BY <2>6, <3>2, BlockFacts
  <2>8. CASE EntriesBelow(i, x - 1)
    <3>1. \A j \in Below(i, x - 1) : j = Owner(x) => LineSplit(j).raw = <<>>
      BY <2>5
    <3>2. EntriesBelow(i, x)
      BY <2>3, <2>4, <2>8, <3>1 DEF EntriesBelow
    <3> QED
      BY <2>6, <3>2, BlockFacts
  <2> QED
    BY <2>2, <2>7, <2>8, BlockFacts
<1> QED
  BY <1>2, <1>3, <1>4

\* One more line of the depth and the kind of the first keeps the block.
LEMMA BlockNext ==
  ASSUME LinesOK, NEW x \in 1..Len(lines), Owner(x) \in 0..(Len(lines) - 1),
         Owner(x) # 0 => lines[Owner(x)].indent < lines[Owner(x) + 1].indent,
         IsBlock(Owner(x), x - 1), lines[x].indent = lines[Owner(x) + 1].indent,
         IF IsItem(lines[Owner(x) + 1]) THEN IsScalarItem(x)
         ELSE /\ IsEntry(x)
              /\ LineSplit(x).raw = <<>> \/ ParseInlineValue(LineSplit(x).raw) # Unreadable
              /\ \A j \in Below(Owner(x), x - 1) : LineSplit(j).key # LineSplit(x).key
  PROVE  IsBlock(Owner(x), x)
<1> DEFINE o == Owner(x)
<1>1. Len(lines) \in Nat /\ x \in Nat /\ o \in 0..(x - 1) /\ x - 1 \in o..Len(lines)
  BY LineFacts, OwnerFacts
<1>2. /\ \A j \in Below(o, x - 1) : lines[j].indent = lines[o + 1].indent
      /\ IF IsItem(lines[o + 1]) THEN ItemsOnlyBelow(o, x - 1) ELSE EntriesBelow(o, x - 1)
  BY <1>1, BlockOfKind
<1>3. Below(o, x) = Below(o, x - 1) \union {x} /\ Below(x, x) = {}
  BY BelowNext
<1>4. ASSUME NEW j \in Below(o, x - 1) PROVE Below(j, x) = Below(j, x - 1)
  <2>1. x - 1 \in 0..Len(lines)
    BY <1>1
  <2>2. o \in 0..(j - 1) /\ j \in 1..(x - 1)
    BY <2>1, BelowFacts
  <2>3. j # o
    BY <2>2
  <2> QED
    BY <2>3, BelowNext
<1>5. SameDepth(o, x)
  BY <1>2, <1>3 DEF SameDepth
<1>6. CASE IsItem(lines[o + 1])
  <2>1. ItemsOnlyBelow(o, x)
    BY <1>2, <1>3, <1>4, <1>6 DEF ItemsOnlyBelow
  <2> QED
    BY <1>5, <2>1, BlockFacts
<1>7. CASE ~IsItem(lines[o + 1])
  <2>1. EntriesBelow(o, x)
    <3>1. EntriesBelow(o, x - 1)
      BY <1>2, <1>7
    <3>2. ASSUME NEW j \in Below(o, x)
          PROVE  /\ IsEntry(j)
                 /\ \/ LineSplit(j).raw = <<>>
                    \/ Below(j, x) = {} /\ ParseInlineValue(LineSplit(j).raw) # Unreadable
      BY <1>3, <1>4, <1>7, <3>1, <3>2 DEF EntriesBelow
    <3>3. \A j, k \in Below(o, x) : LineSplit(j).key = LineSplit(k).key => j = k
      BY <1>3, <1>7, <3>1 DEF EntriesBelow
    <3> QED
      BY <3>2, <3>3 DEF EntriesBelow
  <2> QED
    BY <1>5, <2>1, BlockFacts
<1> QED
  BY <1>6, <1>7

-----------------------------------------------------------------------------
(* The calls in progress, when line x is read: FrameInv with its variables *)
(* as parameters.                                                          *)

At(x, call) == Nearest(x, call.indent)

IsCall(call) ==
    /\ DOMAIN call = {"kind", "indent", "key", "entries", "items"}
    /\ call.entries = [key \in DOMAIN call.entries |-> call.entries[key]]

Opened(x, call) ==
    /\ At(x, call) < Len(lines) /\ At(x, call) < x
    /\ call.indent = lines[At(x, call) + 1].indent
    /\ call.kind = IF IsItem(lines[At(x, call) + 1]) THEN "list" ELSE "map"

Inside(x, call, caller) ==
    /\ At(x, call) # 0 /\ call.key = LineSplit(At(x, call)).key
    /\ lines[At(x, call)].indent = caller.indent
    /\ caller.kind = "map" /\ LineSplit(At(x, call)).raw = <<>>

CallInv(x, calls) ==
    /\ lines # <<>> /\ lines[1].indent = 0 /\ x \in 1..(Len(lines) + 1)
    /\ calls \in Seq(ToSet(calls)) /\ calls # <<>> /\ calls[1].indent = 0
    /\ \A k \in 1..Len(calls) : IsCall(calls[k]) /\ Opened(x, calls[k])
    /\ \A k \in 2..Len(calls) : /\ Inside(x, calls[k], calls[k - 1])
                                /\ \A j \in 1..(k - 1) : calls[j].indent < calls[k].indent

LEMMA CallsAre ==
  ASSUME TypeOK, FrameInv, phase = "blocks"
  PROVE  LinesOK /\ CallInv(index, frames)
<1>1. LinesOK
  BY DEF TypeOK, LinesOK, LineType
<1>2. frames \in Seq(ToSet(frames)) /\ Len(frames) \in Nat /\ DOMAIN frames = 1..Len(frames)
  BY DEF TypeOK
<1>3. /\ lines # <<>> /\ lines[1].indent = 0 /\ index \in 1..(Len(lines) + 1)
      /\ frames # <<>> /\ frames[1].indent = 0
  BY DEF FrameInv
<1>4. \A k \in 1..Len(frames) : IsCall(frames[k]) /\ Opened(index, frames[k])
  BY <1>2 DEF TypeOK, FrameInv, IsCall, Opened, At, Opener
<1>5. \A k \in 2..Len(frames) : k \in DOMAIN frames \ {1}
  BY <1>2
<1>6. \A k \in 2..Len(frames) : /\ Inside(index, frames[k], frames[k - 1])
                                /\ \A j \in 1..(k - 1) : frames[j].indent < frames[k].indent
  BY <1>5 DEF FrameInv, Inside, At, Opener
<1> QED
  BY <1>1, <1>2, <1>3, <1>4, <1>6 DEF CallInv

\* A call was opened at a line above, which is less deep than the lines it has read.
LEMMA OpenedFacts ==
  ASSUME LinesOK, NEW x \in 1..(Len(lines) + 1), NEW call, Opened(x, call)
  PROVE  /\ At(x, call) \in 0..(Len(lines) - 1) /\ At(x, call) \in 0..(x - 1)
         /\ call.indent \in Nat /\ call.indent = lines[At(x, call) + 1].indent
         /\ At(x, call) # 0 => lines[At(x, call)].indent < call.indent
         /\ \A j \in 1..(x - 1) : j > At(x, call) => lines[j].indent >= call.indent
         /\ call.kind = IF IsItem(lines[At(x, call) + 1]) THEN "list" ELSE "map"
<1> DEFINE i == At(x, call)
           Above == {0} \union {j \in 1..(x - 1) : lines[j].indent < call.indent}
<1>1. Len(lines) \in Nat /\ \A j \in 1..Len(lines) : lines[j].indent \in Nat
  BY LineFacts
<1>2. x - 1 \in Nat /\ Above \in SUBSET (0..(x - 1)) /\ Above # {}
  BY <1>1
<1>3. i \in 0..(x - 1)
  <2>1. i = Max(Above)
    BY DEF At, Nearest
  <2>2. Max(Above) \in Above
    <3> HIDE DEF Above
    <3> QED
      BY <1>2, MaxFacts
  <2> HIDE DEF i, Above
  <2> QED
    BY <1>2, <2>1, <2>2
<1>4. i < Len(lines) /\ call.indent = lines[i + 1].indent
      /\ call.kind = IF IsItem(lines[i + 1]) THEN "list" ELSE "map"
  BY DEF Opened
<1> HIDE DEF i
<1>5. i \in 0..(Len(lines) - 1) /\ call.indent \in Nat
  BY <1>1, <1>3, <1>4
<1> QED
  BY <1>3, <1>4, <1>5, NearestFacts DEF At, i

\* Each call but the first was opened by a line its caller has read.
LEMMA InsideFacts ==
  ASSUME LinesOK, NEW x, NEW calls, CallInv(x, calls), NEW k \in 2..Len(calls)
  PROVE  /\ At(x, calls[k]) \in Below(At(x, calls[k - 1]), x - 1)
         /\ \A j \in 1..(k - 1) : At(x, calls[j]) # At(x, calls[k])
<1>1. /\ Len(lines) \in Nat /\ Len(calls) \in Nat /\ x \in 1..(Len(lines) + 1)
      /\ \A j \in 1..Len(lines) : lines[j].indent \in Nat
  BY LineFacts DEF CallInv
<1> DEFINE call == calls[k]
           caller == calls[k - 1]
           i == At(x, call)
           o == At(x, caller)
<1>2. Opened(x, call) /\ Opened(x, caller) /\ Inside(x, call, caller)
  BY <1>1 DEF CallInv
<1>3. /\ i # 0 /\ lines[i].indent = caller.indent
      /\ \A j \in 1..(k - 1) : calls[j].indent < calls[k].indent
  BY <1>2 DEF CallInv, Inside
<1>4. /\ i \in 0..(x - 1) /\ call.indent \in Nat
      /\ \A j \in 1..(x - 1) : j > i => lines[j].indent >= call.indent
  BY <1>1, <1>2, OpenedFacts
<1>5. /\ o \in 0..(x - 1) /\ caller.indent \in Nat
      /\ o # 0 => lines[o].indent < caller.indent
      /\ \A j \in 1..(x - 1) : j > o => lines[j].indent >= caller.indent
  BY <1>1, <1>2, OpenedFacts
<1>6. caller.indent < call.indent
  <2>1. k - 1 \in 1..(k - 1)
    BY <1>1
  <2> QED
    BY <1>3, <2>1
<1>7. o < i
  <2> HIDE DEF o, i, call, caller
  <2>1. o # i
    BY <1>3, <1>4, <1>5
  <2>2. ~(o > i)
    <3> SUFFICES ASSUME o > i PROVE FALSE
      OBVIOUS
    <3>1. o \in 1..(x - 1) /\ o # 0
      BY <1>1, <1>4, <1>5
    <3>2. lines[o].indent >= call.indent /\ lines[o].indent < caller.indent /\ lines[o].indent \in Nat
      BY <1>1, <1>4, <1>5, <3>1
    <3> QED
      BY <1>4, <1>5, <1>6, <3>2
  <2> QED
    BY <1>1, <1>4, <1>5, <2>1, <2>2
<1>8. i \in 1..Len(lines) /\ i \in 1..(x - 1) /\ i \in 1..(Len(lines) + 1) /\ o \in 0..(i - 1)
  <2> HIDE DEF o, i
  <2> QED
    BY <1>1, <1>3, <1>4, <1>5, <1>7
<1>9. Owner(i) = o
  <2>1. \A j \in 1..(i - 1) : j > o => lines[j].indent >= caller.indent
    <3> HIDE DEF o, i, call, caller
    <3> QED
      BY <1>1, <1>5, <1>8
  <2>2. Nearest(i, caller.indent) = o
    <3> HIDE DEF o, i, call, caller
    <3> QED
      BY <1>5, <1>8, <2>1, NearestIs
  <2> QED
    BY <1>3, <2>2 DEF Owner
<1>10. i \in Below(o, x - 1)
  <2> HIDE DEF o, i
  <2> QED
    BY <1>8, <1>9 DEF Below
<1>11. ASSUME NEW j \in 1..(k - 1) PROVE At(x, calls[j]) # i
  <2>1. j \in 1..Len(calls) /\ (j = k - 1 \/ (k - 1 \in 2..Len(calls) /\ j \in 1..((k - 1) - 1)))
    BY <1>1
  <2>2. Opened(x, calls[j])
    BY <2>1 DEF CallInv
  <2>3. /\ calls[j].indent \in Nat
        /\ At(x, calls[j]) # 0 => lines[At(x, calls[j])].indent < calls[j].indent
    BY <1>1, <2>2, OpenedFacts
  <2>4. calls[j].indent <= caller.indent
    <3>1. CASE j = k - 1
      BY <2>3, <3>1
    <3>2. CASE j # k - 1
      <4>1. calls[j].indent < calls[k - 1].indent
        BY <2>1, <3>2 DEF CallInv
      <4> QED
        BY <1>5, <2>3, <4>1
    <3> QED
      BY <3>1, <3>2
  <2> SUFFICES ASSUME At(x, calls[j]) = i PROVE FALSE
    OBVIOUS
  <2>5. lines[i].indent < calls[j].indent
    BY <1>3, <2>3
  <2> HIDE DEF i, caller, call
  <2> QED
    BY <1>3, <1>5, <2>3, <2>4, <2>5
<1> QED
  BY <1>10, <1>11

-----------------------------------------------------------------------------
(* What the steps do to the calls *)

LEMMA SelfTyped ==
  ASSUME NEW T, NEW s \in Seq(T)
  PROVE  s \in Seq(ToSet(s)) /\ DOMAIN s = 1..Len(s) /\ Len(s) \in Nat
<1> DEFINE copy == [i \in 1..Len(s) |-> s[i]]
<1>1. Len(s) \in Nat /\ DOMAIN s = 1..Len(s) /\ s = copy
  OBVIOUS
<1>2. \A i \in 1..Len(s) : s[i] \in ToSet(s)
  BY DEF ToSet
<1>3. copy \in Seq(ToSet(s))
  BY <1>1, <1>2, IsASeq
<1> HIDE DEF copy
<1>4. s \in Seq(ToSet(s))
  BY <1>1, <1>3, Zenon
<1> QED
  BY <1>1, <1>4, Zenon

LEMMA LastReplaced ==
  ASSUME NEW T, NEW calls \in Seq(T), calls # <<>>, NEW call
  PROVE  LET new == [calls EXCEPT ![Len(calls)] = call]
         IN  /\ new \in Seq(ToSet(new)) /\ Len(new) = Len(calls) /\ new # <<>>
             /\ new[Len(calls)] = call
             /\ \A k \in 1..Len(calls) : k # Len(calls) => new[k] = calls[k]
<1> DEFINE new == [calls EXCEPT ![Len(calls)] = call]
<1>1. Len(calls) \in Nat /\ Len(calls) # 0 /\ \A k \in 1..Len(calls) : calls[k] \in T
  OBVIOUS
<1>2. new \in Seq(T \union {call})
  <2>1. calls \in Seq(T \union {call})
    <3>1. calls = [k \in 1..Len(calls) |-> calls[k]]
      OBVIOUS
    <3>2. [k \in 1..Len(calls) |-> calls[k]] \in Seq(T \union {call})
      BY <1>1, IsASeq
    <3> QED
      BY <3>1, <3>2
  <2> QED
    BY <1>1, <2>1
<1>3. Len(new) = Len(calls) /\ new[Len(calls)] = call
  BY <1>1
<1>4. \A k \in 1..Len(calls) : k # Len(calls) => new[k] = calls[k]
  BY <1>1
<1> HIDE DEF new
<1>5. new \in Seq(ToSet(new))
  BY <1>2, SelfTyped
<1>6. new # <<>>
  BY <1>1, <1>2, <1>3
<1> QED
  BY <1>3, <1>4, <1>5, <1>6 DEF new

\* Of two calls that only differ in what they have collected.
SameCall(a, b) == a.kind = b.kind /\ a.indent = b.indent /\ a.key = b.key

\* The new entry is there, and no other has changed.
LEMMA StoredFacts ==
  ASSUME NEW T, NEW calls \in Seq(T), calls # <<>>, IsCall(calls[Len(calls)]), NEW key, NEW node
  PROVE  LET new == WithEntry(calls, key, node)
             m == Len(calls)
         IN  /\ new \in Seq(ToSet(new)) /\ Len(new) = m /\ new # <<>>
             /\ \A k \in 1..m : k # m => new[k] = calls[k]
             /\ IsCall(new[m]) /\ SameCall(new[m], calls[m]) /\ new[m].items = calls[m].items
             /\ DOMAIN new[m].entries = {key} \union DOMAIN calls[m].entries
             /\ new[m].entries[key] = node
             /\ \A f \in DOMAIN calls[m].entries :
                  f # key => new[m].entries[f] = calls[m].entries[f]
<1> DEFINE m == Len(calls)
           entries == [f \in {key} \union DOMAIN calls[m].entries |->
                         IF f = key THEN node ELSE calls[m].entries[f]]
           call == [calls[m] EXCEPT !.entries = entries]
           new == [calls EXCEPT ![m] = call]
<1>1. m \in 1..m /\ DOMAIN calls = 1..m
  OBVIOUS
<1>2. WithEntry(calls, key, node) = new
  BY <1>1 DEF WithEntry
<1>3. /\ DOMAIN entries = {key} \union DOMAIN calls[m].entries
      /\ entries = [f \in DOMAIN entries |-> entries[f]]
      /\ entries[key] = node
      /\ \A f \in DOMAIN calls[m].entries : f # key => entries[f] = calls[m].entries[f]
  OBVIOUS
<1> HIDE DEF entries
<1>4. /\ call.entries = entries /\ call.items = calls[m].items /\ SameCall(call, calls[m])
      /\ DOMAIN call = DOMAIN calls[m]
  BY DEF IsCall, SameCall
<1> HIDE DEF call
<1>5. IsCall(call)
  BY <1>3, <1>4 DEF IsCall
<1>6. /\ new \in Seq(ToSet(new)) /\ Len(new) = m /\ new # <<>> /\ new[m] = call
      /\ \A k \in 1..m : k # m => new[k] = calls[k]
  BY LastReplaced
<1> HIDE DEF new, m
<1> QED
  BY <1>2, <1>3, <1>4, <1>5, <1>6 DEF m

LEMMA ItemFacts ==
  ASSUME NEW T, NEW calls \in Seq(T), calls # <<>>, IsCall(calls[Len(calls)]), NEW item
  PROVE  LET new == [calls EXCEPT ![Len(calls)].items = Append(@, item)]
             m == Len(calls)
         IN  /\ new \in Seq(ToSet(new)) /\ Len(new) = m /\ new # <<>>
             /\ \A k \in 1..m : k # m => new[k] = calls[k]
             /\ IsCall(new[m]) /\ SameCall(new[m], calls[m])
             /\ new[m].items = Append(calls[m].items, item)
<1> DEFINE m == Len(calls)
           items == Append(calls[m].items, item)
           call == [calls[m] EXCEPT !.items = items]
           new == [calls EXCEPT ![m] = call]
<1>1. m \in 1..m /\ DOMAIN calls = 1..m
  OBVIOUS
<1>2. [calls EXCEPT ![Len(calls)].items = Append(@, item)] = new
  BY <1>1
<1> HIDE DEF items
<1>3. /\ call.items = items /\ call.entries = calls[m].entries /\ SameCall(call, calls[m])
      /\ DOMAIN call = DOMAIN calls[m]
  BY DEF IsCall, SameCall
<1> HIDE DEF call
<1>4. IsCall(call)
  BY <1>3 DEF IsCall
<1>5. /\ new \in Seq(ToSet(new)) /\ Len(new) = m /\ new # <<>> /\ new[m] = call
      /\ \A k \in 1..m : k # m => new[k] = calls[k]
  BY LastReplaced
<1> HIDE DEF new, m
<1> QED
  BY <1>2, <1>3, <1>4, <1>5 DEF m, items

LEMMA CallsSame ==
  ASSUME NEW x, NEW calls, CallInv(x, calls), NEW new, new \in Seq(ToSet(new)), new # <<>>,
         Len(new) = Len(calls),
         \A k \in 1..Len(calls) : IsCall(new[k]) /\ SameCall(new[k], calls[k])
  PROVE  CallInv(x, new) /\ \A k \in 1..Len(calls) : At(x, new[k]) = At(x, calls[k])
<1>1. Len(calls) \in Nat /\ Len(calls) # 0 /\ 1 \in 1..Len(calls)
  BY DEF CallInv
<1>2. \A k \in 1..Len(calls) : At(x, new[k]) = At(x, calls[k])
  BY DEF SameCall, At
<1>3. \A k \in 1..Len(calls) : Opened(x, new[k])
  BY <1>2 DEF CallInv, Opened, SameCall
<1>4. \A k \in 2..Len(calls) : k \in 1..Len(calls) /\ k - 1 \in 1..Len(calls)
                               /\ \A j \in 1..(k - 1) : j \in 1..Len(calls)
  BY <1>1
<1>5. \A k \in 2..Len(calls) : Inside(x, new[k], new[k - 1])
  BY <1>2, <1>4 DEF CallInv, Inside, SameCall
<1>6. \A k \in 2..Len(calls) : \A j \in 1..(k - 1) : new[j].indent < new[k].indent
  BY <1>4 DEF CallInv, SameCall
<1>7. new[1].indent = 0
  BY <1>1 DEF CallInv, SameCall
<1> QED
  BY <1>2, <1>3, <1>5, <1>6, <1>7 DEF CallInv

\* The line read is not less deep than any call: they stay where they were opened.
LEMMA CallsNext ==
  ASSUME LinesOK, NEW x \in 1..Len(lines), NEW calls, CallInv(x, calls),
         lines[x].indent = calls[Len(calls)].indent
  PROVE  CallInv(x + 1, calls) /\ \A k \in 1..Len(calls) : At(x + 1, calls[k]) = At(x, calls[k])
<1>1. /\ Len(lines) \in Nat /\ lines[x].indent \in Nat /\ Len(calls) \in Nat /\ Len(calls) # 0
      /\ x \in 1..(Len(lines) + 1) /\ x + 1 \in 1..(Len(lines) + 1)
  BY LineFacts DEF CallInv
<1>2. ASSUME NEW k \in 1..Len(calls) PROVE At(x + 1, calls[k]) = At(x, calls[k])
  <2>1. Opened(x, calls[k])
    BY DEF CallInv
  <2>2. calls[k].indent \in Nat
    BY <1>1, <2>1, OpenedFacts
  <2>3. k = Len(calls) \/ (Len(calls) \in 2..Len(calls) /\ k \in 1..(Len(calls) - 1))
    BY <1>1
  <2>4. k = Len(calls) \/ calls[k].indent < calls[Len(calls)].indent
    BY <2>3 DEF CallInv
  <2>5. lines[x].indent >= calls[k].indent
    BY <1>1, <2>2, <2>4
  <2> QED
    BY <2>2, <2>5, NearestNext DEF At
<1>3. \A k \in 1..Len(calls) : At(x, calls[k]) < x => At(x, calls[k]) < x + 1
  <2>1. \A k \in 1..Len(calls) : Opened(x, calls[k])
    BY DEF CallInv
  <2>2. \A k \in 1..Len(calls) : At(x, calls[k]) \in 0..(x - 1)
    BY <1>1, <2>1, OpenedFacts
  <2> QED
    BY <1>1, <2>2
<1>4. \A k \in 1..Len(calls) : Opened(x + 1, calls[k])
  BY <1>2, <1>3 DEF CallInv, Opened
<1>5. \A k \in 2..Len(calls) : Inside(x + 1, calls[k], calls[k - 1])
  <2>1. \A k \in 2..Len(calls) : k \in 1..Len(calls)
    BY <1>1
  <2> QED
    BY <1>2, <2>1 DEF CallInv, Inside
<1> QED
  BY <1>1, <1>2, <1>4, <1>5 DEF CallInv

LEMMA PushFacts ==
  ASSUME NEW T, NEW calls \in Seq(T), NEW call
  PROVE  LET new == Append(calls, call)
         IN  /\ new \in Seq(ToSet(new)) /\ Len(new) = Len(calls) + 1 /\ new # <<>>
             /\ new[Len(calls) + 1] = call
             /\ \A k \in 1..Len(calls) : new[k] = calls[k]
<1> DEFINE new == Append(calls, call)
<1>1. calls \in Seq(T \union {call}) /\ call \in T \union {call}
  <2>1. Len(calls) \in Nat /\ \A k \in 1..Len(calls) : calls[k] \in T \union {call}
    OBVIOUS
  <2>2. calls = [k \in 1..Len(calls) |-> calls[k]]
    OBVIOUS
  <2>3. [k \in 1..Len(calls) |-> calls[k]] \in Seq(T \union {call})
    BY <2>1, IsASeq
  <2> QED
    BY <2>2, <2>3
<1>2. /\ new \in Seq(T \union {call}) /\ Len(new) = Len(calls) + 1 /\ new[Len(calls) + 1] = call
      /\ \A k \in 1..Len(calls) : new[k] = calls[k]
  BY <1>1, AppendProperties
<1>3. Len(calls) \in Nat
  OBVIOUS
<1> HIDE DEF new
<1>4. new \in Seq(ToSet(new))
  BY <1>2, SelfTyped
<1>5. new # <<>>
  BY <1>2, <1>3
<1> QED
  BY <1>2, <1>4, <1>5 DEF new

LEMMA PopFacts ==
  ASSUME NEW T, NEW calls \in Seq(T), Len(calls) > 1
  PROVE  /\ Front(calls) \in Seq(ToSet(Front(calls))) /\ Front(calls) \in Seq(T)
         /\ Front(calls) # <<>> /\ Len(Front(calls)) = Len(calls) - 1
         /\ \A k \in 1..(Len(calls) - 1) : Front(calls)[k] = calls[k]
<1>1. Len(calls) \in Nat /\ \A k \in 1..(Len(calls) - 1) : calls[k] \in T
  OBVIOUS
<1>2. Front(calls) = [k \in 1..(Len(calls) - 1) |-> calls[k]]
  BY <1>1 DEF Front
<1>3. Front(calls) \in Seq(T) /\ Len(Front(calls)) = Len(calls) - 1
  BY <1>1, <1>2, IsASeq
<1>4. \A k \in 1..(Len(calls) - 1) : Front(calls)[k] = calls[k]
  BY <1>2
<1>5. Front(calls) \in Seq(ToSet(Front(calls)))
  BY <1>3, SelfTyped
<1>6. Front(calls) # <<>>
  BY <1>1, <1>3
<1> QED
  BY <1>3, <1>4, <1>5, <1>6

\* The call that was made last returns.
LEMMA CallsPop ==
  ASSUME NEW x, NEW calls, CallInv(x, calls), Len(calls) > 1
  PROVE  CallInv(x, Front(calls))
<1> DEFINE new == Front(calls)
<1>1. calls \in Seq(ToSet(calls)) /\ Len(calls) \in Nat
  BY DEF CallInv
<1>2. /\ new \in Seq(ToSet(new)) /\ new # <<>> /\ Len(new) = Len(calls) - 1
      /\ \A k \in 1..(Len(calls) - 1) : new[k] = calls[k]
  BY <1>1, PopFacts
<1> HIDE DEF new
<1>3. 1 \in 1..Len(new) /\ \A k \in 1..Len(new) : k \in 1..Len(calls) /\ new[k] = calls[k]
  BY <1>1, <1>2
<1>4. \A k \in 2..Len(new) : /\ k \in 2..Len(calls) /\ k - 1 \in 1..Len(new) /\ k \in 1..Len(new)
                             /\ \A j \in 1..(k - 1) : j \in 1..Len(new)
  BY <1>1, <1>2
<1>5. \A k \in 1..Len(new) : IsCall(new[k]) /\ Opened(x, new[k])
  BY <1>3 DEF CallInv
<1>6. \A k \in 2..Len(new) : /\ Inside(x, new[k], new[k - 1])
                             /\ \A j \in 1..(k - 1) : new[j].indent < new[k].indent
  BY <1>3, <1>4 DEF CallInv
<1>7. new[1].indent = 0 /\ lines # <<>> /\ lines[1].indent = 0 /\ x \in 1..(Len(lines) + 1)
  BY <1>3 DEF CallInv
<1>8. CallInv(x, new)
  BY <1>2, <1>5, <1>6, <1>7 DEF CallInv
<1> QED
  BY <1>8 DEF new

\* The line read opens a deeper block.
LEMMA CallsPush ==
  ASSUME LinesOK, NEW x \in 1..Len(lines), NEW calls, CallInv(x, calls),
         lines[x].indent = calls[Len(calls)].indent, calls[Len(calls)].kind = "map",
         LineSplit(x).raw = <<>>, x < Len(lines), lines[x + 1].indent > lines[x].indent
  PROVE  LET call == Frame(lines[x + 1], LineSplit(x).key)
         IN  CallInv(x + 1, Append(calls, call)) /\ At(x + 1, call) = x
<1> DEFINE call == Frame(lines[x + 1], LineSplit(x).key)
           new == Append(calls, call)
           m == Len(calls)
<1>1. /\ Len(lines) \in Nat /\ x \in Nat /\ m \in Nat /\ m # 0 /\ x + 1 \in 1..Len(lines)
      /\ lines[x].indent \in Nat /\ lines[x + 1].indent \in Nat
      /\ calls \in Seq(ToSet(calls))
  <2>1. x + 1 \in 1..Len(lines) /\ Len(lines) \in Nat /\ x \in Nat
    BY LineFacts
  <2> QED
    BY <2>1, LineFacts DEF CallInv
<1>2. CallInv(x + 1, calls)
  BY CallsNext
<1>3. /\ call.indent = lines[x + 1].indent /\ call.key = LineSplit(x).key
      /\ call.kind = IF IsItem(lines[x + 1]) THEN "list" ELSE "map"
      /\ call.entries = <<>>
      /\ DOMAIN call = {"kind", "indent", "key", "entries", "items"}
  BY DEF Frame
<1>4. IsCall(call)
  <2>1. <<>> = [key \in DOMAIN <<>> |-> <<>>[key]]
    OBVIOUS
  <2> HIDE DEF call
  <2> QED
    BY <1>3, <2>1 DEF IsCall
<1> HIDE DEF call
<1>5. At(x + 1, call) = x
  <2>1. Nearest(x + 1, call.indent) = x
    BY <1>1, <1>3, NearestNext
  <2> QED
    BY <2>1 DEF At
<1>6. Opened(x + 1, call)
  BY <1>1, <1>3, <1>5 DEF Opened
<1>7. /\ new \in Seq(ToSet(new)) /\ Len(new) = m + 1 /\ new # <<>> /\ new[m + 1] = call
      /\ \A k \in 1..m : new[k] = calls[k]
  BY <1>1, PushFacts
<1> HIDE DEF new
<1>8. ASSUME NEW k \in 1..Len(new) PROVE IsCall(new[k]) /\ Opened(x + 1, new[k])
  <2>1. k = m + 1 \/ k \in 1..m
    BY <1>1, <1>7
  <2> QED
    BY <1>2, <1>4, <1>6, <1>7, <2>1 DEF CallInv
<1>9. ASSUME NEW k \in 2..Len(new)
      PROVE  /\ Inside(x + 1, new[k], new[k - 1])
             /\ \A j \in 1..(k - 1) : new[j].indent < new[k].indent
  <2>1. CASE k = m + 1
    <3>1. new[k - 1] = calls[m] /\ new[k] = call
      BY <1>1, <1>7, <2>1
    <3>2. Inside(x + 1, call, calls[m])
      BY <1>1, <1>3, <1>5 DEF Inside
    <3>3. ASSUME NEW j \in 1..m PROVE calls[j].indent < call.indent
      <4>1. Opened(x + 1, calls[j]) /\ x + 1 \in 1..(Len(lines) + 1)
        BY <1>1, <1>2 DEF CallInv
      <4>2. calls[j].indent \in Nat
        BY <4>1, OpenedFacts
      <4>3. j = m \/ (m \in 2..m /\ j \in 1..(m - 1))
        BY <1>1
      <4>4. j = m \/ calls[j].indent < calls[m].indent
        BY <4>3 DEF CallInv
      <4>5. calls[m].indent < call.indent /\ calls[m].indent \in Nat /\ call.indent \in Nat
        BY <1>1, <1>3
      <4> HIDE DEF call
      <4> QED
        BY <4>2, <4>4, <4>5
    <3>4. \A j \in 1..(k - 1) : j \in 1..m
      BY <1>1, <2>1
    <3> QED
      BY <1>7, <3>1, <3>2, <3>3, <3>4
  <2>2. CASE k # m + 1
    <3>1. /\ k \in 2..m /\ k \in 1..m /\ k - 1 \in 1..m
          /\ \A j \in 1..(k - 1) : j \in 1..m
      <4>1. m \in Nat /\ k \in 2..(m + 1)
        BY <1>1, <1>7
      <4> QED
        BY <2>2, <4>1
    <3>2. /\ Inside(x + 1, calls[k], calls[k - 1])
          /\ \A j \in 1..(k - 1) : calls[j].indent < calls[k].indent
      BY <1>2, <3>1 DEF CallInv
    <3> QED
      BY <1>7, <3>1, <3>2
  <2> QED
    BY <2>1, <2>2
<1>10. new[1].indent = 0 /\ lines # <<>> /\ lines[1].indent = 0 /\ x + 1 \in 1..(Len(lines) + 1)
  <2>1. 1 \in 1..m
    BY <1>1
  <2> QED
    BY <1>2, <1>7, <2>1 DEF CallInv
<1>11. CallInv(x + 1, new)
  BY <1>7, <1>8, <1>9, <1>10 DEF CallInv
<1> QED
  BY <1>5, <1>11 DEF call, new

-----------------------------------------------------------------------------
(* What a call has taken in: TakenIn with its variables as parameters *)

TakenBy(x, calls, k) ==
    {j \in Below(At(x, calls[k]), x - 1) : k < Len(calls) => j # At(x, calls[k + 1])}

\* A line of the depth of the last call belongs to the line that opened it.
LEMMA OwnerIsOpener ==
  ASSUME NEW x, NEW call, lines[x].indent = call.indent
  PROVE  Owner(x) = At(x, call)
BY DEF Owner, At

LEMMA TakenSame ==
  ASSUME NEW x, NEW calls, NEW new, Len(calls) \in Nat, Len(new) = Len(calls),
         \A k \in 1..Len(calls) : At(x, new[k]) = At(x, calls[k])
  PROVE  \A k \in 1..Len(calls) : TakenBy(x, new, k) = TakenBy(x, calls, k)
<1>1. \A k \in 1..Len(calls) : k < Len(calls) => k + 1 \in 1..Len(calls)
  OBVIOUS
<1> QED
  BY <1>1 DEF TakenBy

LEMMA TakenNext ==
  ASSUME LinesOK, NEW x \in 1..Len(lines), NEW calls, CallInv(x, calls),
         lines[x].indent = calls[Len(calls)].indent, NEW k \in 1..Len(calls)
  PROVE  TakenBy(x + 1, calls, k) = TakenBy(x, calls, k) \union (IF k = Len(calls) THEN {x} ELSE {})
<1> DEFINE m == Len(calls)
<1>1. m \in Nat /\ m # 0 /\ (x + 1) - 1 = x
  BY LineFacts DEF CallInv
<1>2. \A h \in 1..m : At(x + 1, calls[h]) = At(x, calls[h])
  BY CallsNext
<1>3. Owner(x) = At(x, calls[m])
  BY OwnerIsOpener
<1>4. CASE k = m
  <2>1. Below(At(x, calls[m]), x) = Below(At(x, calls[m]), x - 1) \union {x}
    BY <1>3, BelowNext
  <2>2. ~(k < m) /\ m \in 1..m
    BY <1>1, <1>4
  <2> HIDE DEF m
  <2> QED
    BY <1>1, <1>2, <1>4, <2>1, <2>2 DEF TakenBy, m
<1>5. CASE k # m
  <2>1. m \in 2..m /\ k \in 1..(m - 1) /\ k + 1 \in 1..m
    BY <1>1, <1>5
  <2>2. At(x, calls[k]) # At(x, calls[m])
    BY <2>1, InsideFacts
  <2>3. Below(At(x, calls[k]), x) = Below(At(x, calls[k]), x - 1)
    BY <1>3, <2>2, BelowNext
  <2>4. At(x + 1, calls[k]) = At(x, calls[k]) /\ At(x + 1, calls[k + 1]) = At(x, calls[k + 1])
    BY <1>2, <2>1
  <2> QED
    BY <1>1, <1>5, <2>3, <2>4 DEF TakenBy
<1> QED
  BY <1>4, <1>5

LEMMA TakenPush ==
  ASSUME LinesOK, NEW x \in 1..Len(lines), NEW calls, CallInv(x, calls),
         lines[x].indent = calls[Len(calls)].indent, NEW call, At(x + 1, call) = x,
         NEW k \in 1..(Len(calls) + 1)
  PROVE  TakenBy(x + 1, Append(calls, call), k)
           = IF k = Len(calls) + 1 THEN {} ELSE TakenBy(x, calls, k)
<1> DEFINE m == Len(calls)
           new == Append(calls, call)
<1>1. m \in Nat /\ m # 0 /\ (x + 1) - 1 = x /\ calls \in Seq(ToSet(calls)) /\ x \in Nat
  BY LineFacts DEF CallInv
<1>2. Len(new) = m + 1 /\ new[m + 1] = call /\ \A h \in 1..m : new[h] = calls[h]
  BY <1>1, PushFacts
<1> HIDE DEF new, m
<1>3. CASE k = m + 1
  <2>1. Below(x, x) = {}
    BY BelowNext
  <2> QED
    BY <1>1, <1>2, <1>3, <2>1 DEF TakenBy, new, m
<1>4. CASE k # m + 1
  <2>1. k \in 1..m /\ k < m + 1 /\ k + 1 \in 1..(m + 1)
    BY <1>1, <1>4 DEF m
  <2>2. \A h \in 1..m : At(x + 1, calls[h]) = At(x, calls[h])
    BY CallsNext DEF m
  <2>3. TakenBy(x + 1, new, k) = {j \in Below(At(x, calls[k]), x) : j # At(x + 1, new[k + 1])}
    BY <1>1, <1>2, <2>1, <2>2 DEF TakenBy
  <2>4. TakenBy(x + 1, calls, k) = TakenBy(x, calls, k) \union (IF k = m THEN {x} ELSE {})
    BY <2>1, TakenNext DEF m
  <2>5. CASE k = m
    <3>1. At(x + 1, new[k + 1]) = x
      BY <1>2, <2>5
    <3>2. TakenBy(x + 1, calls, k) = Below(At(x, calls[k]), x)
      BY <1>1, <2>1, <2>2, <2>5 DEF TakenBy, m
    <3>3. x \notin TakenBy(x, calls, k)
      <4>1. x \notin Below(At(x, calls[k]), x - 1)
        BY BelowNext
      <4> QED
        BY <4>1 DEF TakenBy
    <3>4. TakenBy(x + 1, new, k) = {j \in Below(At(x, calls[k]), x) : j # x}
      BY <2>3, <3>1
    <3>5. Below(At(x, calls[k]), x) = TakenBy(x, calls, k) \union {x}
      BY <2>4, <2>5, <3>2
    <3>6. TakenBy(x + 1, new, k) = TakenBy(x, calls, k)
      BY <3>3, <3>4, <3>5
    <3> QED
      BY <1>4, <3>6 DEF new, m
  <2>6. CASE k # m
    <3>1. k < m /\ k + 1 \in 1..m
      BY <1>1, <2>1, <2>6
    <3>2. At(x + 1, new[k + 1]) = At(x + 1, calls[k + 1])
      BY <1>2, <3>1
    <3>3. TakenBy(x + 1, calls, k) = {j \in Below(At(x, calls[k]), x) : j # At(x + 1, calls[k + 1])}
      BY <1>1, <2>1, <2>2, <3>1 DEF TakenBy, m
    <3> QED
      BY <1>4, <2>3, <2>4, <2>6, <3>2, <3>3 DEF new, m
  <2> QED
    BY <2>5, <2>6
<1> QED
  BY <1>3, <1>4 DEF m

LEMMA TakenPop ==
  ASSUME LinesOK, NEW x, NEW calls, CallInv(x, calls), Len(calls) > 1,
         NEW k \in 1..(Len(calls) - 1)
  PROVE  TakenBy(x, Front(calls), k)
           = TakenBy(x, calls, k)
               \union (IF k = Len(calls) - 1 THEN {At(x, calls[Len(calls)])} ELSE {})
<1> DEFINE m == Len(calls)
           new == Front(calls)
<1>1. m \in Nat /\ m \in 2..m /\ calls \in Seq(ToSet(calls))
  BY DEF CallInv
<1>2. Len(new) = m - 1 /\ \A h \in 1..(m - 1) : new[h] = calls[h]
  BY <1>1, PopFacts
<1> HIDE DEF new
<1>3. CASE k = m - 1
  <2>1. At(x, calls[m]) \in Below(At(x, calls[k]), x - 1)
    BY <1>1, <1>3, InsideFacts
  <2>2. k + 1 = m /\ k < m /\ ~(k < Len(new))
    BY <1>1, <1>2, <1>3
  <2> QED
    BY <1>2, <1>3, <2>1, <2>2 DEF TakenBy, new
<1>4. CASE k # m - 1
  <2>1. k < m /\ k < Len(new) /\ k + 1 \in 1..(m - 1)
    BY <1>1, <1>2, <1>4
  <2> QED
    BY <1>2, <1>4, <2>1 DEF TakenBy, new
<1> QED
  BY <1>3, <1>4

-----------------------------------------------------------------------------
(* ReadInv and TakenInv with their variables as parameters *)

ReadBy(x, calls) ==
    /\ IsOutlined(x - 1)
    /\ x <= Len(lines) /\ lines[x].indent > calls[Len(calls)].indent => ~IsOutline

Holds(x, call, taken) ==
    IF call.kind = "map"
    THEN /\ DOMAIN call.entries = {LineSplit(j).key : j \in taken}
         /\ IsOutline => \A j \in taken : call.entries[LineSplit(j).key] = Outline[j]
    ELSE IsOutline => call.items = ItemsBelow(At(x, call))[x - 1]

AllHold(x, calls) == \A k \in 1..Len(calls) : Holds(x, calls[k], TakenBy(x, calls, k))

\* A deeper line behind an item, or behind a value, is no outline.
LEMMA TooDeep ==
  ASSUME LinesOK, NEW x \in 1..Len(lines), x < Len(lines),
         lines[x + 1].indent > lines[x].indent, IsItem(lines[x]) \/ LineSplit(x).raw # <<>>
  PROVE  ~IsOutline
<1> SUFFICES ASSUME IsOutline PROVE FALSE
  OBVIOUS
<1>1. /\ Len(lines) \in Nat /\ x + 1 \in 1..Len(lines)
      /\ lines[x].indent \in Nat /\ lines[x + 1].indent \in Nat
  <2>1. Len(lines) \in Nat /\ x + 1 \in 1..Len(lines)
    BY LineFacts
  <2> QED
    BY <2>1, LineFacts
<1>2. x + 1 \in Below(x, Len(lines))
  <2>1. Owner(x + 1) = x
    BY <1>1, NearestNext DEF Owner
  <2> QED
    BY <1>1, <2>1 DEF Below
<1> DEFINE o == Owner(x)
<1>3. o \in 0..Len(lines) /\ x \in Below(o, Len(lines))
  <2>1. o \in 0..(x - 1)
    BY OwnerFacts
  <2>2. x \in Below(o, Len(lines))
    BY DEF Below
  <2> HIDE DEF o
  <2> QED
    BY <1>1, <2>1, <2>2
<1>4. ItemsOnlyBelow(o, Len(lines)) \/ EntriesBelow(o, Len(lines))
  <2>1. IsBlock(o, Len(lines))
    BY <1>3 DEF IsOutline, IsOutlined
  <2> QED
    BY <2>1, BlockFacts
<1> HIDE DEF o
<1> QED
  BY <1>2, <1>3, <1>4 DEF ItemsOnlyBelow, EntriesBelow, IsEntry

\* Nothing is below a line that no deeper one follows.
LEMMA NothingBelow ==
  ASSUME LinesOK, NEW x \in 1..Len(lines),
         x < Len(lines) => lines[x + 1].indent <= lines[x].indent
  PROVE  Below(x, Len(lines)) = {}
<1>1. /\ Len(lines) \in Nat /\ x + 1 \in 1..(Len(lines) + 1) /\ x \in 0..((x + 1) - 1)
      /\ (x + 1) - 1 = x /\ (x + 1 <= Len(lines) => x # 0 /\ x < Len(lines))
  BY LineFacts
<1>2. Below(x, Len(lines)) = Below(x, (x + 1) - 1)
  BY <1>1, BelowComplete
<1> QED
  BY <1>1, <1>2, BelowNext

\* The value of a line that nothing is below.
LineValue(x) ==
    IF LineSplit(x).raw = <<>> THEN MapNode(<<>>) ELSE ParseInlineValue(LineSplit(x).raw)

LEMMA NoEntries == ASSUME NEW f PROVE [key \in {} |-> f[key]] = <<>>
OBVIOUS

LEMMA LineNode ==
  ASSUME LinesOK, NEW x \in 1..Len(lines), Below(x, Len(lines)) = {}
  PROVE  Outline[x] = LineValue(x)
<1> DEFINE f == [key \in {LineSplit(j).key : j \in Below(x, Len(lines))} |->
                   Outline[CHOOSE j \in Below(x, Len(lines)) : LineSplit(j).key = key]]
<1>1. Outline[x] = OutlineNode(x, Outline) /\ x # 0
  BY LineFacts, OutlineFacts
<1>2. f = <<>>
  <2>1. DOMAIN f = {} /\ f = [key \in DOMAIN f |-> f[key]]
    OBVIOUS
  <2> HIDE DEF f
  <2> QED
    BY <2>1, NoEntries
<1>3. Outline[x] = IF LineSplit(x).raw # <<>> THEN ParseInlineValue(LineSplit(x).raw)
                   ELSE MapNode(f)
  BY <1>1 DEF OutlineNode
<1> HIDE DEF f
<1> QED
  BY <1>2, <1>3 DEF LineValue

\* The node of a call that has read everything below the line that opened it.
LEMMA CallNode ==
  ASSUME LinesOK, NEW x \in 1..(Len(lines) + 1), NEW call, IsCall(call), Opened(x, call),
         IsOutline, Holds(x, call, Below(At(x, call), x - 1)),
         Below(At(x, call), Len(lines)) = Below(At(x, call), x - 1),
         At(x, call) # 0 => LineSplit(At(x, call)).raw = <<>>
  PROVE  Node(call) = Outline[At(x, call)]
<1> DEFINE o == At(x, call)
           n == Len(lines)
           below == Below(o, n)
           f == [key \in {LineSplit(j).key : j \in below} |->
                   Outline[CHOOSE j \in below : LineSplit(j).key = key]]
<1>1. /\ o \in 0..(n - 1) /\ n \in Nat /\ (o # 0 => lines[o].indent < lines[o + 1].indent)
      /\ call.kind = IF IsItem(lines[o + 1]) THEN "list" ELSE "map"
  BY LineFacts, OpenedFacts
<1> HIDE DEF o
<1>2. o \in 0..n /\ n \in (o + 1)..n /\ n \in o..n
  BY <1>1
<1>3. o + 1 \in below
  BY <1>1, <1>2, FirstBelow
<1>4. IsBlock(o, n)
  BY <1>2 DEF IsOutline, IsOutlined
<1>5. IF IsItem(lines[o + 1]) THEN ItemsOnlyBelow(o, n) ELSE EntriesBelow(o, n)
  BY <1>1, <1>2, <1>4, BlockOfKind
<1>6. Outline[o] = OutlineNode(o, Outline)
  BY <1>2, OutlineFacts
<1>7. CASE IsItem(lines[o + 1])
  <2>1. \A j \in below : IsItem(lines[j])
    BY <1>5, <1>7 DEF ItemsOnlyBelow, IsScalarItem
  <2>2. Outline[o] = ListNode(ItemsBelow(o)[n])
    BY <1>3, <1>6, <2>1 DEF OutlineNode
  <2>3. call.items = ItemsBelow(o)[x - 1]
    BY <1>1, <1>7 DEF Holds, o
  <2>4. ItemsBelow(o)[n] = ItemsBelow(o)[x - 1]
    <3>1. x - 1 \in 0..n /\ n \in (x - 1)..n
      BY <1>1
    <3>2. ASSUME NEW j \in ((x - 1) + 1)..n, Owner(j) = o PROVE FALSE
      <4>1. j \in below
        BY <1>1, <3>2 DEF Below
      <4>2. j \in Below(o, x - 1)
        BY <4>1 DEF o
      <4>3. j \in 1..(x - 1)
        BY <4>2 DEF Below
      <4> QED
        BY <1>1, <4>3
    <3> QED
      BY <3>1, <3>2, ItemsStay
  <2> QED
    BY <1>1, <1>7, <2>2, <2>3, <2>4 DEF Node, o
<1>8. CASE ~IsItem(lines[o + 1])
  <2>1. call.kind = "map" /\ ~\A j \in below : IsItem(lines[j])
    BY <1>1, <1>3, <1>8
  <2>2. Outline[o] = MapNode(f)
    BY <1>6, <2>1 DEF OutlineNode, o
  <2>3. /\ DOMAIN call.entries = {LineSplit(j).key : j \in below}
        /\ \A j \in below : call.entries[LineSplit(j).key] = Outline[j]
    BY <2>1 DEF Holds, o
  <2>4. call.entries = [key \in DOMAIN call.entries |-> call.entries[key]]
    BY DEF IsCall
  <2>5. ASSUME NEW key \in {LineSplit(j).key : j \in below}
        PROVE  call.entries[key] = Outline[CHOOSE j \in below : LineSplit(j).key = key]
    <3> DEFINE j == CHOOSE j \in below : LineSplit(j).key = key
    <3>1. \E i \in below : LineSplit(i).key = key
      OBVIOUS
    <3> HIDE DEF below
    <3>2. j \in below /\ LineSplit(j).key = key
      BY <3>1
    <3> HIDE DEF j
    <3>3. call.entries[LineSplit(j).key] = Outline[j]
      BY <2>3, <3>2
    <3> QED
      BY <3>2, <3>3 DEF j
  <2>6. call.entries = f
    BY <2>3, <2>4, <2>5
  <2> QED
    BY <2>1, <2>2, <2>6 DEF Node, o
<1> QED
  BY <1>7, <1>8

-----------------------------------------------------------------------------
(* The steps that read a line *)

\* The first call reads what is below nothing, and the others what is below an entry.
LEMMA OpenerIsEntry ==
  ASSUME LinesOK, NEW x, NEW calls, CallInv(x, calls), IsOutlined(x - 1), NEW k \in 1..Len(calls)
  PROVE  /\ k = 1 <=> At(x, calls[k]) = 0
         /\ At(x, calls[k]) # 0 => /\ ~IsItem(lines[At(x, calls[k])])
                                   /\ LineSplit(At(x, calls[k])).raw = <<>>
<1>1. Len(lines) \in Nat /\ Len(calls) \in Nat /\ x \in 1..(Len(lines) + 1) /\ 1 \in 1..Len(calls)
  BY LineFacts DEF CallInv
<1>2. At(x, calls[1]) = 0
  <2>1. Opened(x, calls[1]) /\ calls[1].indent = 0
    BY <1>1 DEF CallInv
  <2>2. At(x, calls[1]) \in 0..(Len(lines) - 1) /\ (At(x, calls[1]) # 0 => lines[At(x, calls[1])].indent < 0)
    BY <1>1, <2>1, OpenedFacts
  <2>3. At(x, calls[1]) # 0 => lines[At(x, calls[1])].indent \in Nat
    BY <1>1, <2>2, LineFacts
  <2> QED
    BY <2>2, <2>3
<1>3. CASE k # 1
  <2>1. k \in 2..Len(calls) /\ k - 1 \in 1..Len(calls)
    BY <1>1, <1>3
  <2> DEFINE i == At(x, calls[k])
             o == At(x, calls[k - 1])
  <2>2. Inside(x, calls[k], calls[k - 1]) /\ Opened(x, calls[k - 1])
    BY <2>1 DEF CallInv
  <2>3. i # 0 /\ LineSplit(i).raw = <<>> /\ calls[k - 1].kind = "map"
    BY <2>2 DEF Inside
  <2>4. i \in Below(o, x - 1)
    BY <2>1, InsideFacts
  <2>5. /\ o \in 0..(Len(lines) - 1) /\ o \in 0..(x - 1)
        /\ (o # 0 => lines[o].indent < lines[o + 1].indent)
        /\ calls[k - 1].kind = IF IsItem(lines[o + 1]) THEN "list" ELSE "map"
    BY <1>1, <2>2, OpenedFacts
  <2> HIDE DEF i, o
  <2>6. ~IsItem(lines[o + 1])
    BY <2>3, <2>5
  <2>7. IsBlock(o, x - 1) /\ x - 1 \in o..Len(lines)
    BY <1>1, <2>5 DEF IsOutlined
  <2>8. EntriesBelow(o, x - 1)
    BY <2>5, <2>6, <2>7, BlockOfKind
  <2>9. ~IsItem(lines[i])
    BY <2>4, <2>8 DEF EntriesBelow, IsEntry
  <2> QED
    BY <1>3, <2>3, <2>9 DEF i
<1> QED
  BY <1>2, <1>3

\* What the call that reads line x has read is a block of its depth and kind.
LEMMA ReadBlock ==
  ASSUME LinesOK, NEW x, NEW calls, CallInv(x, calls), NEW k \in 1..Len(calls),
         NEW last \in (x - 1)..Len(lines), IsBlock(At(x, calls[k]), last)
  PROVE  /\ \A j \in Below(At(x, calls[k]), last) : lines[j].indent = calls[k].indent
         /\ calls[k].kind = "map" => EntriesBelow(At(x, calls[k]), last)
         /\ calls[k].kind # "map" => /\ calls[k].kind = "list"
                                     /\ ItemsOnlyBelow(At(x, calls[k]), last)
<1> DEFINE o == At(x, calls[k])
<1>1. Len(lines) \in Nat /\ x \in 1..(Len(lines) + 1) /\ Opened(x, calls[k])
  BY LineFacts DEF CallInv
<1>2. /\ o \in 0..(Len(lines) - 1) /\ o \in 0..(x - 1)
      /\ (o # 0 => lines[o].indent < lines[o + 1].indent)
      /\ calls[k].indent = lines[o + 1].indent
      /\ calls[k].kind = IF IsItem(lines[o + 1]) THEN "list" ELSE "map"
  BY <1>1, OpenedFacts
<1> HIDE DEF o
<1>3. last \in o..Len(lines) /\ IsBlock(o, last)
  BY <1>1, <1>2 DEF o
<1>4. /\ \A j \in Below(o, last) : lines[j].indent = lines[o + 1].indent
      /\ IF IsItem(lines[o + 1]) THEN ItemsOnlyBelow(o, last) ELSE EntriesBelow(o, last)
  BY <1>2, <1>3, BlockOfKind
<1> QED
  BY <1>2, <1>4 DEF o

\* The line that is read, if it is what the last call looks for, is one more of the outline.
LEMMA LineIsOutlined ==
  ASSUME LinesOK, NEW x \in 1..Len(lines), NEW calls, CallInv(x, calls), IsOutlined(x - 1),
         lines[x].indent = calls[Len(calls)].indent,
         IF calls[Len(calls)].kind = "list" THEN IsScalarItem(x)
         ELSE /\ IsEntry(x)
              /\ LineSplit(x).raw = <<>> \/ ParseInlineValue(LineSplit(x).raw) # Unreadable
              /\ \A j \in Below(At(x, calls[Len(calls)]), x - 1) : LineSplit(j).key # LineSplit(x).key
  PROVE  IsOutlined(x)
<1> DEFINE m == Len(calls)
           o == At(x, calls[m])
<1>1. Len(lines) \in Nat /\ x \in 1..(Len(lines) + 1) /\ m \in 1..m /\ Opened(x, calls[m])
  <2>1. m \in Nat /\ m # 0 /\ Len(lines) \in Nat /\ x \in 1..(Len(lines) + 1)
    BY LineFacts DEF CallInv
  <2>2. m \in 1..m
    BY <2>1
  <2> QED
    BY <2>1, <2>2 DEF CallInv
<1>2. /\ o \in 0..(Len(lines) - 1) /\ o \in 0..(x - 1)
      /\ (o # 0 => lines[o].indent < lines[o + 1].indent)
      /\ calls[m].indent = lines[o + 1].indent
      /\ calls[m].kind = IF IsItem(lines[o + 1]) THEN "list" ELSE "map"
  BY <1>1, OpenedFacts
<1>3. Owner(x) = o
  BY OwnerIsOpener
<1>4. o # 0 => ~IsItem(lines[o]) /\ LineSplit(o).raw = <<>>
  BY <1>1, OpenerIsEntry
<1>5. IF IsItem(lines[o + 1]) THEN IsScalarItem(x)
      ELSE /\ IsEntry(x)
           /\ LineSplit(x).raw = <<>> \/ ParseInlineValue(LineSplit(x).raw) # Unreadable
           /\ \A j \in Below(o, x - 1) : LineSplit(j).key # LineSplit(x).key
  BY <1>2
<1> HIDE DEF o
<1>6. IsBlock(o, x - 1)
  BY <1>2 DEF IsOutlined
<1>7. lines[x].indent = lines[o + 1].indent
  BY <1>2 DEF m
<1>8. IsBlock(o, x)
  BY <1>2, <1>3, <1>5, <1>6, <1>7, BlockNext
<1> QED
  BY <1>3, <1>4, <1>8, OutlinedNext

\* The calls that do not read line x hold what they held.
LEMMA HoldsStill ==
  ASSUME LinesOK, NEW x \in 1..Len(lines), NEW call, NEW new, NEW taken, Holds(x, call, taken),
         call.kind = new.kind, call.entries = new.entries, call.kind = "map"
  PROVE  Holds(x + 1, new, taken)
BY DEF Holds

LEMMA CallerIsMap ==
  ASSUME NEW x, NEW calls, CallInv(x, calls), NEW k \in 1..Len(calls), k # Len(calls)
  PROVE  calls[k].kind = "map"
<1>1. k + 1 \in 2..Len(calls) /\ (k + 1) - 1 = k
  BY DEF CallInv
<1> QED
  BY <1>1 DEF CallInv, Inside

LEMMA LastCall ==
  ASSUME LinesOK, NEW x, NEW calls, CallInv(x, calls)
  PROVE  /\ Len(calls) \in Nat /\ Len(calls) \in 1..Len(calls)
         /\ calls \in Seq(ToSet(calls)) /\ calls # <<>>
         /\ IsCall(calls[Len(calls)]) /\ Opened(x, calls[Len(calls)])
         /\ calls[Len(calls)].indent \in Nat
         /\ TakenBy(x, calls, Len(calls)) = Below(At(x, calls[Len(calls)]), x - 1)
<1>1. Len(calls) \in Nat /\ Len(calls) \in 1..Len(calls) /\ x \in 1..(Len(lines) + 1)
  BY DEF CallInv
<1>2. calls \in Seq(ToSet(calls)) /\ calls # <<>>
      /\ IsCall(calls[Len(calls)]) /\ Opened(x, calls[Len(calls)])
  BY <1>1 DEF CallInv
<1>3. calls[Len(calls)].indent \in Nat
  BY <1>1, <1>2, OpenedFacts
<1>4. TakenBy(x, calls, Len(calls)) = Below(At(x, calls[Len(calls)]), x - 1)
  BY <1>1 DEF TakenBy
<1> QED
  BY <1>1, <1>2, <1>3, <1>4

\* An entry whose value is on its line, or nowhere.
LEMMA EntryRead ==
  ASSUME LinesOK, NEW x \in 1..Len(lines), NEW calls, CallInv(x, calls), ReadBy(x, calls),
         AllHold(x, calls), lines[x].indent = calls[Len(calls)].indent,
         calls[Len(calls)].kind = "map", IsEntry(x),
         LineSplit(x).key \notin DOMAIN calls[Len(calls)].entries,
         LineSplit(x).raw = <<>> /\ x < Len(lines) => ~(lines[x + 1].indent > lines[x].indent),
         LineValue(x) # Unreadable
  PROVE  LET new == WithEntry(calls, LineSplit(x).key, LineValue(x))
         IN  CallInv(x + 1, new) /\ ReadBy(x + 1, new) /\ AllHold(x + 1, new)
<1> DEFINE m == Len(calls)
           key == LineSplit(x).key
           new == WithEntry(calls, key, LineValue(x))
<1>1. /\ m \in Nat /\ m \in 1..m /\ calls \in Seq(ToSet(calls)) /\ calls # <<>> /\ IsCall(calls[m])
      /\ TakenBy(x, calls, m) = Below(At(x, calls[m]), x - 1)
  BY LastCall
<1>2. /\ new \in Seq(ToSet(new)) /\ Len(new) = m /\ new # <<>>
      /\ \A k \in 1..m : k # m => new[k] = calls[k]
      /\ IsCall(new[m]) /\ SameCall(new[m], calls[m])
      /\ DOMAIN new[m].entries = {key} \union DOMAIN calls[m].entries
      /\ new[m].entries[key] = LineValue(x)
      /\ \A f \in DOMAIN calls[m].entries : f # key => new[m].entries[f] = calls[m].entries[f]
  BY <1>1, StoredFacts
<1>3. key \notin DOMAIN calls[m].entries /\ calls[m].kind = "map" /\ lines[x].indent = calls[m].indent
  OBVIOUS
<1> HIDE DEF new, m, key
<1>4. \A k \in 1..m : IsCall(new[k]) /\ SameCall(new[k], calls[k])
  BY <1>2 DEF CallInv, SameCall, m
<1>5. CallInv(x + 1, calls) /\ \A k \in 1..m : At(x + 1, calls[k]) = At(x, calls[k])
  BY CallsNext DEF m
<1>6. CallInv(x + 1, new) /\ \A k \in 1..m : At(x + 1, new[k]) = At(x + 1, calls[k])
  BY <1>2, <1>4, <1>5, CallsSame DEF m
<1>7. Holds(x, calls[m], TakenBy(x, calls, m))
  BY <1>1 DEF AllHold, m
<1>8. IsOutlined(x)
  <2>1. \A j \in Below(At(x, calls[m]), x - 1) : LineSplit(j).key # key
    BY <1>1, <1>3, <1>7 DEF Holds
  <2>2. LineSplit(x).raw = <<>> \/ ParseInlineValue(LineSplit(x).raw) # Unreadable
    BY DEF LineValue
  <2>3. calls[m].kind # "list" /\ IsOutlined(x - 1)
    BY <1>3 DEF ReadBy
  <2> QED
    BY <2>1, <2>2, <2>3, LineIsOutlined DEF m, key
<1>9. /\ Len(lines) \in Nat /\ x \in Nat /\ lines[x].indent \in Nat
      /\ x + 1 <= Len(lines) => x < Len(lines) /\ lines[x + 1].indent \in Nat
  <2>1. Len(lines) \in Nat /\ (x + 1 <= Len(lines) => x + 1 \in 1..Len(lines) /\ x < Len(lines))
    BY LineFacts
  <2> QED
    BY <2>1, LineFacts
<1>10. x + 1 <= Len(lines) /\ lines[x + 1].indent > lines[x].indent => ~IsOutline
  BY <1>9, TooDeep
<1>11. ReadBy(x + 1, new)
  <2>1. new[m].indent = lines[x].indent /\ (x + 1) - 1 = x
    BY <1>2, <1>3, <1>9 DEF SameCall
  <2> QED
    BY <1>2, <1>8, <1>10, <2>1 DEF ReadBy
<1>12. ASSUME IsOutline PROVE Outline[x] = LineValue(x)
  <2>1. x < Len(lines) => lines[x + 1].indent <= lines[x].indent
    BY <1>9, <1>10, <1>12
  <2> QED
    BY <2>1, NothingBelow, LineNode
<1>13. ASSUME NEW k \in 1..m
       PROVE  TakenBy(x + 1, new, k) = TakenBy(x, calls, k) \union (IF k = m THEN {x} ELSE {})
  <2>1. TakenBy(x + 1, new, k) = TakenBy(x + 1, calls, k)
    BY <1>1, <1>2, <1>6, TakenSame DEF m
  <2>2. TakenBy(x + 1, calls, k) = TakenBy(x, calls, k) \union (IF k = m THEN {x} ELSE {})
    BY TakenNext DEF m
  <2> QED
    BY <2>1, <2>2
<1>14. ASSUME NEW k \in 1..m, k # m PROVE Holds(x + 1, new[k], TakenBy(x + 1, new, k))
  <2>1. Holds(x, calls[k], TakenBy(x, calls, k)) /\ calls[k].kind = "map"
    BY <1>14, CallerIsMap DEF AllHold, m
  <2>2. new[k] = calls[k] /\ TakenBy(x + 1, new, k) = TakenBy(x, calls, k)
    BY <1>2, <1>13, <1>14
  <2> QED
    BY <2>1, <2>2, HoldsStill
<1>15. Holds(x + 1, new[m], TakenBy(x + 1, new, m))
  <2> DEFINE taken == TakenBy(x, calls, m)
             names == {LineSplit(j).key : j \in taken}
  <2>1. TakenBy(x + 1, new, m) = taken \union {x}
    BY <1>1, <1>13
  <2>2. DOMAIN calls[m].entries = names
    BY <1>3, <1>7 DEF Holds
  <2>3. {LineSplit(j).key : j \in taken \union {x}} = names \union {key}
    BY DEF key
  <2>4. ASSUME IsOutline, NEW j \in taken \union {x}
        PROVE  new[m].entries[LineSplit(j).key] = Outline[j]
    <3>1. CASE j = x
      BY <1>2, <1>12, <2>4, <3>1 DEF key
    <3>2. CASE j # x
      <4>1. j \in taken
        BY <2>4, <3>2
      <4>2. LineSplit(j).key \in DOMAIN calls[m].entries
        BY <2>2, <4>1
      <4>3. calls[m].entries[LineSplit(j).key] = Outline[j]
        BY <1>3, <1>7, <2>4, <4>1 DEF Holds
      <4> QED
        BY <1>2, <1>3, <4>2, <4>3
    <3> QED
      BY <3>1, <3>2
  <2> HIDE DEF taken, names
  <2>5. new[m].kind = "map"
    BY <1>2, <1>3 DEF SameCall
  <2> QED
    BY <1>2, <2>1, <2>2, <2>3, <2>4, <2>5 DEF Holds
<1>16. AllHold(x + 1, new)
  BY <1>2, <1>14, <1>15 DEF AllHold
<1> QED
  BY <1>6, <1>11, <1>16 DEF new, key

LEMMA ItemRead ==
  ASSUME LinesOK, NEW x \in 1..Len(lines), NEW calls, CallInv(x, calls), ReadBy(x, calls),
         AllHold(x, calls), lines[x].indent = calls[Len(calls)].indent,
         calls[Len(calls)].kind = "list", IsScalarItem(x)
  PROVE  LET new == [calls EXCEPT ![Len(calls)].items = Append(@, ItemOf(x))]
         IN  CallInv(x + 1, new) /\ ReadBy(x + 1, new) /\ AllHold(x + 1, new)
<1> DEFINE m == Len(calls)
           new == [calls EXCEPT ![Len(calls)].items = Append(@, ItemOf(x))]
<1>1. /\ m \in Nat /\ m \in 1..m /\ calls \in Seq(ToSet(calls)) /\ calls # <<>> /\ IsCall(calls[m])
  BY LastCall
<1>2. /\ new \in Seq(ToSet(new)) /\ Len(new) = m /\ new # <<>>
      /\ \A k \in 1..m : k # m => new[k] = calls[k]
      /\ IsCall(new[m]) /\ SameCall(new[m], calls[m])
      /\ new[m].items = Append(calls[m].items, ItemOf(x))
  BY <1>1, ItemFacts
<1>3. calls[m].kind = "list" /\ lines[x].indent = calls[m].indent
  OBVIOUS
<1> HIDE DEF new, m
<1>4. \A k \in 1..m : IsCall(new[k]) /\ SameCall(new[k], calls[k])
  BY <1>2 DEF CallInv, SameCall, m
<1>5. CallInv(x + 1, calls) /\ \A k \in 1..m : At(x + 1, calls[k]) = At(x, calls[k])
  BY CallsNext DEF m
<1>6. CallInv(x + 1, new) /\ \A k \in 1..m : At(x + 1, new[k]) = At(x + 1, calls[k])
  BY <1>2, <1>4, <1>5, CallsSame DEF m
<1>7. IsOutlined(x)
  BY LineIsOutlined DEF ReadBy
<1>8. /\ Len(lines) \in Nat /\ x \in Nat /\ lines[x].indent \in Nat
      /\ x + 1 <= Len(lines) => x < Len(lines) /\ lines[x + 1].indent \in Nat
  <2>1. Len(lines) \in Nat /\ (x + 1 <= Len(lines) => x + 1 \in 1..Len(lines) /\ x < Len(lines))
    BY LineFacts
  <2> QED
    BY <2>1, LineFacts
<1>9. x + 1 <= Len(lines) /\ lines[x + 1].indent > lines[x].indent => ~IsOutline
  BY <1>8, TooDeep DEF IsScalarItem
<1>10. ReadBy(x + 1, new)
  <2>1. new[m].indent = lines[x].indent /\ (x + 1) - 1 = x
    BY <1>2, <1>3, <1>8 DEF SameCall
  <2> QED
    BY <1>2, <1>7, <1>9, <2>1 DEF ReadBy
<1>11. ASSUME NEW k \in 1..m, k # m PROVE Holds(x + 1, new[k], TakenBy(x + 1, new, k))
  <2>1. TakenBy(x + 1, new, k) = TakenBy(x + 1, calls, k)
    BY <1>1, <1>2, <1>6, TakenSame DEF m
  <2>2. TakenBy(x + 1, calls, k) = TakenBy(x, calls, k)
    <3>1. TakenBy(x + 1, calls, k) = TakenBy(x, calls, k) \union (IF k = m THEN {x} ELSE {})
      BY TakenNext DEF m
    <3> QED
      BY <1>11, <3>1
  <2>3. Holds(x, calls[k], TakenBy(x, calls, k)) /\ calls[k].kind = "map"
    BY <1>11, CallerIsMap DEF AllHold, m
  <2>4. new[k] = calls[k]
    BY <1>2, <1>11
  <2> QED
    BY <2>1, <2>2, <2>3, <2>4, HoldsStill
<1>12. Holds(x + 1, new[m], TakenBy(x + 1, new, m))
  <2> DEFINE o == At(x, calls[m])
  <2>1. Owner(x) = o /\ At(x + 1, new[m]) = o
    BY <1>1, <1>3, <1>5, <1>6, OwnerIsOpener
  <2>2. Holds(x, calls[m], TakenBy(x, calls, m))
    BY <1>1 DEF AllHold, m
  <2>3. IsOutline => calls[m].items = ItemsBelow(o)[x - 1]
    BY <1>3, <2>2 DEF Holds
  <2> HIDE DEF o
  <2>4. ItemsBelow(o)[x] = Append(ItemsBelow(o)[x - 1], ItemOf(x))
    BY <2>1, ItemsFacts
  <2>5. (x + 1) - 1 = x /\ new[m].kind # "map"
    BY <1>2, <1>3, <1>8 DEF SameCall
  <2> QED
    BY <1>2, <2>1, <2>3, <2>4, <2>5 DEF Holds
<1>13. AllHold(x + 1, new)
  BY <1>2, <1>11, <1>12 DEF AllHold
<1> QED
  BY <1>6, <1>10, <1>13 DEF new

LEMMA BlockOpened ==
  ASSUME LinesOK, NEW x \in 1..Len(lines), NEW calls, CallInv(x, calls), ReadBy(x, calls),
         AllHold(x, calls), lines[x].indent = calls[Len(calls)].indent,
         calls[Len(calls)].kind = "map", IsEntry(x),
         LineSplit(x).key \notin DOMAIN calls[Len(calls)].entries,
         LineSplit(x).raw = <<>>, x < Len(lines), lines[x + 1].indent > lines[x].indent
  PROVE  LET new == Append(calls, Frame(lines[x + 1], LineSplit(x).key))
         IN  CallInv(x + 1, new) /\ ReadBy(x + 1, new) /\ AllHold(x + 1, new)
<1> DEFINE m == Len(calls)
           call == Frame(lines[x + 1], LineSplit(x).key)
           new == Append(calls, call)
<1>1. /\ m \in Nat /\ m \in 1..m /\ calls \in Seq(ToSet(calls)) /\ calls # <<>>
      /\ TakenBy(x, calls, m) = Below(At(x, calls[m]), x - 1)
  BY LastCall
<1>2. /\ Len(new) = m + 1 /\ new[m + 1] = call
      /\ \A k \in 1..m : new[k] = calls[k]
  BY <1>1, PushFacts
<1>3. CallInv(x + 1, new) /\ At(x + 1, call) = x
  BY CallsPush
<1>4. /\ call.indent = lines[x + 1].indent /\ call.entries = <<>> /\ call.items = <<>>
      /\ (call.kind = "map" \/ call.kind = "list")
  BY DEF Frame
<1> HIDE DEF call
<1>5. \A k \in 1..(m + 1) : TakenBy(x + 1, new, k) = IF k = m + 1 THEN {} ELSE TakenBy(x, calls, k)
  BY <1>3, TakenPush
<1>6. calls[m].kind = "map" /\ LineSplit(x).key \notin DOMAIN calls[m].entries
  OBVIOUS
<1> HIDE DEF new, m
<1>7. Holds(x, calls[m], TakenBy(x, calls, m))
  BY <1>1 DEF AllHold, m
<1>8. IsOutlined(x)
  <2>1. \A j \in Below(At(x, calls[m]), x - 1) : LineSplit(j).key # LineSplit(x).key
    BY <1>1, <1>6, <1>7 DEF Holds
  <2>2. calls[m].kind # "list" /\ IsOutlined(x - 1)
    BY <1>6 DEF ReadBy
  <2> QED
    BY <2>1, <2>2, LineIsOutlined DEF m
<1>9. Len(lines) \in Nat /\ x \in Nat /\ (x + 1) - 1 = x /\ x + 1 \in 1..Len(lines)
  BY LineFacts
<1>10. ReadBy(x + 1, new)
  <2>1. lines[x + 1].indent \in Nat
    BY <1>9, LineFacts
  <2>2. ~(lines[x + 1].indent > new[Len(new)].indent)
    BY <1>2, <1>4, <2>1
  <2> QED
    BY <1>8, <1>9, <2>2 DEF ReadBy
<1>11. ASSUME NEW k \in 1..m PROVE Holds(x + 1, new[k], TakenBy(x + 1, new, k))
  <2>1. Holds(x, calls[k], TakenBy(x, calls, k))
    BY DEF AllHold, m
  <2>2. calls[k].kind = "map"
    BY <1>6, CallerIsMap DEF m
  <2>3. k \in 1..(m + 1) /\ k # m + 1
    BY <1>1
  <2>4. new[k] = calls[k] /\ TakenBy(x + 1, new, k) = TakenBy(x, calls, k)
    BY <1>2, <1>5, <2>3
  <2> QED
    BY <2>1, <2>2, <2>4, HoldsStill
<1>12. Holds(x + 1, call, {})
  <2>1. DOMAIN call.entries = {LineSplit(j).key : j \in {}}
    BY <1>4
  <2>2. ItemsBelow(x)[x] = <<>>
    <3>1. 0 \in 0..Len(lines) /\ x \in 0..Len(lines)
      BY <1>9
    <3>2. ASSUME NEW j \in (0 + 1)..x PROVE Owner(j) # x
      <4>1. j \in 1..Len(lines)
        BY <1>9
      <4>2. Owner(j) \in 0..(j - 1)
        BY <4>1, OwnerFacts
      <4> QED
        BY <1>9, <4>2
    <3>3. ItemsBelow(x)[x] = ItemsBelow(x)[0]
      BY <3>1, <3>2, ItemsStay
    <3> QED
      BY <3>3, ItemsFacts
  <2> QED
    BY <1>3, <1>4, <1>9, <2>1, <2>2 DEF Holds
<1>13. AllHold(x + 1, new)
  <2>1. \A k \in 1..(m + 1) : k \in 1..m \/ k = m + 1
    BY <1>1
  <2>2. TakenBy(x + 1, new, m + 1) = {}
    BY <1>1, <1>5
  <2> QED
    BY <1>2, <1>11, <1>12, <2>1, <2>2 DEF AllHold
<1> QED
  BY <1>3, <1>10, <1>13 DEF new, call

-----------------------------------------------------------------------------
(* The end of a block *)

\* The loop of the last call is left at line x.
Ended(x, call) ==
    x <= Len(lines) =>
      \/ lines[x].indent < call.indent
      \/ call.kind = "list" /\ lines[x].indent = call.indent /\ ~IsItem(lines[x])

\* A line that ends a block, and is still deeper than the one that opened it, is no outline.
LEMMA StrayLine ==
  ASSUME LinesOK, NEW x \in 1..Len(lines), NEW call, Opened(x, call), Ended(x, call),
         At(x, call) = 0 \/ lines[x].indent > lines[At(x, call)].indent
  PROVE  ~IsOutline
<1> SUFFICES ASSUME IsOutline PROVE FALSE
  OBVIOUS
<1> DEFINE o == At(x, call)
           n == Len(lines)
<1>1. n \in Nat /\ x \in 1..(n + 1) /\ lines[x].indent \in Nat /\ x <= n
  BY LineFacts
<1>2. /\ o \in 0..(n - 1) /\ o \in 0..(x - 1)
      /\ call.indent \in Nat /\ call.indent = lines[o + 1].indent
      /\ o # 0 => lines[o].indent < call.indent
      /\ \A j \in 1..(x - 1) : j > o => lines[j].indent >= call.indent
      /\ call.kind = IF IsItem(lines[o + 1]) THEN "list" ELSE "map"
  BY <1>1, OpenedFacts
<1>3. \/ lines[x].indent < call.indent
      \/ IsItem(lines[o + 1]) /\ lines[x].indent = call.indent /\ ~IsItem(lines[x])
  BY <1>1, <1>2 DEF Ended
<1>4. o = 0 \/ lines[x].indent > lines[o].indent
  OBVIOUS
<1> HIDE DEF o, n
<1>5. Owner(x) = o
  <2>1. o # 0 => lines[o].indent < lines[x].indent
    <3>1. o # 0 => lines[o].indent \in Nat
      BY <1>2, LineFacts DEF n
    <3> QED
      BY <1>1, <1>4, <3>1
  <2>2. \A j \in 1..(x - 1) : lines[j].indent \in Nat
    BY <1>1, LineFacts DEF n
  <2>3. \A j \in 1..(x - 1) : j > o => lines[j].indent >= lines[x].indent
    BY <1>1, <1>2, <1>3, <2>2
  <2> QED
    BY <1>1, <1>2, <2>1, <2>3, NearestIs DEF Owner, n
<1>6. x \in Below(o, n) /\ o + 1 \in Below(o, n) /\ IsBlock(o, n)
  <2>1. x \in 1..n /\ n \in (o + 1)..n /\ o \in 0..n
    BY <1>1, <1>2
  <2>2. x \in Below(o, n)
    BY <1>5, <2>1 DEF Below
  <2>3. o + 1 \in Below(o, n)
    BY <1>2, <2>1, FirstBelow DEF n
  <2> QED
    BY <2>1, <2>2, <2>3 DEF IsOutline, IsOutlined, n
<1>7. lines[x].indent = call.indent
  BY <1>2, <1>6, BlockFacts DEF SameDepth
<1>8. IsItem(lines[o + 1]) /\ ~IsItem(lines[x])
  BY <1>1, <1>2, <1>3, <1>7
<1> QED
  BY <1>6, <1>8, BlockFacts DEF ItemsOnlyBelow, EntriesBelow, IsScalarItem, IsEntry

\* The node of the last call, once its block has ended in an outline.
LEMMA EndedNode ==
  ASSUME LinesOK, NEW x, NEW calls, CallInv(x, calls), ReadBy(x, calls), AllHold(x, calls),
         Ended(x, calls[Len(calls)]), IsOutline
  PROVE  Node(calls[Len(calls)]) = Outline[At(x, calls[Len(calls)])]
<1> DEFINE m == Len(calls)
           call == calls[m]
           o == At(x, call)
<1>1. /\ Len(lines) \in Nat /\ x \in 1..(Len(lines) + 1) /\ m \in 1..m
      /\ IsCall(call) /\ Opened(x, call) /\ TakenBy(x, calls, m) = Below(o, x - 1)
  BY LineFacts, LastCall DEF CallInv
<1>2. Holds(x, call, Below(o, x - 1))
  BY <1>1 DEF AllHold
<1>3. o # 0 => LineSplit(o).raw = <<>>
  BY <1>1, OpenerIsEntry DEF ReadBy
<1>4. o \in 0..(x - 1) /\ o \in 0..(Len(lines) - 1)
  BY <1>1, OpenedFacts
<1>5. ASSUME x <= Len(lines) PROVE o # 0 /\ lines[x].indent <= lines[o].indent
  <2>1. x \in 1..Len(lines)
    BY <1>1, <1>5
  <2>2. ~(o = 0 \/ lines[x].indent > lines[o].indent)
    BY <1>1, <2>1, StrayLine
  <2>3. lines[x].indent \in Nat /\ lines[o].indent \in Nat
    BY <1>4, <2>1, <2>2, LineFacts
  <2> HIDE DEF o
  <2> QED
    BY <2>2, <2>3
<1> HIDE DEF o, call, m
<1>6. Below(o, Len(lines)) = Below(o, x - 1)
  BY <1>1, <1>4, <1>5, BelowComplete
<1>7. Node(call) = Outline[o]
  BY <1>1, <1>2, <1>3, <1>6, CallNode DEF o
<1> QED
  BY <1>7 DEF o, call, m

LEMMA BlockClosed ==
  ASSUME LinesOK, NEW x, NEW calls, CallInv(x, calls), ReadBy(x, calls), AllHold(x, calls),
         Len(calls) > 1, Ended(x, calls[Len(calls)])
  PROVE  LET new == WithEntry(Front(calls), calls[Len(calls)].key, Node(calls[Len(calls)]))
         IN  CallInv(x, new) /\ ReadBy(x, new) /\ AllHold(x, new)
<1> DEFINE m == Len(calls)
           call == calls[m]
           left == Front(calls)
           o == At(x, call)
           new == WithEntry(left, call.key, Node(call))
<1>1. /\ Len(lines) \in Nat /\ x \in 1..(Len(lines) + 1) /\ m \in Nat /\ m \in 2..m /\ m - 1 \in 1..(m - 1)
      /\ calls \in Seq(ToSet(calls)) /\ Opened(x, call)
  BY LineFacts, LastCall DEF CallInv
<1>2. /\ left \in Seq(ToSet(left)) /\ left # <<>> /\ Len(left) = m - 1
      /\ \A k \in 1..(m - 1) : left[k] = calls[k]
  BY <1>1, PopFacts
<1>3. CallInv(x, left)
  BY CallsPop
<1>4. Inside(x, call, calls[m - 1])
  BY <1>1 DEF CallInv
<1>5. /\ o # 0 /\ call.key = LineSplit(o).key /\ LineSplit(o).raw = <<>>
      /\ lines[o].indent = left[m - 1].indent /\ left[m - 1].kind = "map"
  BY <1>1, <1>2, <1>4 DEF Inside
<1>6. \A k \in 1..(m - 1) :
        TakenBy(x, left, k) = TakenBy(x, calls, k) \union (IF k = m - 1 THEN {o} ELSE {})
  BY TakenPop
<1>7. IsOutline => Node(call) = Outline[o]
  BY EndedNode
<1>8. x <= Len(lines) /\ lines[x].indent > left[m - 1].indent => ~IsOutline
  <2>1. x <= Len(lines) => x \in 1..Len(lines)
    BY <1>1
  <2> QED
    BY <1>1, <1>5, <2>1, StrayLine
<1>9. \A k \in 1..(m - 1) : Holds(x, left[k], TakenBy(x, calls, k))
  BY <1>1, <1>2 DEF AllHold
<1>10. IsCall(left[m - 1])
  BY <1>1, <1>2, <1>3 DEF CallInv
<1> HIDE DEF left, m
<1>11. /\ new \in Seq(ToSet(new)) /\ Len(new) = m - 1 /\ new # <<>>
       /\ \A k \in 1..(m - 1) : k # m - 1 => new[k] = left[k]
       /\ IsCall(new[m - 1]) /\ SameCall(new[m - 1], left[m - 1])
       /\ DOMAIN new[m - 1].entries = {call.key} \union DOMAIN left[m - 1].entries
       /\ new[m - 1].entries[call.key] = Node(call)
       /\ \A f \in DOMAIN left[m - 1].entries :
            f # call.key => new[m - 1].entries[f] = left[m - 1].entries[f]
  BY <1>2, <1>10, StoredFacts
<1> HIDE DEF new, o, call
<1>12. CallInv(x, new) /\ \A k \in 1..(m - 1) : At(x, new[k]) = At(x, left[k])
  <2>1. \A k \in 1..(m - 1) : IsCall(new[k]) /\ SameCall(new[k], left[k])
    BY <1>2, <1>3, <1>11 DEF CallInv, SameCall
  <2> QED
    BY <1>2, <1>3, <1>11, <2>1, CallsSame
<1>13. \A k \in 1..(m - 1) :
         TakenBy(x, new, k) = TakenBy(x, calls, k) \union (IF k = m - 1 THEN {o} ELSE {})
  <2>1. \A k \in 1..(m - 1) : TakenBy(x, new, k) = TakenBy(x, left, k)
    BY <1>1, <1>2, <1>11, <1>12, TakenSame
  <2> QED
    BY <1>6, <2>1
<1>14. ReadBy(x, new)
  <2>1. new[Len(new)].indent = left[m - 1].indent
    BY <1>11 DEF SameCall
  <2> QED
    BY <1>8, <2>1 DEF ReadBy
<1>15. ASSUME NEW k \in 1..(m - 1), k # m - 1 PROVE Holds(x, new[k], TakenBy(x, new, k))
  BY <1>9, <1>11, <1>13, <1>15
<1>16. Holds(x, new[m - 1], TakenBy(x, new, m - 1))
  <2> DEFINE taken == TakenBy(x, calls, m - 1)
             names == {LineSplit(j).key : j \in taken}
  <2>1. TakenBy(x, new, m - 1) = taken \union {o} /\ Holds(x, left[m - 1], taken)
    BY <1>1, <1>9, <1>13
  <2>2. DOMAIN left[m - 1].entries = names
    BY <1>5, <2>1 DEF Holds
  <2>3. {LineSplit(j).key : j \in taken \union {o}} = names \union {call.key}
    BY <1>5
  <2>4. ASSUME IsOutline, NEW j \in taken, LineSplit(j).key = call.key PROVE j = o
    <3> DEFINE p == At(x, calls[m - 1])
    <3>1. o \in Below(p, x - 1) /\ j \in Below(p, x - 1)
      <4>1. o \in Below(p, x - 1)
        BY <1>1, InsideFacts DEF o, call, m
      <4> QED
        BY <4>1 DEF TakenBy
    <3>2. p \in 0..Len(lines) /\ x - 1 \in 0..Len(lines)
      <4>1. Opened(x, calls[m - 1])
        BY <1>1 DEF CallInv, m
      <4>2. p \in 0..(Len(lines) - 1)
        BY <1>1, <4>1, OpenedFacts
      <4> HIDE DEF p
      <4> QED
        BY <1>1, <4>2
    <3> HIDE DEF p
    <3>3. o \in Below(p, Len(lines)) /\ j \in Below(p, Len(lines))
      BY <1>1, <3>1, <3>2 DEF Below
    <3>4. IsBlock(p, Len(lines))
      BY <2>4, <3>2 DEF IsOutline, IsOutlined
    <3>5. EntriesBelow(p, Len(lines))
      <4>1. EntriesBelow(p, x - 1)
        <5>1. m - 1 \in 1..m /\ x - 1 \in (x - 1)..Len(lines)
          BY <1>1, <3>2
        <5>2. IsBlock(p, x - 1)
          <6>1. p \in 0..(x - 1)
            <7>1. p \in 0..(o - 1) /\ o \in 1..(x - 1)
              BY <3>1, <3>2, BelowFacts
            <7> QED
              BY <1>1, <7>1
          <6> QED
            BY <6>1 DEF ReadBy, IsOutlined
        <5> QED
          BY <1>2, <1>5, <1>1, <5>1, <5>2, ReadBlock DEF m, p
      <4>2. ~ItemsOnlyBelow(p, Len(lines))
        BY <3>1, <3>3, <4>1 DEF EntriesBelow, ItemsOnlyBelow, IsEntry, IsScalarItem
      <4> QED
        BY <3>4, <4>2, BlockFacts
    <3> QED
      BY <1>5, <2>4, <3>3, <3>5 DEF EntriesBelow
  <2>5. ASSUME IsOutline, NEW j \in taken \union {o}
        PROVE  new[m - 1].entries[LineSplit(j).key] = Outline[j]
    <3>1. CASE j = o
      BY <1>5, <1>7, <1>11, <2>5, <3>1
    <3>2. CASE j # o
      <4>1. j \in taken
        BY <2>5, <3>2
      <4>2. LineSplit(j).key \in DOMAIN left[m - 1].entries
        BY <2>2, <4>1
      <4>3. left[m - 1].entries[LineSplit(j).key] = Outline[j]
        BY <1>5, <2>1, <2>5, <4>1 DEF Holds
      <4>4. LineSplit(j).key # call.key
        BY <2>4, <2>5, <3>2, <4>1
      <4> QED
        BY <1>11, <4>2, <4>3, <4>4
    <3> QED
      BY <3>1, <3>2
  <2> HIDE DEF taken, names
  <2>6. new[m - 1].kind = "map"
    BY <1>5, <1>11 DEF SameCall
  <2> QED
    BY <1>11, <2>1, <2>2, <2>3, <2>5, <2>6 DEF Holds
<1>17. AllHold(x, new)
  BY <1>11, <1>15, <1>16 DEF AllHold
<1> QED
  BY <1>12, <1>14, <1>17 DEF new, call, left, m

-----------------------------------------------------------------------------
(* What is refused is no outline, and what is returned is one. *)

LEMMA EntryRefused ==
  ASSUME LinesOK, NEW x \in 1..Len(lines), NEW calls, CallInv(x, calls), AllHold(x, calls),
         lines[x].indent = calls[Len(calls)].indent, calls[Len(calls)].kind = "map",
         \/ ~IsEntry(x)
         \/ LineSplit(x).key \in DOMAIN calls[Len(calls)].entries
         \/ LineValue(x) = Unreadable
  PROVE  ~IsOutline
<1> SUFFICES ASSUME IsOutline PROVE FALSE
  OBVIOUS
<1> DEFINE m == Len(calls)
           n == Len(lines)
           o == At(x, calls[m])
<1>1. /\ m \in 1..m /\ Opened(x, calls[m]) /\ TakenBy(x, calls, m) = Below(o, x - 1)
      /\ n \in Nat /\ x \in 1..(n + 1) /\ n \in (x - 1)..n /\ n \in 0..n /\ x - 1 \in 0..n
  <2>1. n \in Nat /\ x \in 1..(n + 1) /\ n \in (x - 1)..n /\ n \in 0..n /\ x - 1 \in 0..n
    BY LineFacts
  <2> QED
    BY <2>1, LastCall
<1>2. o \in 0..n
  <2>1. o \in 0..(n - 1)
    BY <1>1, OpenedFacts
  <2> HIDE DEF o, n
  <2> QED
    BY <1>1, <2>1
<1>3. IsBlock(o, n)
  BY <1>2 DEF IsOutline, IsOutlined
<1>4. EntriesBelow(o, n)
  BY <1>1, <1>3, ReadBlock
<1>5. x \in Below(o, n)
  BY OwnerIsOpener DEF Below
<1>6. IsEntry(x) /\ (LineSplit(x).raw = <<>> \/ ParseInlineValue(LineSplit(x).raw) # Unreadable)
  BY <1>4, <1>5 DEF EntriesBelow
<1>7. LineValue(x) # Unreadable
  <2>1. MapNode(<<>>) # Unreadable
    BY DEF MapNode, Unreadable
  <2> QED
    BY <1>6, <2>1 DEF LineValue
<1>8. LineSplit(x).key \notin DOMAIN calls[m].entries
  <2> SUFFICES ASSUME LineSplit(x).key \in DOMAIN calls[m].entries PROVE FALSE
    OBVIOUS
  <2>1. Holds(x, calls[m], Below(o, x - 1))
    BY <1>1 DEF AllHold
  <2>2. PICK j \in Below(o, x - 1) : LineSplit(j).key = LineSplit(x).key
    BY <2>1 DEF Holds
  <2>3. j \in 1..(x - 1) /\ Owner(j) = o
    BY DEF Below
  <2>4. j \in Below(o, n) /\ j # x
    BY <1>1, <2>3 DEF Below
  <2> QED
    BY <1>4, <1>5, <2>2, <2>4 DEF EntriesBelow
<1> QED
  BY <1>6, <1>7, <1>8

LEMMA ItemRefused ==
  ASSUME LinesOK, NEW x \in 1..Len(lines), NEW calls, CallInv(x, calls),
         lines[x].indent = calls[Len(calls)].indent, calls[Len(calls)].kind = "list",
         ~IsScalarItem(x)
  PROVE  ~IsOutline
<1> SUFFICES ASSUME IsOutline PROVE FALSE
  OBVIOUS
<1> DEFINE m == Len(calls)
           n == Len(lines)
           o == At(x, calls[m])
<1>1. /\ m \in 1..m /\ Opened(x, calls[m])
      /\ n \in Nat /\ x \in 1..(n + 1) /\ n \in (x - 1)..n /\ n \in 0..n
  <2>1. n \in Nat /\ x \in 1..(n + 1) /\ n \in (x - 1)..n /\ n \in 0..n
    BY LineFacts
  <2> QED
    BY <2>1, LastCall
<1>2. o \in 0..n
  <2>1. o \in 0..(n - 1)
    BY <1>1, OpenedFacts
  <2> HIDE DEF o, n
  <2> QED
    BY <1>1, <2>1
<1>3. IsBlock(o, n)
  BY <1>2 DEF IsOutline, IsOutlined
<1>4. ItemsOnlyBelow(o, n)
  BY <1>1, <1>3, ReadBlock
<1>5. x \in Below(o, n)
  BY OwnerIsOpener DEF Below
<1> QED
  BY <1>4, <1>5 DEF ItemsOnlyBelow

\* The outermost call returns a mapping behind the last line, or there is no outline.
LEMMA RootRead ==
  ASSUME LinesOK, NEW x, NEW calls, CallInv(x, calls), ReadBy(x, calls), AllHold(x, calls),
         Len(calls) = 1, Ended(x, calls[1])
  PROVE  IF x > Len(lines) /\ calls[1].kind = "map"
         THEN IsOutline /\ Node(calls[1]) = Outline[0]
         ELSE ~IsOutline
<1>1. /\ Len(lines) \in Nat /\ x \in 1..(Len(lines) + 1) /\ Opened(x, calls[1]) /\ calls[1].indent = 0
      /\ lines # <<>> /\ lines[1].indent = 0
  BY LineFacts DEF CallInv
<1>2. At(x, calls[1]) = 0
  BY OpenerIsEntry, 1 \in 1..1 DEF ReadBy
<1>3. calls[1].kind = IF IsItem(lines[1]) THEN "list" ELSE "map"
  BY <1>1, <1>2, 0 + 1 = 1 DEF Opened
<1>4. CASE x > Len(lines) /\ calls[1].kind = "map"
  <2>1. x - 1 = Len(lines)
    BY <1>1, <1>4
  <2>2. IsOutline
    BY <1>1, <1>3, <1>4, <2>1 DEF IsOutline, ReadBy
  <2> QED
    BY <1>2, <1>4, <2>2, EndedNode
<1>5. CASE calls[1].kind # "map"
  BY <1>3, <1>5 DEF IsOutline
<1>6. CASE x <= Len(lines) /\ calls[1].kind = "map"
  <2>1. x \in 1..Len(lines)
    BY <1>1, <1>6
  <2>2. lines[x].indent \in Nat
    BY <2>1, LineFacts
  <2> QED
    BY <1>1, <1>6, <2>2 DEF Ended
<1> QED
  BY <1>1, <1>4, <1>5, <1>6

-----------------------------------------------------------------------------
(* tokenize *)

LEMMA MinFacts ==
  ASSUME NEW S \in SUBSET Nat, S # {}
  PROVE  Min(S) \in S /\ \A i \in S : Min(S) <= i
<1>1. PICK m \in S : \A i \in S : <<i, m>> \notin OpToRel(<, Nat)
  BY NatLessThanWellFounded, WFMin, Zenon
<1>2. \A i \in S : m \in Nat /\ i \in Nat /\ ~(i < m)
  BY <1>1 DEF OpToRel
<1>3. \A i \in S : m <= i
  BY <1>2
<1> QED
  BY <1>1, <1>3 DEF Min

LEMMA TrimTyped ==
  ASSUME NEW T, NEW text \in Seq(T)
  PROVE  Trim(text) \in Seq(T)
<1> DEFINE kept == {i \in DOMAIN text : text[i] \notin Whitespace}
<1>1. CASE kept = {}
  BY <1>1 DEF Trim
<1>2. CASE kept # {}
  <2>1. DOMAIN text = 1..Len(text) /\ Len(text) \in Nat
    OBVIOUS
  <2>2. kept \in SUBSET Nat /\ kept \in SUBSET (0..Len(text)) /\ kept \subseteq 1..Len(text)
    BY <2>1
  <2>3. Trim(text) = SubSeq(text, Min(kept), Max(kept))
    BY <1>2 DEF Trim
  <2> HIDE DEF kept
  <2>4. Min(kept) \in 1..Len(text)
    BY <1>2, <2>2, MinFacts
  <2>5. Max(kept) \in 1..Len(text)
    BY <1>2, <2>1, <2>2, MaxFacts
  <2> QED
    BY <2>1, <2>3, <2>4, <2>5, SubSeqProperties
<1> QED
  BY <1>1, <1>2

LEMMA CollectedTyped ==
  ASSUME NEW n \in Nat, NEW chosen, NEW T, NEW value \in [1..n -> T]
  PROVE  Collected(n, chosen, value)[n] \in Seq(T)
<1> DEFINE f == Collected(n, chosen, value)
           Typed == {i \in 0..n : f[i] \in Seq(T)} \union {n + 1}
<1>1. Collects(f, chosen, value, n)
  BY CollectedFacts
<1> HIDE DEF f
<1>2. 0 \in Typed
  <2>1. f[0] = <<>> /\ <<>> \in Seq(T)
    BY <1>1 DEF Collects
  <2>2. f[0] \in Seq(T) /\ 0 \in 0..n
    BY <2>1
  <2> QED
    BY <2>2
<1>3. ASSUME NEW i \in 0..n, i \in Typed PROVE i + 1 \in Typed
  <2>1. CASE i = n
    BY <2>1
  <2>2. CASE i # n
    <3>1. i + 1 \in 1..n /\ i + 1 \in 0..n /\ (i + 1) - 1 = i /\ i # n + 1
      BY <2>2
    <3>2. f[i] \in Seq(T) /\ value[i + 1] \in T
      BY <1>3, <3>1
    <3>3. f[i + 1] = IF i + 1 \in chosen THEN Append(f[i], value[i + 1]) ELSE f[i]
      BY <1>1, <3>1 DEF Collects
    <3>4. Append(f[i], value[i + 1]) \in Seq(T)
      BY <3>2
    <3>5. f[i + 1] \in Seq(T)
      BY <3>2, <3>3, <3>4
    <3> QED
      BY <3>1, <3>5
  <2> QED
    BY <2>1, <2>2
<1>4. 0..n \subseteq Typed
  <2> HIDE DEF Typed
  <2> QED
    BY <1>2, <1>3, FromZero
<1> QED
  BY <1>4 DEF f

LEMMA KeptTyped ==
  ASSUME NEW document \in Seq(LineType)
  PROVE  Kept(document) \in Seq(LineType)
<1> DEFINE n == Len(document)
           trimmed == [i \in 1..n |-> [document[i] EXCEPT !.text = Trim(@)]]
           chosen == {i \in 1..n : ~IsBlank(document[i].text)}
<1>1. n \in Nat /\ \A i \in 1..n : document[i] \in LineType
  OBVIOUS
<1>2. ASSUME NEW i \in 1..n PROVE [document[i] EXCEPT !.text = Trim(@)] \in LineType
  <2>1. document[i].indent \in Nat /\ document[i].text \in Seq(STRING)
        /\ document[i] = [indent |-> document[i].indent, text |-> document[i].text]
    BY <1>1 DEF LineType
  <2>2. Trim(document[i].text) \in Seq(STRING)
    BY <2>1, TrimTyped
  <2>3. [document[i] EXCEPT !.text = Trim(@)]
          = [indent |-> document[i].indent, text |-> Trim(document[i].text)]
    BY <2>1
  <2> QED
    BY <2>1, <2>2, <2>3 DEF LineType
<1>3. trimmed \in [1..n -> LineType]
  BY <1>2
<1>4. Kept(document) = Collected(n, chosen, trimmed)[n]
  BY DEF Kept
<1> HIDE DEF trimmed, chosen, n
<1> QED
  BY <1>1, <1>3, <1>4, CollectedTyped DEF n

-----------------------------------------------------------------------------
(* The inductive invariant *)

LEMMA HoldIs ==
  ASSUME TypeOK, FrameInv, ReadInv, TakenInv, phase = "blocks"
  PROVE  LinesOK /\ CallInv(index, frames) /\ ReadBy(index, frames) /\ AllHold(index, frames)
<1>1. LinesOK /\ CallInv(index, frames)
  BY CallsAre
<1>2. Len(frames) \in Nat /\ DOMAIN frames = 1..Len(frames) /\ frames # <<>>
  BY <1>1 DEF CallInv
<1>3. Top = frames[Len(frames)]
  BY DEF Top, Last
<1>4. ReadBy(index, frames)
  BY <1>3 DEF ReadInv, ReadBy, Line
<1>5. \A k : Opener(k) = At(index, frames[k]) /\ TakenIn(k) = TakenBy(index, frames, k)
  BY DEF Opener, At, TakenIn, TakenBy
<1>6. AllHold(index, frames)
  BY <1>2, <1>5 DEF AllHold, Holds, TakenInv
<1> QED
  BY <1>1, <1>4, <1>6

Parsing ==
    /\ doc \in Documents /\ phase = "blocks"
    /\ LinesOK /\ CallInv(index, frames) /\ ReadBy(index, frames) /\ AllHold(index, frames)

LEMMA HoldsAre == Parsing => ParserInv
<1> SUFFICES ASSUME Parsing PROVE ParserInv
  OBVIOUS
<1>1. /\ doc \in Documents /\ phase = "blocks" /\ LinesOK
      /\ CallInv(index, frames) /\ ReadBy(index, frames) /\ AllHold(index, frames)
  BY DEF Parsing
<1>2. /\ Len(frames) \in Nat /\ DOMAIN frames = 1..Len(frames) /\ frames # <<>>
      /\ Len(lines) \in Nat /\ index \in 1..(Len(lines) + 1)
  BY <1>1, LineFacts DEF CallInv
<1>3. Top = frames[Len(frames)]
  BY DEF Top, Last
<1>4. \A k : Opener(k) = At(index, frames[k]) /\ TakenIn(k) = TakenBy(index, frames, k)
  BY DEF Opener, At, TakenIn, TakenBy
<1>5. TypeOK
  <2>1. lines \in Seq([indent : Nat, text : Seq(STRING)])
    BY <1>1 DEF LinesOK, LineType
  <2>2. frames \in Seq(ToSet(frames)) /\ \A k \in DOMAIN frames : IsCall(frames[k])
    BY <1>1, <1>2 DEF CallInv
  <2>3. index \in Nat
    BY <1>2
  <2> QED
    BY <1>1, <2>1, <2>2, <2>3 DEF TypeOK, IsCall
<1>6. FrameInv
  <2>1. \A k \in DOMAIN frames : Opened(index, frames[k])
    BY <1>1, <1>2 DEF CallInv
  <2>2. \A k \in DOMAIN frames \ {1} : k \in 2..Len(frames)
    BY <1>2
  <2>3. \A k \in DOMAIN frames \ {1} : /\ Inside(index, frames[k], frames[k - 1])
                                       /\ \A j \in 1..(k - 1) : frames[j].indent < frames[k].indent
    BY <1>1, <2>2 DEF CallInv
  <2> QED
    BY <1>1, <1>4, <2>1, <2>3 DEF FrameInv, CallInv, Opened, Inside
<1>7. ReadInv
  BY <1>1, <1>3 DEF ReadInv, ReadBy, Line
<1>8. TakenInv
  BY <1>1, <1>2, <1>4 DEF TakenInv, AllHold, Holds
<1>9. AcceptedInv /\ ParsesOutlines
  BY <1>1 DEF AcceptedInv, ParsesOutlines
<1> QED
  BY <1>5, <1>6, <1>7, <1>8, <1>9 DEF ParserInv

Starting ==
    /\ doc \in Documents /\ phase = "blocks"
    /\ LinesOK /\ lines # <<>> /\ lines[1].indent = 0
    /\ index = 1 /\ frames = <<Frame(lines[1], <<>>)>>

LEMMA Started == Starting => Parsing
<1> SUFFICES ASSUME Starting PROVE Parsing
  OBVIOUS
<1> DEFINE call == Frame(lines[1], <<>>)
           calls == <<call>>
<1>1. /\ LinesOK /\ lines # <<>> /\ lines[1].indent = 0
      /\ index = 1 /\ frames = calls /\ doc \in Documents /\ phase = "blocks"
  BY DEF Starting
<1>2. Len(lines) \in Nat /\ Len(lines) # 0 /\ 1 \in 1..(Len(lines) + 1) /\ 1 - 1 = 0 /\ 0 + 1 = 1
  BY <1>1, LineFacts DEF LinesOK
<1>3. /\ call.indent = 0 /\ call.entries = <<>> /\ call.items = <<>>
      /\ call.kind = IF IsItem(lines[1]) THEN "list" ELSE "map"
      /\ DOMAIN call = {"kind", "indent", "key", "entries", "items"}
  BY <1>1 DEF Frame
<1>4. IsCall(call)
  <2>1. <<>> = [key \in DOMAIN <<>> |-> <<>>[key]]
    OBVIOUS
  <2> HIDE DEF call
  <2> QED
    BY <1>3, <2>1 DEF IsCall
<1> HIDE DEF call
<1>5. calls \in Seq({call}) /\ Len(calls) = 1 /\ calls[1] = call /\ calls # <<>>
  OBVIOUS
<1> HIDE DEF calls
<1>6. calls \in Seq(ToSet(calls))
  BY <1>5, SelfTyped
<1>7. At(1, call) = 0
  <2>1. 0 \in Nat /\ Nearest(1, 0) \in 0..(1 - 1)
    BY <1>1, <1>2, NearestFacts
  <2> QED
    BY <1>2, <1>3, <2>1 DEF At
<1>8. Opened(1, call)
  BY <1>1, <1>2, <1>3, <1>7 DEF Opened
<1>9. CallInv(1, calls)
  <2>1. \A k \in 1..Len(calls) : k = 1
    BY <1>5
  <2>2. \A k \in 2..Len(calls) : FALSE
    BY <1>5
  <2> QED
    BY <1>1, <1>2, <1>3, <1>4, <1>5, <1>6, <1>8, <2>1, <2>2 DEF CallInv
<1>10. \A i : Below(i, 0) = {}
  BY DEF Below
<1>11. ReadBy(1, calls)
  <2>1. IsOutlined(0)
    BY <1>10, EmptyBlock DEF IsOutlined
  <2> QED
    BY <1>1, <1>2, <1>3, <1>5, <2>1 DEF ReadBy
<1>12. AllHold(1, calls)
  <2>1. \A k \in 1..Len(calls) : k = 1
    BY <1>5
  <2>2. TakenBy(1, calls, 1) = {}
    BY <1>2, <1>10 DEF TakenBy
  <2>3. ItemsBelow(0)[0] = <<>>
    BY <1>1, ItemsFacts
  <2>4. DOMAIN call.entries = {LineSplit(j).key : j \in {}}
    BY <1>3
  <2>5. Holds(1, call, {})
    BY <1>2, <1>3, <1>7, <2>3, <2>4 DEF Holds
  <2> QED
    BY <1>5, <2>1, <2>2, <2>5 DEF AllHold
<1> QED
  BY <1>1, <1>9, <1>11, <1>12 DEF Parsing

\* A step that leaves the parser in the middle of the lines.
LEMMA GoesOn ==
  ASSUME doc \in Documents, LinesOK, doc' = doc, lines' = lines, phase' = "blocks",
         CallInv(index', frames'), ReadBy(index', frames'), AllHold(index', frames')
  PROVE  ParserInv'
<1>1. Parsing' => ParserInv'
  BY HoldsAre, PTL
<1>2. LinesOK'
  BY DEF LinesOK, LineType
<1>3. CallInv(index, frames)'
  <2>1. \A k : Opened(index, frames[k])' = Opened(index', frames'[k])
    BY DEF Opened, At, Nearest
  <2>2. \A k : Inside(index, frames[k], frames[k - 1])' = Inside(index', frames'[k], frames'[k - 1])
    BY DEF Inside, At, Nearest, LineSplit
  <2> QED
    BY <2>1, <2>2 DEF CallInv, IsCall
<1>4. Outline' = Outline
  BY DEF Outline, OutlineNode, ItemsBelow, ItemOf, LineSplit, Below, Owner, Nearest
<1>5. IsOutline' = IsOutline
  BY DEF IsOutline, IsOutlined, IsBlock, IsScalarItem, IsEntry, LineSplit, ItemOf, Below,
         Owner, Nearest
<1>6. ReadBy(index, frames)'
  <2>1. IsOutlined(index - 1)' <=> IsOutlined(index' - 1)
    BY DEF IsOutlined, IsBlock, IsScalarItem, IsEntry, LineSplit, ItemOf, Below, Owner, Nearest
  <2> QED
    BY <1>5, <2>1 DEF ReadBy
<1>7. AllHold(index, frames)'
  <2>1. \A k : TakenBy(index, frames, k)' = TakenBy(index', frames', k)
    BY DEF TakenBy, At, Below, Owner, Nearest
  <2>2. \A k : ItemsBelow(At(index, frames[k]))' = ItemsBelow(At(index', frames'[k]))
    BY DEF ItemsBelow, At, ItemOf, Below, Owner, Nearest
  <2> QED
    BY <1>4, <1>5, <2>1, <2>2 DEF AllHold, Holds, LineSplit
<1> QED
  BY <1>1, <1>2, <1>3, <1>6, <1>7 DEF Parsing

\* A step that ends it.
LEMMA Ends ==
  ASSUME TypeOK, doc' = doc, lines' = lines, index' = index, frames' = <<>> \/ frames' = frames,
         phase' \in {"parsed", "accepted", "invalid", "malformed"},
         AcceptedInv', ParsesOutlines'
  PROVE  ParserInv'
<1>1. TypeOK'
  <2>1. CASE frames' = frames
    BY <2>1 DEF TypeOK
  <2>2. CASE frames' = <<>>
    <3>1. frames' \in Seq(ToSet(frames')) /\ DOMAIN frames' = {}
      BY <2>2
    <3>2. /\ doc' \in Documents /\ index' \in Nat
          /\ lines' \in Seq([indent : Nat, text : Seq(STRING)])
          /\ phase' \in {"text", "blocks", "parsed", "accepted", "invalid", "malformed"}
      BY DEF TypeOK
    <3> QED
      BY <3>1, <3>2 DEF TypeOK
  <2> QED
    BY <2>1, <2>2
<1>2. FrameInv' /\ ReadInv' /\ TakenInv'
  BY DEF FrameInv, ReadInv, TakenInv
<1> QED
  BY <1>1, <1>2 DEF ParserInv

\* A refused line is the end, and there was no outline.
LEMMA Refuses ==
  ASSUME TypeOK, doc' = doc, lines' = lines, index' = index, frames' = <<>> \/ frames' = frames,
         phase' = "malformed", lines = <<>> \/ ~IsOutline
  PROVE  ParserInv'
<1>1. IsOutline' = IsOutline
  BY DEF IsOutline, IsOutlined, IsBlock, IsScalarItem, IsEntry, LineSplit, ItemOf, Below,
         Owner, Nearest
<1>2. AcceptedInv' /\ ParsesOutlines'
  BY <1>1 DEF AcceptedInv, ParsesOutlines
<1> QED
  BY <1>2, Ends

\* A tree is the outline, and stays it.
LEMMA Returns ==
  ASSUME TypeOK, doc' = doc, lines' = lines, index' = index, frames' = <<>> \/ frames' = frames,
         phase' \in {"parsed", "accepted", "invalid"}, phase' = "accepted" => IsContract',
         IsOutline, root' = Outline[0]
  PROVE  ParserInv'
<1>1. IsOutline' = IsOutline
  BY DEF IsOutline, IsOutlined, IsBlock, IsScalarItem, IsEntry, LineSplit, ItemOf, Below,
         Owner, Nearest
<1>2. Outline' = Outline
  BY DEF Outline, OutlineNode, ItemsBelow, ItemOf, LineSplit, Below, Owner, Nearest
<1>3. AcceptedInv' /\ ParsesOutlines'
  BY <1>1, <1>2 DEF AcceptedInv, ParsesOutlines
<1> QED
  BY <1>3, Ends
-----------------------------------------------------------------------------
LEMMA ParserInit == Init => ParserInv
<1> SUFFICES ASSUME Init PROVE ParserInv
  OBVIOUS
<1>1. doc \in Documents /\ phase = "text" /\ lines = <<>> /\ index = 1 /\ frames = <<>>
  BY DEF Init
<1>2. frames \in Seq(ToSet(frames)) /\ DOMAIN frames = {}
  BY <1>1
<1>3. lines \in Seq([indent : Nat, text : Seq(STRING)]) /\ index \in Nat
  BY <1>1
<1>4. TypeOK
  BY <1>1, <1>2, <1>3 DEF TypeOK
<1>5. FrameInv /\ ReadInv /\ TakenInv /\ AcceptedInv /\ ParsesOutlines
  BY <1>1 DEF FrameInv, ReadInv, TakenInv, AcceptedInv, ParsesOutlines
<1> QED
  BY <1>4, <1>5 DEF ParserInv

\* The lines tokenize keeps are lines, and the first block is opened at the first of them.
LEMMA TokenizeKeeps == ParserInv /\ Tokenize => ParserInv'
<1> SUFFICES ASSUME ParserInv, Tokenize PROVE ParserInv'
  OBVIOUS
<1>1. /\ phase = "text" /\ StartsAtColumnZero(Kept(doc)) /\ phase' = "blocks"
      /\ lines' = Kept(doc) /\ frames' = <<Frame(Kept(doc)[1], <<>>)>>
      /\ doc' = doc /\ index' = index
  BY DEF Tokenize, IsTokenized
<1>2. doc \in Documents /\ index = 1
  BY <1>1 DEF ParserInv, TypeOK, FrameInv
<1>3. Kept(doc) \in Seq(LineType)
  <2>1. doc \in Seq(LineType)
    BY <1>2, DocumentsAssumption DEF LineType
  <2> QED
    BY <2>1, KeptTyped
<1>4. Kept(doc) # <<>> /\ Kept(doc)[1].indent = 0
  BY <1>1 DEF StartsAtColumnZero
<1>5. LinesOK'
  BY <1>1, <1>3 DEF LinesOK, LineType
<1>6. frames' = <<Frame(lines[1], <<>>)>>'
  BY <1>1 DEF Frame, IsItem
<1>7. Starting'
  BY <1>1, <1>2, <1>4, <1>5, <1>6 DEF Starting
<1> QED
  BY <1>7, Started, HoldsAre, PTL

LEMMA TopIs == ASSUME NEW x, CallInv(x, frames) PROVE Top = frames[Len(frames)]
BY DEF Top, Last, CallInv

\* What the line that is read is, in the words of the outline.
LEMMA ReadIs ==
  /\ Read = LineSplit(index) /\ ItemValue = ItemOf(index) /\ EntryValue = LineValue(index)
  /\ IsEntry(index) <=> ~IsItem(Line) /\ Read.ok
  /\ BlockEnds <=> Ended(index, Top)
<1>1. Read = LineSplit(index) /\ ItemValue = ItemOf(index)
  BY DEF Read, LineSplit, Line, ItemValue, ItemOf
<1>2. EntryValue = LineValue(index)
  BY <1>1 DEF EntryValue, LineValue
<1>3. IsEntry(index) <=> ~IsItem(Line) /\ Read.ok
  BY <1>1 DEF IsEntry, Line
<1>4. BlockEnds <=> Ended(index, Top)
  BY DEF BlockEnds, Ended, Line
<1> QED
  BY <1>1, <1>2, <1>3, <1>4

\* The step reads a line of the block of the last call.
LEMMA ReadingIs ==
  ASSUME TypeOK, FrameInv, ReadInv, TakenInv, NEW kind, Reading(kind)
  PROVE  /\ index \in 1..Len(lines) /\ Len(lines) \in Nat
         /\ lines[index].indent = frames[Len(frames)].indent /\ frames[Len(frames)].kind = kind
<1>1. phase = "blocks" /\ ~BlockEnds /\ Line.indent = Top.indent /\ Top.kind = kind
  BY DEF Reading
<1>2. LinesOK /\ CallInv(index, frames)
  BY <1>1, HoldIs
<1>3. Len(lines) \in Nat /\ index \in 1..(Len(lines) + 1) /\ Top = frames[Len(frames)]
  BY <1>2, LineFacts, TopIs DEF CallInv
<1>4. index <= Len(lines)
  BY <1>1 DEF BlockEnds
<1>5. index \in 1..Len(lines)
  BY <1>3, <1>4
<1> QED
  BY <1>1, <1>3, <1>5 DEF Line

LEMMA LineKeeps ==
  ASSUME TypeOK, FrameInv, ReadInv, TakenInv, ReadEntry \/ OpenBlock \/ ReadItem
  PROVE  ParserInv'
<1>1. /\ phase = "blocks" /\ phase' = phase /\ doc' = doc /\ lines' = lines /\ index' = index + 1
      /\ doc \in Documents
  BY DEF ReadEntry, OpenBlock, ReadItem, ReadsEntry, Reading, TypeOK
<1>2. LinesOK /\ CallInv(index, frames) /\ ReadBy(index, frames) /\ AllHold(index, frames)
  BY <1>1, HoldIs
<1>3. Top = frames[Len(frames)]
  BY <1>2, TopIs
<1>4. ASSUME ReadsEntry
      PROVE  /\ index \in 1..Len(lines) /\ Len(lines) \in Nat
             /\ lines[index].indent = frames[Len(frames)].indent
             /\ frames[Len(frames)].kind = "map" /\ IsEntry(index)
             /\ LineSplit(index).key \notin DOMAIN frames[Len(frames)].entries
  <2>1. Reading("map") /\ ~IsItem(Line) /\ Read.ok /\ Read.key \notin DOMAIN Top.entries
    BY <1>4 DEF ReadsEntry
  <2>2. IsEntry(index) /\ LineSplit(index).key \notin DOMAIN frames[Len(frames)].entries
    BY <1>3, <2>1, ReadIs
  <2> QED
    BY <2>1, <2>2, ReadingIs
<1>5. CASE ReadEntry
  <2>1. /\ ReadsEntry /\ ~OpensBlock /\ EntryValue # Unreadable
        /\ frames' = WithEntry(frames, Read.key, EntryValue)
    BY <1>5 DEF ReadEntry
  <2>2. /\ frames' = WithEntry(frames, LineSplit(index).key, LineValue(index))
        /\ LineValue(index) # Unreadable
    BY <2>1, ReadIs
  <2>3. LineSplit(index).raw = <<>> /\ index < Len(lines)
          => ~(lines[index + 1].indent > lines[index].indent)
    BY <1>3, <1>4, <2>1, ReadIs DEF OpensBlock
  <2>4. CallInv(index + 1, frames') /\ ReadBy(index + 1, frames') /\ AllHold(index + 1, frames')
    BY <1>2, <1>4, <2>1, <2>2, <2>3, EntryRead
  <2> QED
    BY <1>1, <1>2, <2>4, GoesOn
<1>6. CASE OpenBlock
  <2>1. ReadsEntry /\ OpensBlock /\ frames' = Append(frames, Frame(lines[index + 1], Read.key))
    BY <1>6 DEF OpenBlock
  <2>2. frames' = Append(frames, Frame(lines[index + 1], LineSplit(index).key))
    BY <2>1, ReadIs
  <2>3. /\ LineSplit(index).raw = <<>> /\ index < Len(lines)
        /\ lines[index + 1].indent > lines[index].indent
    BY <1>3, <1>4, <2>1, ReadIs DEF OpensBlock
  <2>4. CallInv(index + 1, frames') /\ ReadBy(index + 1, frames') /\ AllHold(index + 1, frames')
    BY <1>2, <1>4, <2>1, <2>2, <2>3, BlockOpened
  <2> QED
    BY <1>1, <1>2, <2>4, GoesOn
<1>7. CASE ReadItem
  <2>1. /\ Reading("list") /\ ItemValue.kind \in {"string", "int", "bool"}
        /\ frames' = [frames EXCEPT ![Len(frames)].items = Append(@, ItemValue)]
    BY <1>7 DEF ReadItem
  <2>2. frames' = [frames EXCEPT ![Len(frames)].items = Append(@, ItemOf(index))]
    BY <2>1, ReadIs
  <2>3. /\ index \in 1..Len(lines) /\ lines[index].indent = frames[Len(frames)].indent
        /\ frames[Len(frames)].kind = "list"
    BY <2>1, ReadingIs
  <2>4. IsScalarItem(index)
    <3>1. IsItem(lines[index])
      BY <1>3, <2>1, <2>3 DEF Reading, BlockEnds, Line
    <3> QED
      BY <2>1, <3>1, ReadIs DEF IsScalarItem
  <2>5. CallInv(index + 1, frames') /\ ReadBy(index + 1, frames') /\ AllHold(index + 1, frames')
    BY <1>2, <2>2, <2>3, <2>4, ItemRead
  <2> QED
    BY <1>1, <1>2, <2>5, GoesOn
<1> QED
  BY <1>5, <1>6, <1>7

LEMMA ReturnKeeps == ASSUME TypeOK, FrameInv, ReadInv, TakenInv, Return PROVE ParserInv'
<1>1. /\ phase = "blocks" /\ phase' = phase /\ doc' = doc /\ lines' = lines /\ index' = index
      /\ doc \in Documents /\ BlockEnds /\ Len(frames) > 1
      /\ frames' = WithEntry(Front(frames), Top.key, Node(Top))
  BY DEF Return, TypeOK
<1>2. LinesOK /\ CallInv(index, frames) /\ ReadBy(index, frames) /\ AllHold(index, frames)
  BY <1>1, HoldIs
<1>3. Top = frames[Len(frames)] /\ Ended(index, frames[Len(frames)])
  BY <1>1, <1>2, TopIs, ReadIs
<1>4. CallInv(index, frames') /\ ReadBy(index, frames') /\ AllHold(index, frames')
  BY <1>1, <1>2, <1>3, BlockClosed
<1> QED
  BY <1>1, <1>2, <1>4, GoesOn

LEMMA ReturnRootKeeps == ASSUME TypeOK, FrameInv, ReadInv, TakenInv, ReturnRoot PROVE ParserInv'
<1>1. /\ phase = "blocks" /\ doc' = doc /\ lines' = lines /\ index' = index
      /\ BlockEnds /\ Len(frames) = 1 /\ frames' = <<>>
      /\ IF index > Len(lines) /\ Top.kind = "map"
         THEN phase' = "parsed" /\ root' = Node(Top)
         ELSE phase' = "malformed"
  BY DEF ReturnRoot
<1>2. LinesOK /\ CallInv(index, frames) /\ ReadBy(index, frames) /\ AllHold(index, frames)
  BY <1>1, HoldIs
<1>3. Top = frames[1] /\ Ended(index, frames[1])
  BY <1>1, <1>2, TopIs, ReadIs
<1>4. IF index > Len(lines) /\ frames[1].kind = "map"
      THEN IsOutline /\ Node(frames[1]) = Outline[0]
      ELSE ~IsOutline
  BY <1>1, <1>2, <1>3, RootRead
<1>5. CASE index > Len(lines) /\ Top.kind = "map"
  <2>1. phase' = "parsed" /\ IsOutline /\ root' = Outline[0]
    BY <1>1, <1>3, <1>4, <1>5
  <2> QED
    BY <1>1, <2>1, Returns
<1>6. CASE ~(index > Len(lines) /\ Top.kind = "map")
  <2>1. phase' = "malformed" /\ ~IsOutline
    BY <1>1, <1>3, <1>4, <1>6
  <2> QED
    BY <1>1, <2>1, Refuses
<1> QED
  BY <1>5, <1>6

LEMMA RefuseLineKeeps == ASSUME TypeOK, FrameInv, ReadInv, TakenInv, RefuseLine PROVE ParserInv'
<1>1. /\ phase = "blocks" /\ doc' = doc /\ lines' = lines /\ index' = index
      /\ ~BlockEnds /\ frames' = <<>> /\ phase' = "malformed"
      /\ \/ Line.indent > Top.indent
         \/ Reading("map") /\ ~ReadsEntry
         \/ ReadsEntry /\ ~OpensBlock /\ EntryValue = Unreadable
         \/ Reading("list") /\ ItemValue.kind \notin {"string", "int", "bool"}
  BY DEF RefuseLine
<1>2. LinesOK /\ CallInv(index, frames) /\ ReadBy(index, frames) /\ AllHold(index, frames)
  BY <1>1, HoldIs
<1>3. Top = frames[Len(frames)]
  BY <1>2, TopIs
<1>4. CASE Line.indent > Top.indent
  <2>1. index <= Len(lines)
    <3>1. Len(lines) \in Nat /\ index \in 1..(Len(lines) + 1)
      BY <1>2, LineFacts DEF CallInv
    <3> QED
      BY <1>1, <3>1 DEF BlockEnds
  <2>2. ~IsOutline
    BY <1>2, <1>3, <1>4, <2>1 DEF ReadBy, Line
  <2> QED
    BY <1>1, <2>2, Refuses
<1>5. CASE \/ Reading("map") /\ ~ReadsEntry
           \/ ReadsEntry /\ ~OpensBlock /\ EntryValue = Unreadable
  <2>1. Reading("map")
    BY <1>5 DEF ReadsEntry
  <2>2. /\ index \in 1..Len(lines) /\ lines[index].indent = frames[Len(frames)].indent
        /\ frames[Len(frames)].kind = "map"
    BY <2>1, ReadingIs
  <2>3. \/ ~IsEntry(index)
        \/ LineSplit(index).key \in DOMAIN frames[Len(frames)].entries
        \/ LineValue(index) = Unreadable
    BY <1>3, <1>5, <2>1, ReadIs DEF ReadsEntry
  <2>4. ~IsOutline
    BY <1>2, <2>2, <2>3, EntryRefused
  <2> QED
    BY <1>1, <2>4, Refuses
<1>6. CASE Reading("list") /\ ItemValue.kind \notin {"string", "int", "bool"}
  <2>1. /\ index \in 1..Len(lines) /\ lines[index].indent = frames[Len(frames)].indent
        /\ frames[Len(frames)].kind = "list"
    BY <1>6, ReadingIs
  <2>2. ~IsScalarItem(index)
    BY <1>6, ReadIs DEF IsScalarItem
  <2>3. ~IsOutline
    BY <1>2, <2>1, <2>2, ItemRefused
  <2> QED
    BY <1>1, <2>3, Refuses
<1> QED
  BY <1>1, <1>4, <1>5, <1>6

LEMMA ParserNext == ParserInv /\ [Next]_vars => ParserInv'
<1> SUFFICES ASSUME ParserInv, [Next]_vars PROVE ParserInv'
  OBVIOUS
<1>1. TypeOK /\ FrameInv /\ ReadInv /\ TakenInv /\ AcceptedInv /\ ParsesOutlines
  BY DEF ParserInv
<1>2. CASE RefuseText
  <2>1. /\ phase = "text" /\ phase' = "malformed" /\ doc' = doc /\ lines' = lines
        /\ index' = index /\ frames' = frames
    BY <1>2 DEF RefuseText
  <2>2. lines = <<>>
    BY <1>1, <2>1 DEF FrameInv
  <2> QED
    BY <1>1, <2>1, <2>2, Refuses
<1>3. CASE Tokenize
  BY <1>3, TokenizeKeeps
<1>4. CASE ReadEntry \/ OpenBlock \/ ReadItem
  BY <1>1, <1>4, LineKeeps
<1>5. CASE Return
  BY <1>1, <1>5, ReturnKeeps
<1>6. CASE ReturnRoot
  BY <1>1, <1>6, ReturnRootKeeps
<1>7. CASE RefuseLine
  BY <1>1, <1>7, RefuseLineKeeps
<1>8. CASE Accept \/ RefuseTree
  <2>1. /\ phase = "parsed" /\ doc' = doc /\ lines' = lines /\ index' = index /\ frames' = frames
        /\ root' = root /\ phase' \in {"accepted", "invalid"} /\ (phase' = "accepted" => IsContract)
    BY <1>8 DEF Accept, RefuseTree
  <2>2. IsOutline /\ root' = Outline[0]
    BY <1>1, <2>1 DEF ParsesOutlines
  <2>3. phase' = "accepted" => IsContract'
    BY <2>1 DEF IsContract
  <2> QED
    BY <1>1, <2>1, <2>2, <2>3, Returns
<1>9. CASE UNCHANGED vars
  <2>1. /\ doc' = doc /\ phase' = phase /\ lines' = lines /\ index' = index
        /\ frames' = frames /\ root' = root
    BY <1>9 DEF vars
  <2>2. CASE phase = "text"
    <3>1. TypeOK'
      BY <1>1, <2>1 DEF TypeOK
    <3>2. FrameInv' /\ ReadInv' /\ TakenInv' /\ AcceptedInv' /\ ParsesOutlines'
      BY <1>1, <2>1, <2>2 DEF FrameInv, ReadInv, TakenInv, AcceptedInv, ParsesOutlines
    <3> QED
      BY <3>1, <3>2 DEF ParserInv
  <2>3. CASE phase = "blocks"
    <3>1. /\ LinesOK /\ doc \in Documents
          /\ CallInv(index, frames) /\ ReadBy(index, frames) /\ AllHold(index, frames)
      BY <1>1, <2>3, HoldIs DEF TypeOK
    <3> QED
      BY <2>1, <2>3, <3>1, GoesOn
  <2>4. CASE phase = "malformed"
    BY <1>1, <2>1, <2>4, Refuses DEF ParsesOutlines
  <2>5. CASE phase \in {"parsed", "accepted", "invalid"}
    <3>1. IsOutline /\ root' = Outline[0]
      BY <1>1, <2>1, <2>5 DEF ParsesOutlines
    <3>2. phase' = "accepted" => IsContract'
      BY <1>1, <2>1 DEF AcceptedInv, IsContract
    <3> QED
      BY <1>1, <2>1, <2>5, <3>1, <3>2, Returns
  <2> QED
    BY <1>1, <2>2, <2>3, <2>4, <2>5 DEF TypeOK
<1> QED
  BY <1>2, <1>3, <1>4, <1>5, <1>6, <1>7, <1>8, <1>9 DEF Next

(***************************************************************************)
(* The invariant: each call in progress reads one block of the outline and *)
(* holds what the lines it has taken in stand for; the tree is the outline.*)
(***************************************************************************)
THEOREM ParserInvariant == Spec => []ParserInv
BY ParserInit, ParserNext, PTL DEF Spec

(***************************************************************************)
(* ParseBytes returns the tree of the lines, or refuses them because they  *)
(* are no outline: for files of any length and any depth.                  *)
(***************************************************************************)
THEOREM ParserParsesOutlines == Spec => []ParsesOutlines
<1>1. ParserInv => ParsesOutlines
  BY DEF ParserInv
<1> QED
  BY <1>1, ParserInvariant, PTL
-----------------------------------------------------------------------------
(* What a contract asks for *)

\* What a mapping asks for: its fields, and of the field deep the kinds of its fields.
AskedOf(node, fields, deep, nested, kinds) ==
    Present(node, fields \ {deep})
      \union IF Has(node, deep) THEN {kinds[n] : n \in Present(Child(node, deep), nested)} ELSE {}

\* The fields of a mapping of which at most one, deep, is a mapping with fields of its own.
LEMMA FieldsAre ==
  ASSUME NEW node, NEW fields, NEW deep, NEW nested, NEW kinds, OnlyFields(node, fields),
         \A f \in fields \ {deep} : Has(node, f) => Child(node, f).kind # "map",
         Has(node, deep) => /\ OnlyFields(Child(node, deep), nested)
                            /\ \E n \in nested : Has(Child(node, deep), n),
         \A n \in nested : kinds[n] = deep \o "." \o n
  PROVE  FieldsOf(node) = AskedOf(node, fields, deep, nested, kinds)
<1> DEFINE keys == DOMAIN node.entries
           opened == {f \in keys : node.entries[f].kind = "map" /\ DOMAIN node.entries[f].entries # {}}
           flat == {Head(f) : f \in keys \ opened}
           dotted(f) == {Head(f) \o "." \o Head(g) : g \in DOMAIN node.entries[f].entries}
           inner == IF Has(node, deep) THEN {kinds[n] : n \in Present(Child(node, deep), nested)} ELSE {}
<1>1. \A n : Head(<<n>>) = n
  OBVIOUS
<1>2. \A f \in keys : \E n \in fields : f = <<n>>
  BY DEF OnlyFields
<1>3. \A n : Has(node, n) <=> <<n>> \in keys
  BY DEF Has
<1>4. \A n : Child(node, n) = node.entries[<<n>>]
  BY DEF Child
<1>5. \A m, n : <<m>> = <<n>> => m = n
  BY <1>1
<1>6. opened = IF Has(node, deep) THEN {<<deep>>} ELSE {}
  <2>1. ASSUME NEW f \in opened PROVE f = <<deep>>
    <3>1. PICK n \in fields : f = <<n>>
      BY <1>2
    <3> QED
      BY <1>3, <1>4, <3>1
  <2>2. ASSUME Has(node, deep) PROVE <<deep>> \in opened
    <3>1. Child(node, deep).kind = "map" /\ DOMAIN Child(node, deep).entries # {}
      BY <2>2 DEF OnlyFields, Has
    <3> QED
      BY <1>3, <1>4, <2>2, <3>1
  <2>3. opened \subseteq keys
    OBVIOUS
  <2> HIDE DEF opened, keys
  <2> QED
    BY <1>3, <2>1, <2>2, <2>3
<1>7. FieldsOf(node) = flat \union UNION {dotted(f) : f \in opened}
  BY DEF FieldsOf
<1>8. flat = Present(node, fields \ {deep})
  <2>1. keys \ opened = {f \in keys : f # <<deep>>}
    <3> HIDE DEF opened, keys
    <3> QED
      BY <1>3, <1>6
  <2> HIDE DEF opened
  <2>2. ASSUME NEW f \in keys \ opened PROVE Head(f) \in Present(node, fields \ {deep})
    <3>1. PICK n \in fields : f = <<n>>
      BY <1>2
    <3>2. n # deep /\ Has(node, n) /\ Head(f) = n
      BY <1>1, <1>3, <2>1, <3>1
    <3> QED
      BY <3>2 DEF Present
  <2>3. ASSUME NEW n \in Present(node, fields \ {deep}) PROVE n \in flat
    <3>1. n # deep /\ Has(node, n)
      BY DEF Present
    <3>2. <<n>> \in keys \ opened /\ Head(<<n>>) = n
      BY <1>1, <1>3, <1>5, <2>1, <3>1
    <3> HIDE DEF keys
    <3> QED
      BY <3>2
  <2>4. \A e \in flat : e \in Present(node, fields \ {deep})
    <3> HIDE DEF keys
    <3> QED
      BY <2>2
  <2> HIDE DEF flat
  <2> QED
    BY <2>3, <2>4
<1>9. UNION {dotted(f) : f \in opened} = inner
  <2>1. CASE ~Has(node, deep)
    <3>1. opened = {} /\ inner = {}
      BY <1>6, <2>1
    <3> HIDE DEF opened, inner
    <3> QED
      BY <3>1
  <2>2. CASE Has(node, deep)
    <3> DEFINE child == Child(node, deep)
    <3>1. \A g \in DOMAIN child.entries : \E n \in nested : g = <<n>>
      BY <2>2 DEF OnlyFields
    <3>2. \A n : Has(child, n) <=> <<n>> \in DOMAIN child.entries
      BY DEF Has
    <3>3. node.entries[<<deep>>] = child /\ Head(<<deep>>) = deep
      BY <1>1, <1>4
    <3>4. inner = {kinds[n] : n \in Present(child, nested)}
      BY <2>2
    <3>5. opened = {<<deep>>}
      BY <1>6, <2>2
    <3>6. dotted(<<deep>>) = {deep \o "." \o Head(g) : g \in DOMAIN child.entries}
      BY <3>3
    <3> HIDE DEF child, opened, inner
    <3>7. ASSUME NEW g \in DOMAIN child.entries
          PROVE  deep \o "." \o Head(g) \in inner
      <4>1. PICK n \in nested : g = <<n>>
        BY <3>1
      <4>2. n \in Present(child, nested) /\ Head(g) = n
        BY <1>1, <3>2, <4>1 DEF Present
      <4> QED
        BY <3>4, <4>2
    <3>8. ASSUME NEW n \in Present(child, nested) PROVE kinds[n] \in dotted(<<deep>>)
      <4>1. n \in nested /\ <<n>> \in DOMAIN child.entries /\ Head(<<n>>) = n
        BY <1>1, <3>2 DEF Present
      <4>2. kinds[n] = deep \o "." \o Head(<<n>>)
        BY <4>1
      <4> HIDE DEF dotted
      <4> QED
        BY <3>6, <4>1, <4>2
    <3> HIDE DEF dotted
    <3>9. dotted(<<deep>>) = inner
      BY <3>4, <3>6, <3>7, <3>8
    <3> QED
      BY <3>5, <3>9
  <2> QED
    BY <2>1, <2>2
<1> QED
  BY <1>7, <1>8, <1>9 DEF AskedOf

LEMMA ServiceFields ==
  ASSUME NEW key, NEW node, ServiceDecodes(key, node)
  PROVE  FieldsOf(node) = Service(node).asks \union {"state"}
<1> DEFINE fields == {"state", "run_as", "restart", "capabilities"}
           nested == {"user", "group"}
           kinds == NestedKinds["run_as"]
<1>1. fields \ {"run_as"} = {"state", "restart", "capabilities"}
  OBVIOUS
<1>2. \A f \in fields \ {"run_as"} : Has(node, f) => Child(node, f).kind # "map"
  BY <1>1 DEF ServiceDecodes, IsOneOf, IsCapabilityList
<1>3. OnlyFields(node, fields) /\ Has(node, "state")
  BY DEF ServiceDecodes
<1>4. Has(node, "run_as") => /\ OnlyFields(Child(node, "run_as"), nested)
                             /\ \E n \in nested : Has(Child(node, "run_as"), n)
  BY DEF ServiceDecodes, IsRunAs
<1>5. \A n \in nested : kinds[n] = "run_as" \o "." \o n
  BY KindsAreDotted DEF NestedKinds
<1>6. Service(node).asks
        = Present(node, {"restart", "capabilities"})
          \union IF Has(node, "run_as")
                 THEN {kinds[n] : n \in Present(Child(node, "run_as"), nested)}
                 ELSE {}
  BY DEF Service
<1>7. Present(node, fields \ {"run_as"}) = {"state"} \union Present(node, {"restart", "capabilities"})
  BY <1>1, <1>3 DEF Present
<1>8. FieldsOf(node) = AskedOf(node, fields, "run_as", nested, kinds)
  <2> HIDE DEF fields, nested, kinds
  <2> QED
    BY <1>2, <1>3, <1>4, <1>5, FieldsAre
<1> HIDE DEF fields, nested, kinds
<1> QED
  BY <1>6, <1>7, <1>8 DEF AskedOf

LEMMA IdentityFields ==
  ASSUME NEW key, NEW node, IdentityDecodes(key, node)
  PROVE  FieldsOf(node) = Identity(node).asks \union {"service"}
<1> DEFINE fields == {"service", "uid", "gid", "capabilities"}
           kinds == NestedKinds["capabilities"]
<1>1. fields \ {"capabilities"} = {"service", "uid", "gid"}
  OBVIOUS
<1>2. \A f \in fields \ {"capabilities"} : Has(node, f) => Child(node, f).kind # "map"
  BY <1>1 DEF IdentityDecodes, IsFilled, IsAccountID
<1>3. OnlyFields(node, fields) /\ Has(node, "service")
  BY DEF IdentityDecodes
<1>4. Has(node, "capabilities") => /\ OnlyFields(Child(node, "capabilities"), CapabilitySets)
                                   /\ \E n \in CapabilitySets : Has(Child(node, "capabilities"), n)
  BY DEF IdentityDecodes, IsCapabilitySetSpec
<1>5. \A n \in CapabilitySets : kinds[n] = "capabilities" \o "." \o n
  BY KindsAreDotted DEF NestedKinds, CapabilitySets
<1>6. Identity(node).asks
        = Present(node, {"uid", "gid"})
          \union IF Has(node, "capabilities")
                 THEN {kinds[n] :
                         n \in Present(Child(node, "capabilities"), CapabilitySets)}
                 ELSE {}
  BY DEF Identity
<1>7. Present(node, fields \ {"capabilities"}) = {"service"} \union Present(node, {"uid", "gid"})
  BY <1>1, <1>3 DEF Present
<1>8. FieldsOf(node) = AskedOf(node, fields, "capabilities", CapabilitySets, kinds)
  <2> HIDE DEF fields, kinds
  <2> QED
    BY <1>2, <1>3, <1>4, <1>5, FieldsAre
<1> HIDE DEF fields, kinds
<1> QED
  BY <1>6, <1>7, <1>8 DEF AskedOf

\* Paths and sockets have no field that is a mapping.
LEMMA FlatFields ==
  ASSUME NEW node, NEW fields, "run_as" \notin fields, OnlyFields(node, fields),
         \A f \in fields : Has(node, f) => Child(node, f).kind # "map"
  PROVE  FieldsOf(node) = Present(node, fields)
<1>1. ~Has(node, "run_as")
  <2>1. ASSUME <<"run_as">> \in DOMAIN node.entries PROVE FALSE
    <3>1. PICK n \in fields : <<"run_as">> = <<n>>
      BY <2>1 DEF OnlyFields
    <3>2. <<"run_as">>[1] = <<n>>[1]
      BY <3>1
    <3> QED
      BY <3>2
  <2> QED
    BY <2>1 DEF Has
<1>2. fields \ {"run_as"} = fields
  OBVIOUS
<1>3. FieldsOf(node) = AskedOf(node, fields, "run_as", {}, <<>>)
  BY <1>1, <1>2, FieldsAre
<1> QED
  BY <1>1, <1>2, <1>3 DEF AskedOf

LEMMA DecodedIs ==
  /\ Decoded(root).services = [s \in DOMAIN Entries(root, "services") |->
                                 Service(Entries(root, "services")[s])]
  /\ Decoded(root).identity = [i \in DOMAIN Entries(root, "identity") |->
                                 Identity(Entries(root, "identity")[i])]
  /\ Decoded(root).paths = [p \in DOMAIN Entries(root, "paths") |->
                              Present(Entries(root, "paths")[p], {"owner", "group", "mode", "type"})]
  /\ Decoded(root).sockets = [s \in DOMAIN Entries(root, "sockets") |->
                                Present(Entries(root, "sockets")[s], {"owner", "group", "mode"})]
BY DEF Decoded

(***************************************************************************)
(* Every field below an entry of an accepted contract is asked about, or   *)
(* is the entry's state or service, and nothing else is.                   *)
(***************************************************************************)
THEOREM ParserAsksEveryField == Spec => []EveryFieldIsAsked
<1>1. AcceptedInv => EveryFieldIsAsked
  <2> SUFFICES ASSUME AcceptedInv, phase = "accepted" PROVE EveryFieldIsAsked
    BY DEF EveryFieldIsAsked
  <2> DEFINE contract == Decoded(root)
             services == Entries(root, "services")
             identity == Entries(root, "identity")
             paths == Entries(root, "paths")
             sockets == Entries(root, "sockets")
  <2>1. /\ contract.services = [s \in DOMAIN services |-> Service(services[s])]
        /\ contract.identity = [i \in DOMAIN identity |-> Identity(identity[i])]
        /\ contract.paths = [p \in DOMAIN paths |->
                               Present(paths[p], {"owner", "group", "mode", "type"})]
        /\ contract.sockets = [s \in DOMAIN sockets |->
                                 Present(sockets[s], {"owner", "group", "mode"})]
    BY DecodedIs
  <2>2. /\ \A s \in DOMAIN services : ServiceDecodes(s, services[s])
        /\ \A i \in DOMAIN identity : IdentityDecodes(i, identity[i])
        /\ \A p \in DOMAIN paths : PathDecodes(p, paths[p])
        /\ \A s \in DOMAIN sockets : SocketDecodes(s, sockets[s])
    BY DEF AcceptedInv, IsContract, Decodes
  <2> HIDE DEF contract, services, identity, paths, sockets
  <2>3. \A s \in DOMAIN services : FieldsOf(services[s]) = contract.services[s].asks \union {"state"}
    BY <2>1, <2>2, ServiceFields
  <2>4. \A i \in DOMAIN identity : FieldsOf(identity[i]) = contract.identity[i].asks \union {"service"}
    BY <2>1, <2>2, IdentityFields
  <2>5. ASSUME NEW p \in DOMAIN paths
        PROVE  FieldsOf(paths[p]) = Present(paths[p], {"owner", "group", "mode", "type"})
    BY <2>2, FlatFields DEF PathDecodes, OwnershipDecodes, IsFilled, IsMode, IsOneOf
  <2>6. ASSUME NEW s \in DOMAIN sockets
        PROVE  FieldsOf(sockets[s]) = Present(sockets[s], {"owner", "group", "mode"})
    BY <2>2, FlatFields DEF SocketDecodes, OwnershipDecodes, IsFilled, IsMode
  <2>7. contract.paths = [p \in DOMAIN paths |-> FieldsOf(paths[p])]
    BY <2>1, <2>5
  <2>8. contract.sockets = [s \in DOMAIN sockets |-> FieldsOf(sockets[s])]
    BY <2>1, <2>6
  <2>9. DOMAIN contract.services = DOMAIN services /\ DOMAIN contract.identity = DOMAIN identity
    BY <2>1
  <2> QED
    BY <2>3, <2>4, <2>7, <2>8, <2>9
       DEF EveryFieldIsAsked, contract, services, identity, paths, sockets
<1>2. ParserInv => AcceptedInv
  BY DEF ParserInv
<1> QED
  BY <1>1, <1>2, ParserInvariant, PTL
-----------------------------------------------------------------------------
(***************************************************************************)
(* What follows the parser.  Planner and CheckCommand know names by their  *)
(* rank only: a contract is given to them by way of a numbering.           *)
(***************************************************************************)
Renamed(entries, number) ==
    [n \in {number[k] : k \in DOMAIN entries} |->
       entries[CHOOSE k \in DOMAIN entries : number[k] = n]]

Numbered(contract, number) ==
    [services |-> Renamed(contract.services, number),
     sockets |-> Renamed(contract.sockets, number),
     paths |-> Renamed(contract.paths, number),
     identity |-> Renamed([l \in DOMAIN contract.identity |->
                             [service |-> number[contract.identity[l].service],
                              asks |-> contract.identity[l].asks]], number)]

NamesIn(contract) ==
    DOMAIN contract.services \union DOMAIN contract.sockets \union DOMAIN contract.paths
      \union DOMAIN contract.identity
      \union {contract.identity[l].service : l \in DOMAIN contract.identity}

\* An accepted contract is one that Planner plans for.
AcceptedIsPlannable ==
    phase = "accepted" =>
      LET contract == Decoded(root)
      IN \A number \in Injection(NamesIn(contract), Nat) :
           WellFormed(Numbered(contract, number)) /\ SemanticallyValid(Numbered(contract, number))

\* A value on a line is no mapping.
LEMMA ValueIsNoMap == ASSUME NEW raw PROVE ParseInlineValue(raw).kind # "map"
<1> DEFINE quoted == ParseQuotedString(raw)
<1>1. \/ ParseInlineValue(raw) = ListNode(<<>>)
      \/ ParseInlineValue(raw) = Unreadable
      \/ ParseInlineValue(raw) = StringNode(quoted.value)
      \/ ParseInlineValue(raw) = BoolNode(raw = <<"true">>)
      \/ ParseInlineValue(raw) = IntNode(Atoi(raw))
      \/ ParseInlineValue(raw) = StringNode(raw)
  BY Zenon DEF ParseInlineValue
<1> HIDE DEF quoted
<1> QED
  BY <1>1 DEF ListNode, Unreadable, StringNode, BoolNode, IntNode

\* The mappings of an outline have finitely many entries, which are of the outline.
LEMMA OutlineFinite ==
  ASSUME LinesOK, NEW i \in 0..Len(lines), Outline[i].kind = "map"
  PROVE  /\ IsFiniteSet(DOMAIN Outline[i].entries)
         /\ \A key \in DOMAIN Outline[i].entries :
              \E j \in 0..Len(lines) : Outline[i].entries[key] = Outline[j]
<1> DEFINE below == Below(i, Len(lines))
           keys == {LineSplit(j).key : j \in below}
           f == [key \in keys |-> Outline[CHOOSE j \in below : LineSplit(j).key = key]]
<1>1. Outline[i] = OutlineNode(i, Outline) /\ Len(lines) \in Nat
  BY LineFacts, OutlineFacts
<1>2. Outline[i] = MapNode(f)
  <2>1. \A items : ListNode(items).kind # "map"
    BY DEF ListNode
  <2>2. \A raw : ParseInlineValue(raw).kind # "map"
    BY ValueIsNoMap
  <2>3. \/ Outline[i] = ListNode(ItemsBelow(i)[Len(lines)])
        \/ Outline[i] = ParseInlineValue(LineSplit(i).raw)
        \/ Outline[i] = MapNode(f)
    BY <1>1 DEF OutlineNode
  <2> HIDE DEF f
  <2> QED
    BY <2>1, <2>2, <2>3
<1>3. Outline[i].entries = f
  BY <1>2 DEF MapNode
<1>4. below \subseteq 1..Len(lines)
  BY DEF Below
<1> HIDE DEF below
<1>5. IsFiniteSet(keys)
  <2> DEFINE key == [j \in below |-> LineSplit(j).key]
  <2>1. IsFiniteSet(below)
    <3>1. IsFiniteSet(1..Len(lines))
      BY <1>1, FS_Interval
    <3> QED
      BY <1>4, <3>1, FS_Subset
  <2>2. key \in Surjection(below, keys)
    BY DEF Surjection
  <2> HIDE DEF key, keys
  <2> QED
    BY <2>1, <2>2, FS_Surjection
<1>6. ASSUME NEW key \in keys PROVE \E j \in 0..Len(lines) : f[key] = Outline[j]
  <2> DEFINE j == CHOOSE j \in below : LineSplit(j).key = key
  <2>1. j \in below /\ f[key] = Outline[j]
    OBVIOUS
  <2> HIDE DEF j
  <2>2. j \in 0..Len(lines)
    BY <1>1, <1>4, <2>1
  <2> QED
    BY <2>1, <2>2
<1>7. DOMAIN f = keys
  OBVIOUS
<1> HIDE DEF f, keys
<1> QED
  BY <1>3, <1>5, <1>6, <1>7

LEMMA RenamedFacts ==
  ASSUME NEW names, NEW number \in Injection(names, Nat), NEW entries,
         DOMAIN entries \subseteq names, IsFiniteSet(DOMAIN entries)
  PROVE  LET renamed == Renamed(entries, number)
         IN  /\ Listed(renamed)
             /\ \A n \in DOMAIN renamed :
                  \E k \in DOMAIN entries : n = number[k] /\ renamed[n] = entries[k]
             /\ \A k \in names : number[k] \in DOMAIN renamed =>
                  k \in DOMAIN entries /\ renamed[number[k]] = entries[k]
<1> DEFINE D == DOMAIN entries
           image == {number[k] : k \in D}
           renamed == Renamed(entries, number)
<1>1. /\ number \in [names -> Nat]
      /\ \A j, k \in names : number[j] = number[k] => j = k
  BY DEF Injection, IsInjective
<1>2. DOMAIN renamed = image /\ image \subseteq Nat
  BY <1>1 DEF Renamed
<1>3. IsFiniteSet(image)
  <2> DEFINE f == [k \in D |-> number[k]]
  <2>1. f \in Surjection(D, image)
    BY DEF Surjection
  <2> HIDE DEF f, image
  <2> QED
    BY <2>1, FS_Surjection
<1>4. ASSUME NEW k \in D PROVE number[k] \in image /\ renamed[number[k]] = entries[k]
  <2>1. number[k] \in image
    OBVIOUS
  <2>2. (CHOOSE j \in D : number[j] = number[k]) = k
    BY <1>1
  <2>3. renamed[number[k]] = entries[CHOOSE j \in D : number[j] = number[k]]
    BY <2>1 DEF Renamed
  <2> QED
    BY <2>1, <2>2, <2>3
<1> HIDE DEF renamed
<1>5. \A n \in image : \E k \in D : n = number[k] /\ renamed[n] = entries[k]
  BY <1>4
<1>6. \A k \in names : number[k] \in image => k \in D /\ renamed[number[k]] = entries[k]
  BY <1>1, <1>4
<1> QED
  BY <1>2, <1>3, <1>5, <1>6 DEF Listed, renamed

LEMMA SectionsAreFinite ==
  ASSUME LinesOK, IsOutline, root = Outline[0], Decodes(root),
         NEW s \in {"services", "sockets", "paths", "identity"}
  PROVE  IsFiniteSet(DOMAIN Entries(root, s))
<1>1. 0 \in 0..Len(lines)
  BY LineFacts
<1>2. root.kind = "map" /\ (Has(root, s) => Child(root, s).kind = "map")
  BY DEF Decodes, OnlyFields
<1>3. CASE Has(root, s)
  <2>1. PICK j \in 0..Len(lines) : Child(root, s) = Outline[j]
    BY <1>1, <1>2, <1>3, OutlineFinite DEF Has, Child
  <2>2. IsFiniteSet(DOMAIN Outline[j].entries)
    BY <1>2, <1>3, <2>1, OutlineFinite
  <2> QED
    BY <1>3, <2>1, <2>2 DEF Entries
<1>4. CASE ~Has(root, s)
  <2>1. DOMAIN Entries(root, s) = {}
    BY <1>4 DEF Entries
  <2> QED
    BY <2>1, FS_EmptySet
<1> QED
  BY <1>3, <1>4

LEMMA ServiceAsks ==
  ASSUME NEW key, NEW node, ServiceDecodes(key, node)
  PROVE  Service(node).state \in ServiceStates /\ Service(node).asks \subseteq ToSet(ServiceKinds)
<1>1. Service(node).state \in ServiceStates
  <2>1. PICK w \in ServiceStates : Child(node, "state").text = <<w>>
    BY DEF ServiceDecodes, IsOneOf
  <2>2. Head(<<w>>) = w
    OBVIOUS
  <2> QED
    BY <2>1, <2>2 DEF Service
<1>2. Service(node).asks \subseteq {"restart", "run_as.user", "run_as.group", "capabilities"}
  BY DEF Service, Present, NestedKinds
<1>3. \A kind \in {"restart", "run_as.user", "run_as.group", "capabilities"} :
        kind \in ToSet(ServiceKinds)
  <2>1. ServiceKinds[1] = "restart" /\ ServiceKinds[2] = "run_as.user"
        /\ ServiceKinds[3] = "run_as.group" /\ ServiceKinds[4] = "capabilities"
        /\ DOMAIN ServiceKinds = 1..4
    BY DEF ServiceKinds
  <2> QED
    BY <2>1 DEF ToSet
<1> QED
  BY <1>1, <1>2, <1>3

LEMMA IdentityAsks ==
  ASSUME NEW node PROVE Identity(node).asks \subseteq ToSet(IdentityKinds)
<1> DEFINE kinds == {"uid", "gid", "capabilities.effective", "capabilities.permitted",
                     "capabilities.inheritable", "capabilities.bounding", "capabilities.ambient"}
<1>1. Identity(node).asks \subseteq kinds
  <2>1. \A s \in CapabilitySets : NestedKinds["capabilities"][s] \in kinds
    BY DEF CapabilitySets, NestedKinds
  <2>2. Present(node, {"uid", "gid"}) \subseteq kinds
    BY DEF Present
  <2>3. \A n : Present(n, CapabilitySets) \subseteq CapabilitySets
    BY DEF Present
  <2> HIDE DEF kinds
  <2> QED
    BY <2>1, <2>2, <2>3 DEF Identity
<1>2. \A kind \in kinds : kind \in ToSet(IdentityKinds)
  <2>1. /\ IdentityKinds[1] = "uid" /\ IdentityKinds[2] = "gid"
        /\ IdentityKinds[3] = "capabilities.effective" /\ IdentityKinds[4] = "capabilities.permitted"
        /\ IdentityKinds[5] = "capabilities.inheritable" /\ IdentityKinds[6] = "capabilities.bounding"
        /\ IdentityKinds[7] = "capabilities.ambient" /\ DOMAIN IdentityKinds = 1..7
    BY DEF IdentityKinds
  <2> QED
    BY <2>1 DEF ToSet
<1> HIDE DEF kinds
<1> QED
  BY <1>1, <1>2

LEMMA OwnershipAsks ==
  ASSUME NEW node
  PROVE  /\ Present(node, {"owner", "group", "mode", "type"}) \subseteq ToSet(PathKinds)
         /\ Present(node, {"owner", "group", "mode"}) \subseteq ToSet(SocketKinds)
<1>1. /\ PathKinds[1] = "type" /\ PathKinds[2] = "mode" /\ PathKinds[3] = "owner"
      /\ PathKinds[4] = "group" /\ DOMAIN PathKinds = 1..4
  BY DEF PathKinds
<1>2. /\ SocketKinds[1] = "owner" /\ SocketKinds[2] = "group" /\ SocketKinds[3] = "mode"
      /\ DOMAIN SocketKinds = 1..3
  BY DEF SocketKinds
<1>3. \A f \in {"owner", "group", "mode", "type"} : f \in ToSet(PathKinds)
  BY <1>1 DEF ToSet
<1>4. \A f \in {"owner", "group", "mode"} : f \in ToSet(SocketKinds)
  BY <1>2 DEF ToSet
<1> QED
  BY <1>3, <1>4 DEF Present

LEMMA PlannableFacts ==
  ASSUME LinesOK, IsOutline, root = Outline[0], IsContract,
         NEW number \in Injection(NamesIn(Decoded(root)), Nat)
  PROVE  /\ WellFormed(Numbered(Decoded(root), number))
         /\ SemanticallyValid(Numbered(Decoded(root), number))
<1> DEFINE c == Decoded(root)
           names == NamesIn(c)
           backed == [l \in DOMAIN c.identity |-> [service |-> number[c.identity[l].service],
                                                   asks |-> c.identity[l].asks]]
           services == Renamed(c.services, number)
           sockets == Renamed(c.sockets, number)
           paths == Renamed(c.paths, number)
           identity == Renamed(backed, number)
           plan == Numbered(c, number)
<1>1. /\ DOMAIN c.services = DOMAIN Entries(root, "services")
      /\ DOMAIN c.identity = DOMAIN Entries(root, "identity")
      /\ DOMAIN c.paths = DOMAIN Entries(root, "paths")
      /\ DOMAIN c.sockets = DOMAIN Entries(root, "sockets")
  BY DecodedIs
<1>2. Decodes(root) /\ SemanticallyValid(c)
  BY DEF IsContract
<1>3. /\ IsFiniteSet(DOMAIN c.services) /\ IsFiniteSet(DOMAIN c.identity)
      /\ IsFiniteSet(DOMAIN c.paths) /\ IsFiniteSet(DOMAIN c.sockets)
  BY <1>1, <1>2, SectionsAreFinite
<1>4. \A s \in DOMAIN c.services : /\ c.services[s].state \in ServiceStates
                                   /\ c.services[s].asks \subseteq ToSet(ServiceKinds)
  <2>1. \A s \in DOMAIN Entries(root, "services") :
          ServiceDecodes(s, Entries(root, "services")[s])
    BY <1>2 DEF Decodes
  <2> QED
    BY <2>1, DecodedIs, ServiceAsks
<1>5. \A l \in DOMAIN c.identity : c.identity[l].asks \subseteq ToSet(IdentityKinds)
  BY DecodedIs, IdentityAsks
<1>6. \A p \in DOMAIN c.paths : c.paths[p] \subseteq ToSet(PathKinds)
  BY DecodedIs, OwnershipAsks
<1>7. \A s \in DOMAIN c.sockets : c.sockets[s] \subseteq ToSet(SocketKinds)
  BY DecodedIs, OwnershipAsks
<1> HIDE DEF c
<1>8. /\ DOMAIN c.services \subseteq names /\ DOMAIN c.sockets \subseteq names
      /\ DOMAIN c.paths \subseteq names /\ DOMAIN c.identity \subseteq names
      /\ \A l \in DOMAIN c.identity : c.identity[l].service \in names
  BY DEF NamesIn
<1>9. number \in Injection(names, Nat) /\ \A k \in names : number[k] \in Nat
  BY DEF Injection, c
<1>10. /\ DOMAIN backed = DOMAIN c.identity
       /\ \A l \in DOMAIN c.identity : /\ backed[l].service = number[c.identity[l].service]
                                       /\ backed[l].asks = c.identity[l].asks
  OBVIOUS
<1>11. /\ plan.services = services /\ plan.sockets = sockets
       /\ plan.paths = paths /\ plan.identity = identity
  BY DEF Numbered
<1> HIDE DEF names, backed, plan
<1>12. /\ Listed(services)
       /\ \A n \in DOMAIN services :
            \E k \in DOMAIN c.services : n = number[k] /\ services[n] = c.services[k]
       /\ \A k \in names : number[k] \in DOMAIN services =>
            k \in DOMAIN c.services /\ services[number[k]] = c.services[k]
  BY <1>3, <1>8, <1>9, RenamedFacts
<1>13. /\ Listed(sockets)
       /\ \A n \in DOMAIN sockets :
            \E k \in DOMAIN c.sockets : n = number[k] /\ sockets[n] = c.sockets[k]
  BY <1>3, <1>8, <1>9, RenamedFacts
<1>14. /\ Listed(paths)
       /\ \A n \in DOMAIN paths : \E k \in DOMAIN c.paths : n = number[k] /\ paths[n] = c.paths[k]
  BY <1>3, <1>8, <1>9, RenamedFacts
<1>15. /\ Listed(identity)
       /\ \A n \in DOMAIN identity :
            \E k \in DOMAIN c.identity : n = number[k] /\ identity[n] = backed[k]
  BY <1>3, <1>8, <1>9, <1>10, RenamedFacts
<1> HIDE DEF services, sockets, paths, identity
<1>16. WellFormed(plan)
  <2>1. \A n \in DOMAIN services : /\ services[n].state \in ServiceStates
                                   /\ services[n].asks \subseteq ToSet(ServiceKinds)
    BY <1>4, <1>12
  <2>2. \A n \in DOMAIN identity : /\ identity[n].service \in Nat
                                   /\ identity[n].asks \subseteq ToSet(IdentityKinds)
    BY <1>5, <1>8, <1>9, <1>10, <1>15
  <2>3. \A n \in DOMAIN paths : paths[n] \subseteq ToSet(PathKinds)
    BY <1>6, <1>14
  <2>4. \A n \in DOMAIN sockets : sockets[n] \subseteq ToSet(SocketKinds)
    BY <1>7, <1>13
  <2> QED
    BY <1>11, <1>12, <1>13, <1>14, <1>15, <2>1, <2>2, <2>3, <2>4 DEF WellFormed
<1>17. SemanticallyValid(plan)
  <2>1. ASSUME NEW n \in DOMAIN identity, identity[n].service \in DOMAIN services
        PROVE  services[identity[n].service].state = "active"
    <3>1. PICK l \in DOMAIN c.identity : identity[n].service = number[c.identity[l].service]
      BY <1>10, <1>15
    <3> DEFINE s == c.identity[l].service
    <3>2. s \in DOMAIN c.services /\ services[number[s]] = c.services[s]
      BY <1>8, <1>12, <2>1, <3>1
    <3>3. c.services[s].state = "active"
      BY <1>2, <3>2 DEF SemanticallyValid
    <3> QED
      BY <3>1, <3>2, <3>3
  <2> QED
    BY <1>11, <2>1 DEF SemanticallyValid
<1> QED
  BY <1>16, <1>17 DEF plan, c

(***************************************************************************)
(* The parser returns what the planner expects: finitely many entries, of  *)
(* the states and kinds of checks that it knows, and identity asked of     *)
(* services that are declared active or not declared.  CheckCommand's      *)
(* assumption on its contracts, and what PlannedRun plans for, is so what  *)
(* ParseBytes accepts.                                                     *)
(***************************************************************************)
THEOREM ParserFeedsPlanner == Spec => []AcceptedIsPlannable
<1>1. ParserInv => AcceptedIsPlannable
  <2> SUFFICES ASSUME ParserInv, phase = "accepted" PROVE AcceptedIsPlannable
    BY DEF AcceptedIsPlannable
  <2>1. LinesOK
    BY DEF ParserInv, TypeOK, LinesOK, LineType
  <2>2. IsOutline /\ root = Outline[0] /\ IsContract
    BY DEF ParserInv, ParsesOutlines, AcceptedInv
  <2> QED
    BY <2>1, <2>2, PlannableFacts DEF AcceptedIsPlannable
<1> QED
  BY <1>1, ParserInvariant, PTL

-----------------------------------------------------------------------------
(* Loops over a text: the states before its first character and behind     *)
(* each one.                                                               *)

\* The literals of the module stand beside STRING, of which the provers know nothing.
Char == STRING \union Quotes \union Controls \union {"\\", "n", "r", "t", "k", "x", ":", " "}

LEMMA OfAllTexts ==
  ASSUME NEW P, <<>> \in P, \A s \in Seq(Char), c \in Char : s \in P => Append(s, c) \in P
  PROVE  Seq(Char) \subseteq P
<1> SUFFICES ASSUME NEW text \in Seq(Char) PROVE text \in P
  OBVIOUS
<1> DEFINE n == Len(text)
           Good == {i \in 0..n : SubSeq(text, 1, i) \in P} \union {n + 1}
<1>1. n \in Nat
  OBVIOUS
<1>2. 0 \in Good
  <2>1. SubSeq(text, 1, 0) = <<>> /\ 0 \in 0..n
    BY <1>1
  <2> QED
    BY <2>1
<1>3. ASSUME NEW i \in 0..n, i \in Good PROVE i + 1 \in Good
  <2>1. CASE i = n
    BY <2>1
  <2>2. CASE i # n
    <3>1. i \in Nat /\ i + 1 \in 1..n /\ i + 1 \in 0..n /\ i # n + 1
      BY <1>1, <2>2
    <3>2. SubSeq(text, 1, i) \in P
      BY <1>3, <3>1
    <3>3. text[i + 1] \in Char /\ SubSeq(text, 1, i) \in Seq(Char)
      BY <3>1
    <3>4. SubSeq(text, 1, i + 1) = Append(SubSeq(text, 1, i), text[i + 1])
      BY <3>1
    <3>5. SubSeq(text, 1, i + 1) \in P
      BY <3>2, <3>3, <3>4
    <3> QED
      BY <3>1, <3>5
  <2> QED
    BY <2>1, <2>2
<1>4. n \in Good
  <2> HIDE DEF Good, n
  <2>1. 0..n \subseteq Good
    BY <1>1, <1>2, <1>3, FromZero
  <2> QED
    BY <1>1, <2>1
<1>5. n # n + 1
  BY <1>1
<1>6. SubSeq(text, 1, n) \in P
  BY <1>4, <1>5
<1>7. text = SubSeq(text, 1, n)
  OBVIOUS
<1> QED
  BY <1>6, <1>7

\* f loops n times, from start.
IsLoop(f, n, start, next) == f[0] = start /\ \A i \in 1..n : f[i] = next[<<f[i - 1], i>>]

\* There is such a loop, if each state leads to another one of S.
LEMMA LoopExists ==
  ASSUME NEW n \in Nat, NEW S, NEW start \in S, NEW next \in [S \X (1..n) -> S]
  PROVE  \E f \in [0..n -> S] : IsLoop(f, n, start, next)
<1> DEFINE Reached == {m \in 0..n : \E f \in [0..m -> S] : IsLoop(f, m, start, next)} \union {n + 1}
<1>1. 0 \in Reached
  <2> DEFINE f == [i \in 0..0 |-> start]
  <2>1. f \in [0..0 -> S] /\ f[0] = start /\ 1..0 = {} /\ 0 \in 0..n
    OBVIOUS
  <2> HIDE DEF f
  <2>2. IsLoop(f, 0, start, next)
    BY <2>1 DEF IsLoop
  <2> QED
    BY <2>1, <2>2
<1>2. ASSUME NEW m \in 0..n, m \in Reached PROVE m + 1 \in Reached
  <2>1. CASE m = n
    BY <2>1
  <2>2. CASE m # n
    <3>1. m \in Nat /\ m + 1 \in 1..n /\ m + 1 \in 0..n /\ m # n + 1
      BY <2>2
    <3>2. PICK f \in [0..m -> S] : IsLoop(f, m, start, next)
      BY <1>2, <3>1
    <3> DEFINE g == [i \in 0..(m + 1) |-> IF i = m + 1 THEN next[<<f[m], m + 1>>] ELSE f[i]]
    <3>3. next[<<f[m], m + 1>>] \in S /\ \A i \in 0..m : f[i] \in S
      BY <3>1, <3>2
    <3>4. g \in [0..(m + 1) -> S]
      <4>1. \A i \in 0..(m + 1) : i # m + 1 => i \in 0..m
        BY <3>1
      <4> QED
        BY <3>3, <4>1
    <3>5. g[m + 1] = next[<<f[m], m + 1>>] /\ \A i \in 0..m : g[i] = f[i]
      BY <3>1
    <3> HIDE DEF g
    <3>6. ASSUME NEW i \in 1..(m + 1) PROVE g[i] = next[<<g[i - 1], i>>]
      <4>1. i - 1 \in 0..m /\ g[i - 1] = f[i - 1]
        BY <3>1, <3>5
      <4>2. CASE i = m + 1
        BY <3>1, <3>5, <4>1, <4>2
      <4>3. CASE i # m + 1
        <5>1. i \in 1..m /\ i \in 0..m
          BY <3>1, <4>3
        <5> QED
          BY <3>2, <3>5, <4>1, <5>1 DEF IsLoop
      <4> QED
        BY <4>2, <4>3
    <3>7. g[0] = start
      BY <3>1, <3>2, <3>5 DEF IsLoop
    <3>8. IsLoop(g, m + 1, start, next)
      BY <3>6, <3>7 DEF IsLoop
    <3> QED
      BY <3>1, <3>4, <3>8
  <2> QED
    BY <2>1, <2>2
<1>3. n \in Reached
  <2>1. 0..n \subseteq Reached
    <3> HIDE DEF Reached
    <3> QED
      BY <1>1, <1>2, FromZero
  <2> QED
    BY <2>1
<1> QED
  BY <1>3

\* Two loops that begin alike, and go on alike while they are, are.
GoAlike(f, g, n) == f[0] = g[0] /\ \A i \in 1..n : f[i - 1] = g[i - 1] => f[i] = g[i]

LEMMA LoopsAgree ==
  ASSUME NEW n \in Nat, NEW f, NEW g, GoAlike(f, g, n)
  PROVE  \A i \in 0..n : f[i] = g[i]
<1> DEFINE Same == {i \in 0..n : f[i] = g[i]} \union {n + 1}
<1>1. 0 \in Same
  BY DEF GoAlike
<1>2. ASSUME NEW i \in 0..n, i \in Same PROVE i + 1 \in Same
  <2>1. CASE i = n
    BY <2>1
  <2>2. CASE i # n
    <3>1. i + 1 \in 1..n /\ (i + 1) - 1 = i /\ i + 1 \in 0..n /\ i # n + 1
      BY <2>2
    <3>2. f[i] = g[i]
      BY <1>2, <3>1
    <3>3. f[i + 1] = g[i + 1]
      BY <3>1, <3>2 DEF GoAlike
    <3> QED
      BY <3>1, <3>3
  <2> QED
    BY <2>1, <2>2
<1>3. 0..n \subseteq Same
  <2> HIDE DEF Same
  <2> QED
    BY <1>1, <1>2, FromZero
<1> QED
  BY <1>3

ScanStates == [single : BOOLEAN, double : BOOLEAN, escaped : BOOLEAN]
ScanStart == [single |-> FALSE, double |-> FALSE, escaped |-> FALSE]

LEMMA ScanTyped ==
  /\ ScanStart \in ScanStates
  /\ \A s \in ScanStates : \A ch : Scanned(s, ch) \in ScanStates
<1>1. ScanStart \in ScanStates
  BY DEF ScanStart, ScanStates
<1>2. ASSUME NEW s \in ScanStates, NEW ch PROVE Scanned(s, ch) \in ScanStates
  BY DEF ScanStates, Scanned
<1> QED
  BY <1>1, <1>2

LEMMA ScansFacts ==
  ASSUME NEW text \in Seq(Char)
  PROVE  /\ Scans(text)[0] = ScanStart
         /\ \A i \in 1..Len(text) : Scans(text)[i] = Scanned(Scans(text)[i - 1], text[i])
         /\ \A i \in 0..Len(text) : Scans(text)[i] \in ScanStates
<1> DEFINE n == Len(text)
           Body(f) == [i \in 0..n |-> IF i = 0 THEN ScanStart ELSE Scanned(f[i - 1], text[i])]
           Loops(f) == f[0] = ScanStart /\ \A i \in 1..n : f[i] = Scanned(f[i - 1], text[i])
           found == CHOOSE f : f = Body(f)
           next == [p \in ScanStates \X (1..n) |-> Scanned(p[1], text[p[2]])]
<1>1. n \in Nat /\ \A i \in 1..n : text[i] \in Char
  OBVIOUS
<1>2. ScanStart \in ScanStates
  BY ScanTyped
<1>3. next \in [ScanStates \X (1..n) -> ScanStates]
  <2>1. ASSUME NEW p \in ScanStates \X (1..n) PROVE Scanned(p[1], text[p[2]]) \in ScanStates
    BY <1>1, ScanTyped
  <2> QED
    BY <2>1
<1>4. \A s \in ScanStates, i \in 1..n : next[<<s, i>>] = Scanned(s, text[i])
  OBVIOUS
<1> HIDE DEF next, n
<1>5. PICK f \in [0..n -> ScanStates] : IsLoop(f, n, ScanStart, next)
  BY <1>1, <1>2, <1>3, LoopExists
<1>6. \A i \in 0..n : f[i] \in ScanStates
  BY <1>5
<1>7. Loops(f)
  <2>1. ASSUME NEW i \in 1..n PROVE f[i] = Scanned(f[i - 1], text[i])
    <3>1. i - 1 \in 0..n
      BY <1>1
    <3>2. f[i - 1] \in ScanStates
      BY <1>6, <3>1
    <3> QED
      BY <1>4, <1>5, <3>2 DEF IsLoop
  <2> QED
    BY <1>5, <2>1 DEF IsLoop
<1>8. f = Body(f)
  <2>1. ASSUME NEW i \in 0..n PROVE f[i] = IF i = 0 THEN ScanStart ELSE Scanned(f[i - 1], text[i])
    <3>1. i = 0 \/ i \in 1..n
      BY <1>1
    <3> QED
      BY <1>7, <3>1
  <2>2. f = [i \in 0..n |-> f[i]]
    BY <1>5
  <2> HIDE DEF Loops
  <2>3. [i \in 0..n |-> f[i]] = Body(f)
    BY <2>1
  <2> QED
    BY <2>2, <2>3
<1>9. found = Body(found)
  <2>1. \E g : g = Body(g)
    BY <1>8
  <2> HIDE DEF Body
  <2> QED
    BY <2>1
<1>10. Scans(text) = found
  BY DEF Scans, ScanStart, n
<1> HIDE DEF found
<1>11. Loops(found)
  <2>1. \A i \in 0..n : found[i] = IF i = 0 THEN ScanStart ELSE Scanned(found[i - 1], text[i])
    BY <1>9
  <2>2. 0 \in 0..n /\ \A i \in 1..n : i \in 0..n /\ i # 0
    BY <1>1
  <2> QED
    BY <2>1, <2>2
<1>12. \A i \in 0..n : found[i] = f[i]
  <2>1. GoAlike(found, f, n)
    BY <1>7, <1>11 DEF GoAlike
  <2> QED
    BY <1>1, <2>1, LoopsAgree
<1> QED
  BY <1>6, <1>10, <1>11, <1>12 DEF n

\* What such a loop finds in a text, and in a text with one more character.
Scan(text) == Scans(text)[Len(text)]

LEMMA ScanStays ==
  ASSUME NEW text \in Seq(Char), NEW ch \in Char
  PROVE  \A i \in 0..Len(text) : Scans(Append(text, ch))[i] = Scans(text)[i]
<1> DEFINE n == Len(text)
           longer == Append(text, ch)
<1>1. /\ n \in Nat /\ longer \in Seq(Char) /\ Len(longer) = n + 1
      /\ \A i \in 1..n : longer[i] = text[i]
  OBVIOUS
<1> HIDE DEF longer
<1>2. Scans(longer)[0] = Scans(text)[0]
  BY <1>1, ScansFacts
<1>3. ASSUME NEW i \in 1..n, Scans(longer)[i - 1] = Scans(text)[i - 1]
      PROVE  Scans(longer)[i] = Scans(text)[i]
  <2>1. i \in 1..Len(longer) /\ i \in 1..Len(text) /\ longer[i] = text[i]
    BY <1>1
  <2> QED
    BY <1>1, <1>3, <2>1, ScansFacts
<1>4. GoAlike(Scans(longer), Scans(text), n)
  BY <1>2, <1>3 DEF GoAlike
<1>5. \A i \in 0..n : Scans(longer)[i] = Scans(text)[i]
  BY <1>1, <1>4, LoopsAgree
<1> QED
  BY <1>5 DEF longer

LEMMA ScanFacts ==
  ASSUME NEW text \in Seq(Char), NEW ch \in Char
  PROVE  /\ Scan(text) \in ScanStates
         /\ Scan(<<>>) = ScanStart
         /\ Scan(Append(text, ch)) = Scanned(Scan(text), ch)
<1> DEFINE n == Len(text)
           longer == Append(text, ch)
<1>1. /\ n \in Nat /\ longer \in Seq(Char) /\ Len(longer) = n + 1 /\ longer[n + 1] = ch
      /\ \A i \in 1..n : longer[i] = text[i]
  OBVIOUS
<1>2. <<>> \in Seq(Char) /\ Len(<<>>) = 0
  OBVIOUS
<1> HIDE DEF longer
<1>3. Scan(<<>>) = ScanStart
  BY <1>2, ScansFacts DEF Scan
<1>4. Scan(text) \in ScanStates
  <2>1. n \in 0..Len(text)
    BY <1>1
  <2> QED
    BY <2>1, ScansFacts DEF Scan
<1>5. Scans(longer)[n] = Scans(text)[n]
  <2>1. n \in 0..Len(text)
    BY <1>1
  <2> QED
    BY <2>1, ScanStays DEF longer
<1>6. Scan(longer) = Scanned(Scans(longer)[n], ch)
  <2>1. n + 1 \in 1..Len(longer) /\ (n + 1) - 1 = n
    BY <1>1
  <2> QED
    BY <1>1, <2>1, ScansFacts DEF Scan
<1> QED
  BY <1>1, <1>3, <1>4, <1>5, <1>6 DEF longer, Scan

UnquoteStates == [value : Seq(Char), pair : BOOLEAN, ok : BOOLEAN]
UnquoteStart == [value |-> <<>>, pair |-> FALSE, ok |-> TRUE]

LEMMA UnquoteTyped ==
  ASSUME NEW quote
  PROVE  /\ UnquoteStart \in UnquoteStates
         /\ \A s \in UnquoteStates, ch \in Char : Unquoted(quote, s, ch) \in UnquoteStates
<1>1. UnquoteStart \in UnquoteStates
  BY DEF UnquoteStart, UnquoteStates
<1>2. ASSUME NEW s \in UnquoteStates, NEW ch \in Char
      PROVE  Unquoted(quote, s, ch) \in UnquoteStates
  <2>1. Escape(ch) \in Char
    BY DEF Escape, Char, Controls
  <2>2. Append(s.value, ch) \in Seq(Char) /\ Append(s.value, Escape(ch)) \in Seq(Char)
    BY <2>1 DEF UnquoteStates
  <2> QED
    BY <2>2 DEF Unquoted, UnquoteStates
<1> QED
  BY <1>1, <1>2

LEMMA UnquotesFacts ==
  ASSUME NEW quote \in Quotes, NEW text \in Seq(Char)
  PROVE  /\ Unquotes(quote, text)[0] = UnquoteStart
         /\ \A i \in 1..Len(text) : Unquotes(quote, text)[i] = Unquoted(quote, Unquotes(quote, text)[i - 1], text[i])
         /\ \A i \in 0..Len(text) : Unquotes(quote, text)[i] \in UnquoteStates
<1> DEFINE n == Len(text)
           Body(f) == [i \in 0..n |-> IF i = 0 THEN UnquoteStart ELSE Unquoted(quote, f[i - 1], text[i])]
           Loops(f) == f[0] = UnquoteStart /\ \A i \in 1..n : f[i] = Unquoted(quote, f[i - 1], text[i])
           found == CHOOSE f : f = Body(f)
           next == [p \in UnquoteStates \X (1..n) |-> Unquoted(quote, p[1], text[p[2]])]
<1>1. n \in Nat /\ \A i \in 1..n : text[i] \in Char
  OBVIOUS
<1>2. UnquoteStart \in UnquoteStates
  BY UnquoteTyped
<1>3. next \in [UnquoteStates \X (1..n) -> UnquoteStates]
  <2>1. ASSUME NEW p \in UnquoteStates \X (1..n) PROVE Unquoted(quote, p[1], text[p[2]]) \in UnquoteStates
    BY <1>1, UnquoteTyped
  <2> QED
    BY <2>1
<1>4. \A s \in UnquoteStates, i \in 1..n : next[<<s, i>>] = Unquoted(quote, s, text[i])
  OBVIOUS
<1> HIDE DEF next, n
<1>5. PICK f \in [0..n -> UnquoteStates] : IsLoop(f, n, UnquoteStart, next)
  BY <1>1, <1>2, <1>3, LoopExists
<1>6. \A i \in 0..n : f[i] \in UnquoteStates
  BY <1>5
<1>7. Loops(f)
  <2>1. ASSUME NEW i \in 1..n PROVE f[i] = Unquoted(quote, f[i - 1], text[i])
    <3>1. i - 1 \in 0..n
      BY <1>1
    <3>2. f[i - 1] \in UnquoteStates
      BY <1>6, <3>1
    <3> QED
      BY <1>4, <1>5, <3>2 DEF IsLoop
  <2> QED
    BY <1>5, <2>1 DEF IsLoop
<1>8. f = Body(f)
  <2>1. ASSUME NEW i \in 0..n PROVE f[i] = IF i = 0 THEN UnquoteStart ELSE Unquoted(quote, f[i - 1], text[i])
    <3>1. i = 0 \/ i \in 1..n
      BY <1>1
    <3> QED
      BY <1>7, <3>1
  <2>2. f = [i \in 0..n |-> f[i]]
    BY <1>5
  <2> HIDE DEF Loops
  <2>3. [i \in 0..n |-> f[i]] = Body(f)
    BY <2>1
  <2> QED
    BY <2>2, <2>3
<1>9. found = Body(found)
  <2>1. \E g : g = Body(g)
    BY <1>8
  <2> HIDE DEF Body
  <2> QED
    BY <2>1
<1>10. Unquotes(quote, text) = found
  BY DEF Unquotes, UnquoteStart, n
<1> HIDE DEF found
<1>11. Loops(found)
  <2>1. \A i \in 0..n : found[i] = IF i = 0 THEN UnquoteStart ELSE Unquoted(quote, found[i - 1], text[i])
    BY <1>9
  <2>2. 0 \in 0..n /\ \A i \in 1..n : i \in 0..n /\ i # 0
    BY <1>1
  <2> QED
    BY <2>1, <2>2
<1>12. \A i \in 0..n : found[i] = f[i]
  <2>1. GoAlike(found, f, n)
    BY <1>7, <1>11 DEF GoAlike
  <2> QED
    BY <1>1, <2>1, LoopsAgree
<1> QED
  BY <1>6, <1>10, <1>11, <1>12 DEF n

\* What such a loop finds in a text, and in a text with one more character.
Unquote(quote, text) == Unquotes(quote, text)[Len(text)]

LEMMA UnquoteStays ==
  ASSUME NEW quote \in Quotes, NEW text \in Seq(Char), NEW ch \in Char
  PROVE  \A i \in 0..Len(text) : Unquotes(quote, Append(text, ch))[i] = Unquotes(quote, text)[i]
<1> DEFINE n == Len(text)
           longer == Append(text, ch)
<1>1. /\ n \in Nat /\ longer \in Seq(Char) /\ Len(longer) = n + 1
      /\ \A i \in 1..n : longer[i] = text[i]
  OBVIOUS
<1> HIDE DEF longer
<1>2. Unquotes(quote, longer)[0] = Unquotes(quote, text)[0]
  BY <1>1, UnquotesFacts
<1>3. ASSUME NEW i \in 1..n, Unquotes(quote, longer)[i - 1] = Unquotes(quote, text)[i - 1]
      PROVE  Unquotes(quote, longer)[i] = Unquotes(quote, text)[i]
  <2>1. i \in 1..Len(longer) /\ i \in 1..Len(text) /\ longer[i] = text[i]
    BY <1>1
  <2> QED
    BY <1>1, <1>3, <2>1, UnquotesFacts
<1>4. GoAlike(Unquotes(quote, longer), Unquotes(quote, text), n)
  BY <1>2, <1>3 DEF GoAlike
<1>5. \A i \in 0..n : Unquotes(quote, longer)[i] = Unquotes(quote, text)[i]
  BY <1>1, <1>4, LoopsAgree
<1> QED
  BY <1>5 DEF longer

LEMMA UnquoteFacts ==
  ASSUME NEW quote \in Quotes, NEW text \in Seq(Char), NEW ch \in Char
  PROVE  /\ Unquote(quote, text) \in UnquoteStates
         /\ Unquote(quote, <<>>) = UnquoteStart
         /\ Unquote(quote, Append(text, ch)) = Unquoted(quote, Unquote(quote, text), ch)
<1> DEFINE n == Len(text)
           longer == Append(text, ch)
<1>1. /\ n \in Nat /\ longer \in Seq(Char) /\ Len(longer) = n + 1 /\ longer[n + 1] = ch
      /\ \A i \in 1..n : longer[i] = text[i]
  OBVIOUS
<1>2. <<>> \in Seq(Char) /\ Len(<<>>) = 0
  OBVIOUS
<1> HIDE DEF longer
<1>3. Unquote(quote, <<>>) = UnquoteStart
  BY <1>2, UnquotesFacts DEF Unquote
<1>4. Unquote(quote, text) \in UnquoteStates
  <2>1. n \in 0..Len(text)
    BY <1>1
  <2> QED
    BY <2>1, UnquotesFacts DEF Unquote
<1>5. Unquotes(quote, longer)[n] = Unquotes(quote, text)[n]
  <2>1. n \in 0..Len(text)
    BY <1>1
  <2> QED
    BY <2>1, UnquoteStays DEF longer
<1>6. Unquote(quote, longer) = Unquoted(quote, Unquotes(quote, longer)[n], ch)
  <2>1. n + 1 \in 1..Len(longer) /\ (n + 1) - 1 = n
    BY <1>1
  <2> QED
    BY <1>1, <2>1, UnquotesFacts DEF Unquote
<1> QED
  BY <1>1, <1>3, <1>4, <1>5, <1>6 DEF longer, Unquote

LEMMA WriteTyped ==
  ASSUME NEW quote \in Quotes
  PROVE  /\ <<>> \in Seq(Char)
         /\ \A ch \in Char : WrittenAs(ch, quote) \in Seq(Char)
         /\ \A s \in Seq(Char), ch \in Char : s \o WrittenAs(ch, quote) \in Seq(Char)
<1>1. ASSUME NEW ch \in Char PROVE WrittenAs(ch, quote) \in Seq(Char)
  <2>1. /\ <<"'", "'">> \in Seq(Char) /\ <<"\\", ch>> \in Seq(Char) /\ <<"\\", "n">> \in Seq(Char)
        /\ <<"\\", "r">> \in Seq(Char) /\ <<"\\", "t">> \in Seq(Char) /\ <<ch>> \in Seq(Char)
    <3>1. /\ "'" \in Char /\ "\\" \in Char /\ "n" \in Char /\ "r" \in Char /\ "t" \in Char
      BY DEF Char, Quotes
    <3> QED
      BY <3>1
  <2> QED
    BY <2>1 DEF WrittenAs
<1>2. ASSUME NEW s \in Seq(Char), NEW ch \in Char PROVE s \o WrittenAs(ch, quote) \in Seq(Char)
  BY <1>1
<1> QED
  BY <1>1, <1>2

LEMMA WrittenFacts ==
  ASSUME NEW quote \in Quotes, NEW text \in Seq(Char)
  PROVE  /\ Written(text, quote)[0] = <<>>
         /\ \A i \in 1..Len(text) : Written(text, quote)[i] = Written(text, quote)[i - 1] \o WrittenAs(text[i], quote)
         /\ \A i \in 0..Len(text) : Written(text, quote)[i] \in Seq(Char)
<1> DEFINE n == Len(text)
           Body(f) == [i \in 0..n |-> IF i = 0 THEN <<>> ELSE f[i - 1] \o WrittenAs(text[i], quote)]
           Loops(f) == f[0] = <<>> /\ \A i \in 1..n : f[i] = f[i - 1] \o WrittenAs(text[i], quote)
           found == CHOOSE f : f = Body(f)
           next == [p \in Seq(Char) \X (1..n) |-> p[1] \o WrittenAs(text[p[2]], quote)]
<1>1. n \in Nat /\ \A i \in 1..n : text[i] \in Char
  OBVIOUS
<1>2. <<>> \in Seq(Char)
  BY WriteTyped
<1>3. next \in [Seq(Char) \X (1..n) -> Seq(Char)]
  <2>1. ASSUME NEW p \in Seq(Char) \X (1..n) PROVE p[1] \o WrittenAs(text[p[2]], quote) \in Seq(Char)
    BY <1>1, WriteTyped
  <2> QED
    BY <2>1
<1>4. \A s \in Seq(Char), i \in 1..n : next[<<s, i>>] = s \o WrittenAs(text[i], quote)
  OBVIOUS
<1> HIDE DEF next, n
<1>5. PICK f \in [0..n -> Seq(Char)] : IsLoop(f, n, <<>>, next)
  BY <1>1, <1>2, <1>3, LoopExists
<1>6. \A i \in 0..n : f[i] \in Seq(Char)
  BY <1>5
<1>7. Loops(f)
  <2>1. ASSUME NEW i \in 1..n PROVE f[i] = f[i - 1] \o WrittenAs(text[i], quote)
    <3>1. i - 1 \in 0..n
      BY <1>1
    <3>2. f[i - 1] \in Seq(Char)
      BY <1>6, <3>1
    <3> QED
      BY <1>4, <1>5, <3>2 DEF IsLoop
  <2> QED
    BY <1>5, <2>1 DEF IsLoop
<1>8. f = Body(f)
  <2>1. ASSUME NEW i \in 0..n PROVE f[i] = IF i = 0 THEN <<>> ELSE f[i - 1] \o WrittenAs(text[i], quote)
    <3>1. i = 0 \/ i \in 1..n
      BY <1>1
    <3> QED
      BY <1>7, <3>1
  <2>2. f = [i \in 0..n |-> f[i]]
    BY <1>5
  <2> HIDE DEF Loops
  <2>3. [i \in 0..n |-> f[i]] = Body(f)
    BY <2>1
  <2> QED
    BY <2>2, <2>3
<1>9. found = Body(found)
  <2>1. \E g : g = Body(g)
    BY <1>8
  <2> HIDE DEF Body
  <2> QED
    BY <2>1
<1>10. Written(text, quote) = found
  BY DEF Written, n
<1> HIDE DEF found
<1>11. Loops(found)
  <2>1. \A i \in 0..n : found[i] = IF i = 0 THEN <<>> ELSE found[i - 1] \o WrittenAs(text[i], quote)
    BY <1>9
  <2>2. 0 \in 0..n /\ \A i \in 1..n : i \in 0..n /\ i # 0
    BY <1>1
  <2> QED
    BY <2>1, <2>2
<1>12. \A i \in 0..n : found[i] = f[i]
  <2>1. GoAlike(found, f, n)
    BY <1>7, <1>11 DEF GoAlike
  <2> QED
    BY <1>1, <2>1, LoopsAgree
<1> QED
  BY <1>6, <1>10, <1>11, <1>12 DEF n

\* What such a loop finds in a text, and in a text with one more character.
Write(text, quote) == Written(text, quote)[Len(text)]

LEMMA WriteStays ==
  ASSUME NEW quote \in Quotes, NEW text \in Seq(Char), NEW ch \in Char
  PROVE  \A i \in 0..Len(text) : Written(Append(text, ch), quote)[i] = Written(text, quote)[i]
<1> DEFINE n == Len(text)
           longer == Append(text, ch)
<1>1. /\ n \in Nat /\ longer \in Seq(Char) /\ Len(longer) = n + 1
      /\ \A i \in 1..n : longer[i] = text[i]
  OBVIOUS
<1> HIDE DEF longer
<1>2. Written(longer, quote)[0] = Written(text, quote)[0]
  BY <1>1, WrittenFacts
<1>3. ASSUME NEW i \in 1..n, Written(longer, quote)[i - 1] = Written(text, quote)[i - 1]
      PROVE  Written(longer, quote)[i] = Written(text, quote)[i]
  <2>1. i \in 1..Len(longer) /\ i \in 1..Len(text) /\ longer[i] = text[i]
    BY <1>1
  <2> QED
    BY <1>1, <1>3, <2>1, WrittenFacts
<1>4. GoAlike(Written(longer, quote), Written(text, quote), n)
  BY <1>2, <1>3 DEF GoAlike
<1>5. \A i \in 0..n : Written(longer, quote)[i] = Written(text, quote)[i]
  BY <1>1, <1>4, LoopsAgree
<1> QED
  BY <1>5 DEF longer

LEMMA WriteFacts ==
  ASSUME NEW quote \in Quotes, NEW text \in Seq(Char), NEW ch \in Char
  PROVE  /\ Write(text, quote) \in Seq(Char)
         /\ Write(<<>>, quote) = <<>>
         /\ Write(Append(text, ch), quote) = Write(text, quote) \o WrittenAs(ch, quote)
<1> DEFINE n == Len(text)
           longer == Append(text, ch)
<1>1. /\ n \in Nat /\ longer \in Seq(Char) /\ Len(longer) = n + 1 /\ longer[n + 1] = ch
      /\ \A i \in 1..n : longer[i] = text[i]
  OBVIOUS
<1>2. <<>> \in Seq(Char) /\ Len(<<>>) = 0
  OBVIOUS
<1> HIDE DEF longer
<1>3. Write(<<>>, quote) = <<>>
  BY <1>2, WrittenFacts DEF Write
<1>4. Write(text, quote) \in Seq(Char)
  <2>1. n \in 0..Len(text)
    BY <1>1
  <2> QED
    BY <2>1, WrittenFacts DEF Write
<1>5. Written(longer, quote)[n] = Written(text, quote)[n]
  <2>1. n \in 0..Len(text)
    BY <1>1
  <2> QED
    BY <2>1, WriteStays DEF longer
<1>6. Write(longer, quote) = Written(longer, quote)[n] \o WrittenAs(ch, quote)
  <2>1. n + 1 \in 1..Len(longer) /\ (n + 1) - 1 = n
    BY <1>1
  <2> QED
    BY <1>1, <2>1, WrittenFacts DEF Write
<1> QED
  BY <1>1, <1>3, <1>4, <1>5, <1>6 DEF longer, Write

-----------------------------------------------------------------------------
(* Quoted texts: written as characters and pairs, read as what they mean *)

LEMMA WrittenIs ==
  ASSUME NEW quote \in Quotes, NEW ch
  PROVE  \/ ch \notin {First(quote), quote} /\ WrittenAs(ch, quote) = <<ch>>
         \/ \E d \in Second(quote) :
              Escape(d) = ch /\ WrittenAs(ch, quote) = <<First(quote), d>>
<1>1. CASE quote = "'"
  BY <1>1 DEF First, Second, Escape, WrittenAs
<1>2. CASE quote = "\""
  BY <1>2 DEF First, Second, Escape, WrittenAs
<1> QED
  BY <1>1, <1>2 DEF Quotes

LEMMA PairIsWritten ==
  ASSUME NEW quote \in Quotes, NEW d \in Second(quote)
  PROVE  WrittenAs(Escape(d), quote) = <<First(quote), d>>
<1>1. CASE quote = "'"
  BY <1>1 DEF First, Second, Escape, WrittenAs
<1>2. CASE quote = "\""
  BY <1>2 DEF First, Second, Escape, WrittenAs
<1> QED
  BY <1>1, <1>2 DEF Quotes

LEMMA CharIsWritten ==
  ASSUME NEW quote \in Quotes, NEW ch, ch \notin {First(quote), quote}, ch \notin Controls
  PROVE  WrittenAs(ch, quote) = <<ch>>
BY DEF Quotes, First, Controls, WrittenAs

LEMMA MarksAreChars ==
  /\ Quotes \subseteq Char
  /\ \A quote \in Quotes : First(quote) \in Char /\ Second(quote) \subseteq Char
BY DEF Char, Quotes, First, Second

LEMMA Appended ==
  ASSUME NEW s \in Seq(Char), NEW a \in Char, NEW b \in Char
  PROVE  s \o <<a>> = Append(s, a) /\ s \o <<a, b>> = Append(Append(s, a), b)
OBVIOUS

\* All is well, and no pair has begun, or one has.
NoPair(v) == [value |-> v, pair |-> FALSE, ok |-> TRUE]
InPair(v) == [value |-> v, pair |-> TRUE, ok |-> TRUE]

\* A character of its own, and the two of a pair.
LEMMA UnquotedIs ==
  ASSUME NEW quote, NEW v, NEW ch
  PROVE  /\ ch \notin {First(quote), quote} =>
              Unquoted(quote, NoPair(v), ch)
                = NoPair(Append(v, ch))
         /\ Unquoted(quote, NoPair(v), First(quote))
              = InPair(v)
         /\ ch \in Second(quote) =>
              Unquoted(quote, InPair(v), ch)
                = NoPair(Append(v, Escape(ch)))
BY DEF Unquoted, NoPair, InPair

\* What is written is read back, and ends between two pairs.
LEMMA WrittenIsRead ==
  ASSUME NEW quote \in Quotes, NEW text \in Seq(Char)
  PROVE  Unquote(quote, Write(text, quote)) = NoPair(text)
<1> DEFINE Is(s) == Unquote(quote, Write(s, quote)) = NoPair(s)
           P == {s \in Seq(Char) : Is(s)}
<1>1. <<>> \in P
  <2>1. <<>> \in Seq(Char) /\ quote \in Char
    BY MarksAreChars
  <2>2. Write(<<>>, quote) = <<>> /\ Unquote(quote, <<>>) = UnquoteStart
    BY <2>1, WriteFacts, UnquoteFacts
  <2> QED
    BY <2>1, <2>2 DEF UnquoteStart, NoPair
<1>2. ASSUME NEW s \in Seq(Char), NEW ch \in Char, s \in P PROVE Append(s, ch) \in P
  <2> DEFINE w == Write(s, quote)
  <2>1. w \in Seq(Char) /\ Write(Append(s, ch), quote) = w \o WrittenAs(ch, quote)
    BY WriteFacts
  <2>2. Unquote(quote, w) = NoPair(s)
    BY <1>2
  <2> HIDE DEF w
  <2>3. ASSUME ch \notin {First(quote), quote}, WrittenAs(ch, quote) = <<ch>>
        PROVE  Is(Append(s, ch))
    <3>1. Unquote(quote, Append(w, ch)) = Unquoted(quote, Unquote(quote, w), ch)
      BY <2>1, UnquoteFacts
    <3>2. Unquoted(quote, Unquote(quote, w), ch)
            = NoPair(Append(s, ch))
      BY <2>2, <2>3, UnquotedIs
    <3>3. Write(Append(s, ch), quote) = Append(w, ch)
      BY <2>1, <2>3, Appended
    <3> QED
      BY <3>1, <3>2, <3>3
  <2>4. ASSUME NEW d \in Second(quote), Escape(d) = ch, WrittenAs(ch, quote) = <<First(quote), d>>
        PROVE  Is(Append(s, ch))
    <3>1. d \in Char /\ First(quote) \in Char /\ Append(w, First(quote)) \in Seq(Char)
      BY <2>1, MarksAreChars
    <3>2. Write(Append(s, ch), quote) = Append(Append(w, First(quote)), d)
      BY <2>1, <2>4, <3>1, Appended
    <3>3. /\ Unquote(quote, Append(w, First(quote))) = Unquoted(quote, Unquote(quote, w), First(quote))
          /\ Unquote(quote, Append(Append(w, First(quote)), d))
               = Unquoted(quote, Unquote(quote, Append(w, First(quote))), d)
      BY <2>1, <3>1, UnquoteFacts
    <3>4. Unquoted(quote, Unquote(quote, w), First(quote)) = InPair(s)
      BY <2>2, UnquotedIs
    <3>5. Unquoted(quote, InPair(s), d)
            = NoPair(Append(s, ch))
      BY <2>4, UnquotedIs
    <3> QED
      BY <3>2, <3>3, <3>4, <3>5
  <2>5. Is(Append(s, ch))
    BY <2>3, <2>4, WrittenIs
  <2> QED
    BY <2>5
<1>3. Seq(Char) \subseteq P
  <2> HIDE DEF P
  <2> QED
    BY <1>1, <1>2, OfAllTexts
<1> QED
  BY <1>3

\* What is read without an escape in its place is what would be written.
LEMMA ReadIsWritten ==
  ASSUME NEW quote \in Quotes, NEW inner \in Seq(Char),
         \A i \in DOMAIN inner : inner[i] \notin Controls,
         Unquote(quote, inner).ok, ~Unquote(quote, inner).pair
  PROVE  Write(Unquote(quote, inner).value, quote) = inner
<1> DEFINE Is(s) == LET end == Unquote(quote, s)
                    IN end.ok /\ (\A i \in DOMAIN s : s[i] \notin Controls) =>
                         s = IF end.pair THEN Append(Write(end.value, quote), First(quote))
                             ELSE Write(end.value, quote)
           P == {s \in Seq(Char) : Is(s)}
<1>1. <<>> \in P
  <2>1. <<>> \in Seq(Char) /\ quote \in Char
    BY MarksAreChars
  <2>2. Write(<<>>, quote) = <<>> /\ Unquote(quote, <<>>) = UnquoteStart
    BY <2>1, WriteFacts, UnquoteFacts
  <2>3. Is(<<>>)
    BY <2>2 DEF UnquoteStart
  <2> QED
    BY <2>1, <2>3
<1>2. ASSUME NEW s \in Seq(Char), NEW ch \in Char, s \in P PROVE Append(s, ch) \in P
  <2> DEFINE e == Unquote(quote, s)
             after == Unquoted(quote, e, ch)
  <2>1. Unquote(quote, Append(s, ch)) = after /\ e \in UnquoteStates
    BY UnquoteFacts
  <2>2. Is(s)
    BY <1>2
  <2>3. /\ \A i \in DOMAIN s : i \in DOMAIN Append(s, ch) /\ Append(s, ch)[i] = s[i]
        /\ Len(s) + 1 \in DOMAIN Append(s, ch) /\ Append(s, ch)[Len(s) + 1] = ch
        /\ Append(s, ch) \in Seq(Char)
    OBVIOUS
  <2>4. e.value \in Seq(Char) /\ e.pair \in BOOLEAN /\ e.ok \in BOOLEAN
    BY <2>1 DEF UnquoteStates
  <2>5. ASSUME after.ok, \A i \in DOMAIN Append(s, ch) : Append(s, ch)[i] \notin Controls
        PROVE  Append(s, ch) = IF after.pair THEN Append(Write(after.value, quote), First(quote))
                               ELSE Write(after.value, quote)
    <3>1. e.ok
      BY <2>1, <2>4, <2>5 DEF Unquoted, UnquoteStates
    <3>2. ch \notin Controls /\ \A i \in DOMAIN s : s[i] \notin Controls
      BY <2>3, <2>5
    <3>3. s = IF e.pair THEN Append(Write(e.value, quote), First(quote)) ELSE Write(e.value, quote)
      BY <2>2, <3>1, <3>2
    <3>4. /\ Write(e.value, quote) \in Seq(Char) /\ First(quote) \in Char
          /\ \A c \in Char : Write(Append(e.value, c), quote)
                               = Write(e.value, quote) \o WrittenAs(c, quote)
      BY <2>4, WriteFacts, MarksAreChars
    <3> HIDE DEF e
    <3>5. CASE e.pair
      <4>1. ch \in Second(quote)
        BY <2>1, <2>4, <2>5, <3>5 DEF Unquoted, UnquoteStates
      <4>2. after.value = Append(e.value, Escape(ch)) /\ ~after.pair
        BY <2>1, <3>5, <4>1 DEF Unquoted, UnquoteStates
      <4>3. Escape(ch) \in Char
        BY DEF Escape, Char, Controls
      <4>4. Write(after.value, quote) = Write(e.value, quote) \o <<First(quote), ch>>
        BY <3>4, <4>1, <4>2, <4>3, PairIsWritten
      <4>5. Write(after.value, quote) = Append(Append(Write(e.value, quote), First(quote)), ch)
        BY <3>4, <4>4, Appended
      <4> QED
        BY <3>3, <3>5, <4>2, <4>5
    <3>6. CASE ~e.pair /\ ch = First(quote)
      <4>1. after.value = e.value /\ after.pair
        BY <2>1, <3>6 DEF Unquoted, UnquoteStates
      <4> QED
        BY <3>3, <3>6, <4>1
    <3>7. CASE ~e.pair /\ ch # First(quote)
      <4>1. ch # quote
        BY <2>1, <2>5, <3>7 DEF Unquoted, UnquoteStates
      <4>2. after.value = Append(e.value, ch) /\ ~after.pair
        BY <2>1, <3>7, <4>1 DEF Unquoted, UnquoteStates
      <4>3. Write(after.value, quote) = Write(e.value, quote) \o <<ch>>
        BY <3>2, <3>4, <3>7, <4>1, <4>2, CharIsWritten
      <4>4. Write(after.value, quote) = Append(Write(e.value, quote), ch)
        BY <3>4, <4>3, Appended
      <4> QED
        BY <3>3, <3>7, <4>2, <4>4
    <3> QED
      BY <2>4, <3>5, <3>6, <3>7
  <2>6. Is(Append(s, ch))
    BY <2>1, <2>5
  <2> QED
    BY <2>3, <2>6
<1>3. Seq(Char) \subseteq P
  <2> HIDE DEF P
  <2> QED
    BY <1>1, <1>2, OfAllTexts
<1>4. Is(inner)
  BY <1>3
<1> QED
  BY <1>4

-----------------------------------------------------------------------------
(* What the scans see of a written text: neither a colon nor a number sign *)

IsOutside(q) == ~q.single /\ ~q.double

\* Where the scan sees ch.
Marks(text, ch) == {i \in Outside(text) : text[i] = ch}

LEMMA MarksNext ==
  ASSUME NEW text \in Seq(Char), NEW ch \in Char, NEW mark
  PROVE  Marks(Append(text, ch), mark)
           = Marks(text, mark)
               \union IF IsOutside(Scan(text)) /\ ch = mark THEN {Len(text) + 1} ELSE {}
<1> DEFINE n == Len(text)
           longer == Append(text, ch)
<1>1. /\ n \in Nat /\ DOMAIN longer = 1..(n + 1) /\ DOMAIN text = 1..n
      /\ longer[n + 1] = ch /\ \A i \in 1..n : longer[i] = text[i]
  OBVIOUS
<1>2. \A i \in 0..n : Scans(longer)[i] = Scans(text)[i]
  BY ScanStays
<1>3. Scan(text) = Scans(text)[n]
  BY DEF Scan
<1>4. \A s : Marks(s, mark) = {i \in DOMAIN s : IsOutside(Scans(s)[i - 1]) /\ s[i] = mark}
  BY DEF Marks, Outside, IsOutside
<1> HIDE DEF n, longer
<1>5. ASSUME NEW i \in 1..n
      PROVE  i \in Marks(longer, mark) <=> i \in Marks(text, mark)
  <2>1. i \in 1..(n + 1) /\ i - 1 \in 0..n
    BY <1>1
  <2> QED
    BY <1>1, <1>2, <1>4, <2>1
<1>6. n + 1 \in Marks(longer, mark) <=> IsOutside(Scan(text)) /\ ch = mark
  <2>1. n + 1 \in 1..(n + 1) /\ (n + 1) - 1 = n /\ n \in 0..n
    BY <1>1
  <2> QED
    BY <1>1, <1>2, <1>3, <1>4, <2>1
<1>7. /\ Marks(longer, mark) \subseteq 1..(n + 1) /\ Marks(text, mark) \subseteq 1..n
      /\ \A i \in 1..(n + 1) : i \in 1..n \/ i = n + 1
      /\ n + 1 \notin 1..n
  BY <1>1, <1>4
<1> QED
  BY <1>5, <1>6, <1>7 DEF n, longer

LEMMA MarksSame ==
  ASSUME NEW text \in Seq(Char), NEW ch \in Char, NEW mark, ~IsOutside(Scan(text)) \/ ch # mark
  PROVE  Marks(Append(text, ch), mark) = Marks(text, mark)
<1>1. ~(IsOutside(Scan(text)) /\ ch = mark)
  OBVIOUS
<1>2. (IF IsOutside(Scan(text)) /\ ch = mark THEN {Len(text) + 1} ELSE {}) = {}
  BY <1>1
<1>3. Marks(text, mark) \union {} = Marks(text, mark)
  OBVIOUS
<1> QED
  BY <1>2, <1>3, MarksNext

InQuotes(quote) == [single |-> quote = "'", double |-> quote = "\"", escaped |-> FALSE]

LEMMA ScanOfQuotes ==
  ASSUME NEW quote \in Quotes
  PROVE  /\ Scanned(ScanStart, quote) = InQuotes(quote)
         /\ Scanned(InQuotes(quote), quote) = ScanStart
         /\ \A ch : ch \notin {First(quote), quote} =>
              Scanned(InQuotes(quote), ch) = InQuotes(quote)
         /\ \A d \in Second(quote) :
              Scanned(Scanned(InQuotes(quote), First(quote)), d) = InQuotes(quote)
<1>1. CASE quote = "'"
  BY <1>1 DEF Scanned, ScanStart, InQuotes, First, Second
<1>2. CASE quote = "\""
  BY <1>2 DEF Scanned, ScanStart, InQuotes, First, Second
<1> QED
  BY <1>1, <1>2 DEF Quotes

LEMMA InsideQuotes ==
  ASSUME NEW quote \in Quotes
  PROVE  /\ IsOutside(ScanStart) /\ ~IsOutside(InQuotes(quote))
         /\ quote \notin {":", "#"} /\ First(quote) \notin {":", "#"}
         /\ quote = "\"" => ~IsOutside(Scanned(InQuotes(quote), First(quote)))
         /\ quote = "'" => Second(quote) \cap {":", "#"} = {}
<1>1. CASE quote = "'"
  BY <1>1 DEF Scanned, ScanStart, InQuotes, First, Second, IsOutside
<1>2. CASE quote = "\""
  BY <1>2 DEF Scanned, ScanStart, InQuotes, First, Second, IsOutside
<1> QED
  BY <1>1, <1>2 DEF Quotes

LEMMA WrittenIsHidden ==
  ASSUME NEW before \in Seq(Char), NEW quote \in Quotes, Scan(before) = InQuotes(quote),
         NEW text \in Seq(Char), NEW mark \in {":", "#"}
  PROVE  LET line == before \o Write(text, quote)
         IN line \in Seq(Char) /\ Scan(line) = InQuotes(quote) /\ Marks(line, mark) = Marks(before, mark)
<1> DEFINE Is(s) == LET line == before \o Write(s, quote)
                    IN line \in Seq(Char) /\ Scan(line) = InQuotes(quote) /\ Marks(line, mark) = Marks(before, mark)
           P == {s \in Seq(Char) : Is(s)}
<1>1. <<>> \in P
  <2>1. <<>> \in Seq(Char) /\ quote \in Char /\ before \o <<>> = before
    BY MarksAreChars
  <2>2. Write(<<>>, quote) = <<>>
    BY <2>1, WriteFacts
  <2>3. Is(<<>>)
    BY <2>1, <2>2
  <2> QED
    BY <2>1, <2>3
<1>2. ASSUME NEW s \in Seq(Char), NEW ch \in Char, s \in P PROVE Append(s, ch) \in P
  <2> DEFINE w == Write(s, quote)
             line == before \o w
             more == before \o Write(Append(s, ch), quote)
  <2>1. w \in Seq(Char) /\ Write(Append(s, ch), quote) = w \o WrittenAs(ch, quote)
        /\ WrittenAs(ch, quote) \in Seq(Char)
    BY WriteFacts, WriteTyped
  <2>2. line \in Seq(Char) /\ Scan(line) = InQuotes(quote) /\ Marks(line, mark) = Marks(before, mark)
    BY <1>2
  <2>3. more = line \o WrittenAs(ch, quote)
    <3> HIDE DEF w
    <3>1. before \o (w \o WrittenAs(ch, quote)) = (before \o w) \o WrittenAs(ch, quote)
      BY <2>1
    <3> QED
      BY <2>1, <3>1
  <2> HIDE DEF w, line, more
  <2>4. ASSUME ch \notin {First(quote), quote}, WrittenAs(ch, quote) = <<ch>>
        PROVE  more \in Seq(Char) /\ Scan(more) = InQuotes(quote) /\ Marks(more, mark) = Marks(before, mark)
    <3>1. more = Append(line, ch)
      BY <2>2, <2>3, <2>4, Appended
    <3>2. more \in Seq(Char)
      BY <2>2, <3>1
    <3>3. Scan(more) = InQuotes(quote)
      BY <2>2, <2>4, <3>1, ScanFacts, ScanOfQuotes
    <3>4. Marks(more, mark) = Marks(line, mark)
      BY <2>2, <3>1, MarksSame, InsideQuotes
    <3> QED
      BY <2>2, <3>2, <3>3, <3>4
  <2>5. ASSUME NEW d \in Second(quote), WrittenAs(ch, quote) = <<First(quote), d>>
        PROVE  more \in Seq(Char) /\ Scan(more) = InQuotes(quote) /\ Marks(more, mark) = Marks(before, mark)
    <3> DEFINE half == Append(line, First(quote))
    <3>1. d \in Char /\ First(quote) \in Char
      BY MarksAreChars
    <3>2. more = Append(half, d) /\ half \in Seq(Char)
      BY <2>2, <2>3, <2>5, <3>1, Appended
    <3>3. Scan(half) = Scanned(InQuotes(quote), First(quote))
      BY <2>2, <3>1, ScanFacts
    <3>4. Marks(half, mark) = Marks(line, mark)
      BY <2>2, <3>1, MarksSame, InsideQuotes
    <3> HIDE DEF half
    <3>5. Scan(more) = InQuotes(quote)
      BY <3>1, <3>2, <3>3, ScanFacts, ScanOfQuotes
    <3>6. ~IsOutside(Scan(half)) \/ d # mark
      BY <3>3, InsideQuotes DEF Quotes
    <3>7. Marks(more, mark) = Marks(half, mark)
      BY <3>1, <3>2, <3>6, MarksSame
    <3>8. more \in Seq(Char)
      BY <3>1, <3>2
    <3> QED
      BY <2>2, <3>4, <3>5, <3>7, <3>8
  <2>6. Is(Append(s, ch))
    BY <2>4, <2>5, WrittenIs DEF more
  <2> QED
    BY <2>6
<1>3. Seq(Char) \subseteq P
  <2> HIDE DEF P
  <2> QED
    BY <1>1, <1>2, OfAllTexts
<1> QED
  BY <1>3

\* A text between quotes: the scan is outside again behind it, and has seen nothing of it.
LEMMA QuotesHide ==
  ASSUME NEW before \in Seq(Char), Scan(before) = ScanStart,
         NEW quote \in Quotes, NEW text \in Seq(Char), NEW mark \in {":", "#"}
  PROVE  LET line == before \o Writes(text, quote)
         IN line \in Seq(Char) /\ Scan(line) = ScanStart /\ Marks(line, mark) = Marks(before, mark)
<1> DEFINE open == Append(before, quote)
           w == Write(text, quote)
           inside == open \o w
<1>1. quote \in Char /\ open \in Seq(Char) /\ w \in Seq(Char)
  <2>1. quote \in Char
    BY MarksAreChars
  <2> QED
    BY <2>1, WriteFacts
<1>2. Scan(open) = InQuotes(quote)
  BY <1>1, ScanFacts, ScanOfQuotes
<1>3. Marks(open, mark) = Marks(before, mark)
  <2>1. quote # mark
    BY InsideQuotes
  <2> QED
    BY <1>1, <2>1, MarksSame
<1>4. before \o Writes(text, quote) = Append(inside, quote)
  <2>1. Writes(text, quote) = <<quote>> \o w \o <<quote>>
    BY DEF Writes, Write
  <2> HIDE DEF w
  <2>2. before \o (<<quote>> \o w \o <<quote>>) = Append((Append(before, quote) \o w), quote)
    BY <1>1
  <2> QED
    BY <2>1, <2>2
<1> HIDE DEF open
<1>5. inside \in Seq(Char) /\ Scan(inside) = InQuotes(quote) /\ Marks(inside, mark) = Marks(open, mark)
  BY <1>1, <1>2, WrittenIsHidden
<1> HIDE DEF inside
<1>6. Scan(Append(inside, quote)) = ScanStart /\ Append(inside, quote) \in Seq(Char)
  BY <1>1, <1>5, ScanFacts, ScanOfQuotes
<1>7. Marks(Append(inside, quote), mark) = Marks(inside, mark)
  BY <1>1, <1>5, MarksSame, InsideQuotes
<1> QED
  BY <1>3, <1>4, <1>5, <1>6, <1>7

\* A part of a text.
LEMMA SliceIs ==
  ASSUME NEW T, NEW text \in Seq(T), NEW a \in Nat, NEW b \in Nat, 1 <= a, a <= b + 1, b <= Len(text)
  PROVE  /\ SubSeq(text, a, b) \in Seq(T) /\ Len(SubSeq(text, a, b)) = (b - a) + 1
         /\ \A i \in 1..((b - a) + 1) : SubSeq(text, a, b)[i] = text[(a + i) - 1]
<1>1. \A i \in a..b : text[i] \in T
  OBVIOUS
<1>2. /\ SubSeq(text, a, b) \in Seq(T)
      /\ Len(SubSeq(text, a, b)) = IF a <= b THEN b - a + 1 ELSE 0
      /\ \A i \in 1 .. b - a + 1 : SubSeq(text, a, b)[i] = text[a + i - 1]
  BY <1>1, SubSeqProperties
<1> QED
  BY <1>2

-----------------------------------------------------------------------------
(* Quoted strings as a whole *)

LEMMA WritesTyped ==
  ASSUME NEW quote \in Quotes, NEW text \in Seq(Char)
  PROVE  LET raw == Writes(text, quote)
         IN /\ raw \in Seq(Char) /\ Len(raw) = Len(Write(text, quote)) + 2
            /\ Len(Write(text, quote)) \in Nat
            /\ raw[1] = quote /\ raw[Len(raw)] = quote
            /\ SubSeq(raw, 2, Len(raw) - 1) = Write(text, quote)
<1> DEFINE w == Write(text, quote)
<1>1. quote \in Char /\ w \in Seq(Char)
  <2>1. quote \in Char
    BY MarksAreChars
  <2> QED
    BY <2>1, WriteFacts
<1>2. Writes(text, quote) = <<quote>> \o w \o <<quote>>
  BY DEF Writes, Write
<1> HIDE DEF w
<1> DEFINE raw == <<quote>> \o w \o <<quote>>
<1>3. /\ raw \in Seq(Char) /\ Len(raw) = Len(w) + 2 /\ Len(w) \in Nat
      /\ raw[1] = quote /\ raw[Len(raw)] = quote /\ \A i \in 1..Len(w) : raw[i + 1] = w[i]
  BY <1>1
<1> HIDE DEF raw
<1>4. SubSeq(raw, 2, Len(raw) - 1) = w
  <2> DEFINE middle == SubSeq(raw, 2, Len(raw) - 1)
  <2>1. middle \in Seq(Char) /\ Len(middle) = Len(w) /\ \A i \in 1..Len(w) : middle[i] = raw[i + 1]
    BY <1>3
  <2> HIDE DEF middle
  <2>2. \A i \in 1..Len(w) : middle[i] = w[i]
    BY <1>3, <2>1
  <2>3. middle = w
    BY <1>1, <2>1, <2>2, SeqEqual
  <2> QED
    BY <2>3 DEF middle
<1> QED
  BY <1>2, <1>3, <1>4 DEF w, raw

\* What is written between quotes is read as it was meant.
LEMMA QuotedIsRead ==
  ASSUME NEW quote \in Quotes, NEW text \in Seq(Char)
  PROVE  ParseQuotedString(Writes(text, quote)) = Quoted(text)
<1> DEFINE raw == Writes(text, quote)
           w == Write(text, quote)
<1>1. /\ raw \in Seq(Char) /\ Len(raw) = Len(w) + 2 /\ Len(w) \in Nat
      /\ raw[1] = quote /\ raw[Len(raw)] = quote /\ SubSeq(raw, 2, Len(raw) - 1) = w
  BY WritesTyped
<1>2. Unquotes(quote, w)[Len(w)] = NoPair(text)
  BY WrittenIsRead DEF Unquote
<1> HIDE DEF raw, w
<1>3. raw # <<>> /\ Head(raw) = quote /\ Last(raw) = quote /\ ~(Len(raw) < 2)
  BY <1>1 DEF Last
<1>4. ParseQuotedString(raw) = DecodeQuotedString(quote, w)
  BY <1>1, <1>3 DEF ParseQuotedString
<1>5. DecodeQuotedString(quote, w) = Quoted(text)
  BY <1>2 DEF DecodeQuotedString, NoPair
<1> QED
  BY <1>4, <1>5 DEF raw

\* What is between the first character and the last.
LEMMA InnerIs ==
  ASSUME NEW T, NEW raw \in Seq(T), Len(raw) >= 2
  PROVE  LET inner == SubSeq(raw, 2, Len(raw) - 1)
         IN /\ inner \in Seq(T) /\ Len(inner) = Len(raw) - 2
            /\ \A i \in 1..(Len(raw) - 2) : inner[i] = raw[i + 1]
<1>1. \A n \in Nat : n >= 2 =>
         /\ 2 \in Nat /\ n - 1 \in Nat /\ 1 <= 2 /\ 2 <= (n - 1) + 1 /\ n - 1 <= n
         /\ ((n - 1) - 2) + 1 = n - 2 /\ \A i \in 1..(n - 2) : (2 + i) - 1 = i + 1
  OBVIOUS
<1>2. /\ 2 \in Nat /\ Len(raw) - 1 \in Nat /\ 1 <= 2 /\ 2 <= (Len(raw) - 1) + 1
      /\ Len(raw) - 1 <= Len(raw)
      /\ ((Len(raw) - 1) - 2) + 1 = Len(raw) - 2
      /\ \A i \in 1..(Len(raw) - 2) : (2 + i) - 1 = i + 1
  <2>1. Len(raw) \in Nat
    OBVIOUS
  <2> QED
    BY <1>1, <2>1
<1> DEFINE inner == SubSeq(raw, 2, Len(raw) - 1)
<1>3. /\ inner \in Seq(T) /\ Len(inner) = ((Len(raw) - 1) - 2) + 1
      /\ \A i \in 1..(((Len(raw) - 1) - 2) + 1) : inner[i] = raw[(2 + i) - 1]
  BY <1>2, SliceIs
<1> QED
  BY <1>2, <1>3

\* What is read as a quoted text, without control characters, is what is written for it.
LEMMA QuotedIsWritten ==
  ASSUME NEW raw \in Seq(Char), Starts(raw, Quotes), ToSet(raw) \cap Controls = {},
         ParseQuotedString(raw).kind # "bad"
  PROVE  \E text \in Seq(Char) : /\ ParseQuotedString(raw) = Quoted(text)
                                 /\ raw = Writes(text, Head(raw))
<1> DEFINE quote == Head(raw)
           inner == SubSeq(raw, 2, Len(raw) - 1)
           end == Unquote(quote, inner)
           n == Len(raw)
<1>1. raw # <<>> /\ quote \in Quotes /\ n \in Nat /\ raw[1] = quote
  BY DEF Starts
<1>2. n >= 2 /\ raw[n] = quote
  BY <1>1 DEF ParseQuotedString, Bad, Last
<1>3. inner \in Seq(Char) /\ Len(inner) = n - 2 /\ \A i \in 1..(n - 2) : inner[i] = raw[i + 1]
  BY <1>1, <1>2, InnerIs
<1>4. ParseQuotedString(raw) = DecodeQuotedString(quote, inner)
  BY <1>1, <1>2 DEF ParseQuotedString, Last
<1>5. end \in UnquoteStates
  <2> HIDE DEF inner, quote
  <2>1. quote \in Char
    BY <1>1, MarksAreChars
  <2> QED
    BY <1>1, <1>3, <2>1, UnquoteFacts
<1> HIDE DEF inner, quote
<1>6. end.ok /\ ~end.pair /\ ParseQuotedString(raw) = Quoted(end.value)
  BY <1>4 DEF DecodeQuotedString, Unquote, Bad
<1>7. \A i \in DOMAIN inner : inner[i] \notin Controls
  <2>1. ASSUME NEW i \in 1..(n - 2) PROVE raw[i + 1] \notin Controls
    BY <1>1 DEF ToSet
  <2> QED
    BY <1>1, <1>2, <1>3, <2>1
<1>8. Write(end.value, quote) = inner
  BY <1>1, <1>3, <1>6, <1>7, ReadIsWritten
<1>9. Writes(end.value, quote) = <<quote>> \o inner \o <<quote>>
  BY <1>8 DEF Writes, Write
<1>10. <<quote>> \o inner \o <<quote>> = raw
  <2> DEFINE r == <<quote>> \o inner \o <<quote>>
  <2>1. quote \in Char
    BY <1>1, MarksAreChars
  <2>2. /\ r \in Seq(Char) /\ Len(r) = n /\ r[1] = quote /\ r[n] = quote
        /\ \A i \in 1..(n - 2) : r[i + 1] = inner[i]
    BY <1>1, <1>2, <1>3, <2>1
  <2> HIDE DEF r
  <2>3. ASSUME NEW i \in 1..n PROVE r[i] = raw[i]
    <3>1. CASE i \in {1, n}
      BY <1>1, <1>2, <2>2, <3>1
    <3>2. CASE i \notin {1, n}
      <4>1. i - 1 \in 1..(n - 2) /\ (i - 1) + 1 = i
        BY <1>1, <1>2, <3>2
      <4> QED
        BY <1>3, <2>2, <4>1
    <3> QED
      BY <3>1, <3>2
  <2>4. r = raw
    BY <1>1, <2>2, <2>3, SeqEqual
  <2> QED
    BY <2>4 DEF r
<1>11. end.value \in Seq(Char)
  BY <1>5 DEF UnquoteStates
<1> QED
  BY <1>6, <1>9, <1>10, <1>11 DEF quote

-----------------------------------------------------------------------------
(* What is left of a text without white space around it *)

LEMMA TrimIs ==
  ASSUME NEW T, NEW text \in Seq(T), NEW a \in 1..Len(text), NEW b \in 1..Len(text),
         text[a] \notin Whitespace, text[b] \notin Whitespace,
         \A i \in 1..Len(text) : text[i] \notin Whitespace => a <= i /\ i <= b
  PROVE  Trim(text) = SubSeq(text, a, b)
<1> DEFINE kept == {i \in DOMAIN text : text[i] \notin Whitespace}
<1>1. DOMAIN text = 1..Len(text) /\ Len(text) \in Nat
  OBVIOUS
<1>2. kept \in SUBSET Nat /\ kept \in SUBSET (0..Len(text)) /\ a \in kept /\ b \in kept
      /\ \A i \in kept : a <= i /\ i <= b
  BY <1>1
<1>3. Trim(text) = SubSeq(text, Min(kept), Max(kept))
  BY <1>2 DEF Trim
<1> HIDE DEF kept
<1>4. kept # {} /\ Min(kept) \in kept /\ \A i \in kept : Min(kept) <= i
  BY <1>2, MinFacts
<1>5. Max(kept) \in kept /\ \A i \in kept : i <= Max(kept)
  BY <1>1, <1>2, MaxFacts
<1>6. Min(kept) <= a /\ a <= Min(kept) /\ b <= Max(kept) /\ Max(kept) <= b
  BY <1>2, <1>4, <1>5
<1>7. Min(kept) \in Nat /\ Max(kept) \in Nat
  BY <1>2, <1>4, <1>5
<1>8. Min(kept) = a /\ Max(kept) = b
  BY <1>6, <1>7
<1> QED
  BY <1>3, <1>8

\* Nothing around it, or one blank before it.
LEMMA TrimSame ==
  ASSUME NEW T, NEW text \in Seq(T), text # <<>>, NEW blank \in T, blank \in Whitespace,
         text[1] \notin Whitespace, text[Len(text)] \notin Whitespace
  PROVE  Trim(text) = text /\ Trim(<<blank>> \o text) = text
<1> DEFINE n == Len(text)
           behind == <<blank>> \o text
<1>1. n \in Nat /\ n >= 1 /\ text[1] \notin Whitespace /\ text[n] \notin Whitespace
  OBVIOUS
<1>2. SubSeq(text, 1, n) = text
  BY SubSeqFull
<1>3. /\ behind \in Seq(T) /\ Len(behind) = n + 1 /\ behind[1] = blank
      /\ \A i \in 1..n : behind[i + 1] = text[i]
  OBVIOUS
<1>4. text \in Seq(T) /\ Len(text) = n
  OBVIOUS
<1> HIDE DEF behind, n
<1>5. Trim(text) = text
  <2>1. 1 \in 1..n /\ n \in 1..n /\ \A i \in 1..n : 1 <= i /\ i <= n
    BY <1>1
  <2> QED
    BY <1>1, <1>2, <1>4, <2>1, TrimIs
<1>6. Trim(behind) = SubSeq(behind, 2, n + 1)
  <2>1. 2 \in 1..(n + 1) /\ n + 1 \in 1..(n + 1) /\ 1 + 1 = 2 /\ 1 \in 1..n /\ n \in 1..n
    BY <1>1
  <2>2. behind[2] \notin Whitespace /\ behind[n + 1] \notin Whitespace
    BY <1>1, <1>3, <2>1
  <2>3. \A i \in 1..(n + 1) : behind[i] \notin Whitespace => 2 <= i /\ i <= n + 1
    <3>1. \A i \in 1..(n + 1) : i = 1 \/ (2 <= i /\ i <= n + 1)
      BY <1>1
    <3> QED
      BY <1>3, <3>1
  <2> QED
    BY <1>3, <2>1, <2>2, <2>3, TrimIs
<1>7. SubSeq(behind, 2, n + 1) = text
  <2> DEFINE rest == SubSeq(behind, 2, n + 1)
  <2>1. 2 \in Nat /\ n + 1 \in Nat /\ 1 <= 2 /\ 2 <= (n + 1) + 1 /\ n + 1 <= n + 1
    BY <1>1
  <2>2. /\ rest \in Seq(T) /\ Len(rest) = ((n + 1) - 2) + 1
        /\ \A i \in 1..(((n + 1) - 2) + 1) : rest[i] = behind[(2 + i) - 1]
    BY <1>3, <2>1, SliceIs
  <2> HIDE DEF rest
  <2>3. ((n + 1) - 2) + 1 = n /\ \A i \in 1..n : (2 + i) - 1 = i + 1
    BY <1>1
  <2>4. Len(rest) = n /\ \A i \in 1..n : rest[i] = text[i]
    BY <1>3, <2>2, <2>3
  <2>5. rest = text
    BY <1>4, <2>2, <2>4, SeqEqual
  <2> QED
    BY <2>5 DEF rest
<1> QED
  BY <1>5, <1>6, <1>7 DEF behind

-----------------------------------------------------------------------------
(* Lines with a single colon outside quotes *)

LEMMA NoMarks ==
  ASSUME NEW mark
  PROVE  Marks(<<>>, mark) = {} /\ <<>> \in Seq(Char)
BY DEF Marks, Outside

LEMMA NoComment ==
  ASSUME NEW text \in Seq(Char), Marks(text, "#") = {}
  PROVE  ~HasUnsupportedInlineComment(text)
BY DEF HasUnsupportedInlineComment, Marks

\* What the splitter looks at, with its names.
Blank == " "
Delimiters(text) == {i \in Marks(text, ":") : i = Len(text) \/ text[i + 1] = Blank}
KeyText(text) == Trim(SubSeq(text, 1, Min(Delimiters(text)) - 1))

LEMMA SplitIs ==
  ASSUME NEW text
  PROVE  LET key == ParseQuotedString(KeyText(text))
             colon == Min(Delimiters(text))
         IN SplitKeyValue(text) =
              IF \/ Delimiters(text) = {} \/ KeyText(text) = <<>> \/ key.kind = "bad"
                 \/ key.kind = "plain" /\ (Min(Marks(text, ":")) < colon \/ UnsupportedKey(key.value))
              THEN NoEntry
              ELSE [ok |-> TRUE, key |-> key.value, raw |-> Trim(SubSeq(text, colon + 1, Len(text)))]
BY DEF SplitKeyValue, Delimiters, KeyText, Marks, Blank

LEMMA MinOfOne == ASSUME NEW d \in Nat PROVE Min({d}) = d /\ ~(d < d) /\ {d} # {}
<1>1. {d} \in SUBSET Nat /\ {d} # {}
  OBVIOUS
<1>2. Min({d}) \in {d}
  BY <1>1, MinFacts
<1> QED
  BY <1>2

LEMMA OneColon ==
  ASSUME NEW text \in Seq(Char), NEW d \in Nat, Marks(text, ":") = {d},
         d = Len(text) \/ text[d + 1] = Blank,
         NEW key, key = ParseQuotedString(Trim(SubSeq(text, 1, d - 1))),
         Trim(SubSeq(text, 1, d - 1)) # <<>>,
         key.kind # "bad", key.kind = "plain" => ~UnsupportedKey(key.value)
  PROVE  SplitKeyValue(text)
           = [ok |-> TRUE, key |-> key.value, raw |-> Trim(SubSeq(text, d + 1, Len(text)))]
<1>1. Delimiters(text) = {d}
  BY DEF Delimiters
<1>2. Min({d}) = d /\ ~(d < d) /\ {d} # {}
  BY MinOfOne
<1>3. KeyText(text) = Trim(SubSeq(text, 1, d - 1))
  BY <1>1, <1>2 DEF KeyText
<1> QED
  BY <1>1, <1>2, <1>3, SplitIs

-----------------------------------------------------------------------------
(* A quoted text as the value of a line, and as its key *)

\* The texts of ValueLine and KeyLine.
ValueText(raw) == <<"k", ":", Blank>> \o raw
KeyOf(raw) == raw \o <<":", Blank, "x">>

LEMMA MarksMore ==
  ASSUME NEW text \in Seq(Char), NEW ch \in Char, IsOutside(Scan(text))
  PROVE  Marks(Append(text, ch), ch) = Marks(text, ch) \union {Len(text) + 1}
<1>1. (IF IsOutside(Scan(text)) /\ ch = ch THEN {Len(text) + 1} ELSE {}) = {Len(text) + 1}
  OBVIOUS
<1> QED
  BY <1>1, MarksNext

LEMMA ThreeBehind ==
  ASSUME NEW T, NEW s \in Seq(T), NEW a \in T, NEW b \in T, NEW c \in T
  PROVE  /\ Append(s, a) \in Seq(T) /\ Append(Append(s, a), b) \in Seq(T)
         /\ Append(Append(Append(s, a), b), c) \in Seq(T)
         /\ Append(Append(Append(s, a), b), c) = s \o <<a, b, c>>
OBVIOUS

LEMMA ThreeChars ==
  ASSUME NEW T, NEW a \in T, NEW b \in T, NEW c \in T
  PROVE  /\ <<>> \in Seq(T) /\ Append(<<>>, a) \in Seq(T) /\ Append(Append(<<>>, a), b) \in Seq(T)
         /\ Len(Append(<<>>, a)) = 1
         /\ Append(Append(Append(<<>>, a), b), c) \in Seq(T)
         /\ Append(Append(Append(<<>>, a), b), c) = <<a, b, c>>
<1>1. <<>> \in Seq(T) /\ Append(<<>>, a) = <<a>> /\ <<a>> \in Seq(T) /\ Len(<<a>>) = 1
  BY EmptySeq
<1>2. <<a, b, c>> \in Seq(T)
  OBVIOUS
<1>3. <<>> \o <<a, b, c>> = <<a, b, c>>
  BY <1>2, ConcatEmptySeq
<1> DEFINE s == <<>>
<1> HIDE DEF s
<1>4. s \in Seq(T)
  BY <1>1 DEF s
<1>5. /\ Append(s, a) \in Seq(T) /\ Append(Append(s, a), b) \in Seq(T)
      /\ Append(Append(Append(s, a), b), c) \in Seq(T)
      /\ Append(Append(Append(s, a), b), c) = s \o <<a, b, c>>
  BY <1>4, ThreeBehind
<1> QED
  BY <1>1, <1>3, <1>5 DEF s

LEMMA FixedChars ==
  /\ "k" \in Char /\ "x" \in Char /\ ":" \in Char /\ Blank \in Char
  /\ Blank \notin {":", "#"} /\ Blank \in Whitespace
BY DEF Char, Blank, Whitespace

LEMMA BeforeValue ==
  LET before == <<"k", ":", Blank>>
  IN before \in Seq(Char) /\ Scan(before) = ScanStart
     /\ Marks(before, ":") = {2} /\ Marks(before, "#") = {}
<1> DEFINE one == Append(<<>>, "k")
           two == Append(one, ":")
           three == Append(two, Blank)
<1>1. "k" \in Char /\ ":" \in Char /\ Blank \in Char
  BY FixedChars
<1>2. one \in Seq(Char) /\ two \in Seq(Char) /\ three \in Seq(Char) /\ three = <<"k", ":", Blank>>
      /\ Len(one) = 1 /\ <<>> \in Seq(Char)
  BY <1>1, ThreeChars
<1> HIDE DEF one, two, three
<1>3. \A ch \in {"k", ":", Blank} : Scanned(ScanStart, ch) = ScanStart
  <2>1. Scanned(ScanStart, Blank) = ScanStart
    BY DEF Scanned, ScanStart, Blank
  <2>2. Scanned(ScanStart, "k") = ScanStart /\ Scanned(ScanStart, ":") = ScanStart
    BY DEF Scanned, ScanStart
  <2> QED
    BY <2>1, <2>2
<1>4. IsOutside(ScanStart)
  BY DEF IsOutside, ScanStart
<1>5. Scan(<<>>) = ScanStart
  BY <1>1, <1>2, ScanFacts
<1>6. Scan(one) = ScanStart
  BY <1>1, <1>2, <1>3, <1>5, ScanFacts DEF one
<1>7. Scan(two) = ScanStart
  BY <1>1, <1>2, <1>3, <1>6, ScanFacts DEF two
<1>8. Scan(three) = ScanStart
  BY <1>1, <1>2, <1>3, <1>7, ScanFacts DEF three
<1>9. Marks(one, ":") = {} /\ Marks(one, "#") = {}
  <2>1. "k" # ":" /\ "k" # "#"
    OBVIOUS
  <2> QED
    BY <1>1, <1>2, <2>1, NoMarks, MarksSame DEF one
<1>10. Marks(two, ":") = {2}
  <2>1. Marks(two, ":") = Marks(one, ":") \union {Len(one) + 1}
    BY <1>1, <1>2, <1>4, <1>6, MarksMore DEF two
  <2>2. {} \union {1 + 1} = {2}
    OBVIOUS
  <2> QED
    BY <1>2, <1>9, <2>1, <2>2
<1>11. Marks(two, "#") = {}
  <2>1. ":" # "#"
    OBVIOUS
  <2> QED
    BY <1>1, <1>2, <1>9, <2>1, MarksSame DEF two
<1>12. Marks(three, ":") = {2} /\ Marks(three, "#") = {}
  <2>1. Blank # ":" /\ Blank # "#"
    BY FixedChars
  <2> QED
    BY <1>1, <1>2, <1>10, <1>11, <2>1, MarksSame DEF three
<1> QED
  BY <1>2, <1>8, <1>12

LEMMA KeyIs ==
  ASSUME NEW raw \in Seq(Char)
  PROVE  LET one == Append(raw, ":")
             two == Append(one, Blank)
             three == Append(two, "x")
         IN one \in Seq(Char) /\ two \in Seq(Char) /\ three \in Seq(Char) /\ three = KeyOf(raw)
<1>1. "x" \in Char /\ ":" \in Char /\ Blank \in Char
  BY FixedChars
<1> QED
  BY <1>1, ThreeBehind DEF KeyOf

\* Behind a text with no mark: a colon, a blank and a word.
LEMMA BehindKey ==
  ASSUME NEW raw \in Seq(Char), Scan(raw) = ScanStart, Marks(raw, ":") = {}, Marks(raw, "#") = {}
  PROVE  KeyOf(raw) \in Seq(Char) /\ Marks(KeyOf(raw), ":") = {Len(raw) + 1} /\ Marks(KeyOf(raw), "#") = {}
<1> DEFINE one == Append(raw, ":")
           two == Append(one, Blank)
           three == Append(two, "x")
<1>1. "x" \in Char /\ ":" \in Char /\ Blank \in Char
  BY FixedChars
<1>2. one \in Seq(Char) /\ two \in Seq(Char) /\ three \in Seq(Char) /\ three = KeyOf(raw)
  BY KeyIs
<1> HIDE DEF one, two, three
<1>3. IsOutside(ScanStart)
  BY DEF IsOutside, ScanStart
<1>4. Marks(one, ":") = {Len(raw) + 1}
  <2>1. Marks(one, ":") = Marks(raw, ":") \union {Len(raw) + 1}
    BY <1>1, <1>3, MarksMore DEF one
  <2> QED
    BY <2>1
<1>5. ":" # "#" /\ Blank # "#" /\ Blank # ":" /\ "x" # ":" /\ "x" # "#"
  BY FixedChars
<1>6. Marks(one, "#") = {}
  BY <1>1, <1>5, MarksSame DEF one
<1>7. Marks(two, ":") = {Len(raw) + 1} /\ Marks(two, "#") = {}
  BY <1>1, <1>2, <1>4, <1>5, <1>6, MarksSame DEF two
<1>8. Marks(three, ":") = {Len(raw) + 1} /\ Marks(three, "#") = {}
  BY <1>1, <1>2, <1>5, <1>7, MarksSame DEF three
<1> QED
  BY <1>2, <1>8

\* Characters that are no white space, and begin neither a comment nor an item.
LEMMA NotBlank ==
  ASSUME NEW ch \in Quotes \union {"k", "x"}
  PROVE  ch \notin Whitespace /\ ch \notin {"#", "-", ".", "\t"} /\ ch \in Char
<1>1. CASE ch = "'"
  BY <1>1 DEF Whitespace, Char, Quotes
<1>2. CASE ch = "\""
  BY <1>2 DEF Whitespace, Char, Quotes
<1>3. CASE ch = "k"
  BY <1>3 DEF Whitespace, Char
<1>4. CASE ch = "x"
  BY <1>4 DEF Whitespace, Char
<1> QED
  BY <1>1, <1>2, <1>3, <1>4 DEF Quotes

\* A single character.
LEMMA OneChar ==
  ASSUME NEW ch \in Quotes \union {"k", "x"}
  PROVE  LET text == <<ch>>
         IN /\ text \in Seq(Char) /\ text # <<>> /\ Len(text) = 1
            /\ Trim(text) = text /\ Trim(<<Blank>> \o text) = text
<1> DEFINE text == <<ch>>
<1>1. text \in Seq(Char) /\ text # <<>> /\ Len(text) = 1 /\ text[1] = ch /\ text[Len(text)] = ch
  BY NotBlank
<1> HIDE DEF text
<1>2. text[1] \notin Whitespace /\ text[Len(text)] \notin Whitespace
  BY <1>1, NotBlank
<1>3. Trim(text) = text /\ Trim(<<Blank>> \o text) = text
  BY <1>1, <1>2, FixedChars, TrimSame
<1> QED
  BY <1>1, <1>3 DEF text

\* A name that is not quoted.
LEMMA PlainName ==
  ASSUME NEW ch \in {"k", "x"}
  PROVE  ParseQuotedString(<<ch>>) = Plain(<<ch>>) /\ ~UnsupportedKey(<<ch>>)
<1>1. <<ch>> # <<>> /\ Head(<<ch>>) = ch /\ Last(<<ch>>) = ch /\ <<ch>> # <<"<", "<">>
  BY DEF Last
<1>2. ch \notin Quotes /\ ch \notin {"&", "*", "!"}
  BY DEF Quotes
<1> QED
  BY <1>1, <1>2 DEF ParseQuotedString, UnsupportedKey, Starts

LEMMA ValueTextIs ==
  ASSUME NEW raw \in Seq(Char), NEW n \in Nat, n = Len(raw), n >= 1
  PROVE  LET text == ValueText(raw)
         IN /\ text \in Seq(Char) /\ Len(text) = n + 3 /\ text[1] = "k" /\ text[3] = Blank
            /\ text[n + 3] = raw[n]
            /\ SubSeq(text, 1, 2 - 1) = <<"k">>
            /\ SubSeq(text, 2 + 1, Len(text)) = <<Blank>> \o raw
<1> DEFINE text == ValueText(raw)
           rest == <<Blank>> \o raw
           cut == SubSeq(text, 3, n + 3)
<1>1. "k" \in Char /\ ":" \in Char /\ Blank \in Char
  BY FixedChars
<1>2. <<"k", ":", Blank>> \in Seq(Char) /\ <<Blank>> \in Seq(Char)
  BY <1>1
<1>3. /\ text \in Seq(Char) /\ Len(text) = n + 3 /\ text[1] = "k" /\ text[3] = Blank
      /\ \A i \in 1..n : text[i + 3] = raw[i]
  BY <1>2 DEF ValueText
<1>4. rest \in Seq(Char) /\ Len(rest) = n + 1 /\ rest[1] = Blank /\ \A i \in 1..n : rest[i + 1] = raw[i]
  BY <1>2
<1> HIDE DEF text, rest
<1>5. SubSeq(text, 1, 1) = <<"k">>
  <2> DEFINE first == SubSeq(text, 1, 1)
  <2>1. first \in Seq(Char) /\ Len(first) = 1 /\ first[1] = text[1]
    BY <1>3
  <2> HIDE DEF first
  <2>2. first = <<"k">>
    BY <1>3, <2>1
  <2> QED
    BY <2>2 DEF first
<1>6. cut = rest
  <2>1. 3 \in Nat /\ n + 3 \in Nat /\ 1 <= 3 /\ 3 <= (n + 3) + 1 /\ n + 3 <= n + 3
        /\ ((n + 3) - 3) + 1 = n + 1 /\ \A i \in 1..(n + 1) : (3 + i) - 1 = i + 2
    OBVIOUS
  <2>2. /\ cut \in Seq(Char) /\ Len(cut) = ((n + 3) - 3) + 1
        /\ \A i \in 1..(((n + 3) - 3) + 1) : cut[i] = text[(3 + i) - 1]
    BY <1>3, <2>1, SliceIs
  <2> HIDE DEF cut
  <2>3. Len(cut) = n + 1 /\ \A i \in 1..(n + 1) : cut[i] = text[i + 2]
    BY <2>1, <2>2
  <2>4. ASSUME NEW i \in 1..(n + 1) PROVE cut[i] = rest[i]
    <3>1. CASE i = 1
      BY <1>3, <1>4, <2>3, <3>1
    <3>2. CASE i # 1
      <4>1. i - 1 \in 1..n /\ (i - 1) + 3 = i + 2 /\ (i - 1) + 1 = i
        BY <3>2
      <4> QED
        BY <1>3, <1>4, <2>3, <4>1
    <3> QED
      BY <3>1, <3>2
  <2> QED
    BY <1>4, <2>2, <2>3, <2>4, SeqEqual
<1>7. text[n + 3] = raw[n]
  <2>1. n \in 1..n
    OBVIOUS
  <2> QED
    BY <1>3, <2>1
<1>8. 2 - 1 = 1 /\ 2 + 1 = 3
  OBVIOUS
<1> QED
  BY <1>3, <1>5, <1>6, <1>7, <1>8 DEF text, rest

LEMMA TwoChars ==
  ASSUME NEW T, NEW a \in T, NEW b \in T
  PROVE  <<a>> \o <<b>> = <<a, b>>
<1> DEFINE both == <<a>> \o <<b>>
<1>1. <<a>> \in Seq(T) /\ <<b>> \in Seq(T) /\ Len(<<a>>) = 1 /\ Len(<<b>>) = 1
  OBVIOUS
<1>2. both \in Seq(T) /\ Len(both) = 2 /\ both[1] = a /\ both[2] = b
  BY <1>1
<1> HIDE DEF both
<1>3. both = <<a, b>>
  BY <1>2
<1> QED
  BY <1>3 DEF both

LEMMA KeyOfIs ==
  ASSUME NEW raw \in Seq(Char), NEW n \in Nat, n = Len(raw), n >= 1
  PROVE  LET text == KeyOf(raw)
         IN /\ text \in Seq(Char) /\ Len(text) = n + 3 /\ text[1] = raw[1] /\ text[n + 3] = "x"
            /\ text[n + 2] = Blank /\ text[(n + 1) + 1] = Blank
            /\ SubSeq(text, 1, (n + 1) - 1) = raw
            /\ SubSeq(text, (n + 1) + 1, Len(text)) = <<Blank>> \o <<"x">>
<1> DEFINE text == KeyOf(raw)
           cut == SubSeq(text, 1, n)
           rest == SubSeq(text, n + 2, n + 3)
<1>1. "x" \in Char /\ ":" \in Char /\ Blank \in Char
  BY FixedChars
<1>2. <<":", Blank, "x">> \in Seq(Char)
  BY <1>1
<1>3. /\ text \in Seq(Char) /\ Len(text) = n + 3 /\ text[n + 2] = Blank /\ text[n + 3] = "x"
      /\ \A i \in 1..n : text[i] = raw[i]
  BY <1>2 DEF KeyOf
<1> HIDE DEF text
<1>4. cut = raw
  <2>1. 1 \in Nat /\ 1 <= n + 1 /\ n <= n + 3 /\ (n - 1) + 1 = n /\ \A i \in 1..n : (1 + i) - 1 = i
    OBVIOUS
  <2>2. /\ cut \in Seq(Char) /\ Len(cut) = (n - 1) + 1
        /\ \A i \in 1..((n - 1) + 1) : cut[i] = text[(1 + i) - 1]
    BY <1>3, <2>1, SliceIs
  <2> HIDE DEF cut
  <2>3. Len(cut) = n /\ \A i \in 1..n : cut[i] = raw[i]
    BY <1>3, <2>1, <2>2
  <2> QED
    BY <2>2, <2>3, SeqEqual
<1>5. rest = <<Blank, "x">>
  <2>1. n + 2 \in Nat /\ n + 3 \in Nat /\ 1 <= n + 2 /\ n + 2 <= (n + 3) + 1 /\ n + 3 <= n + 3
        /\ ((n + 3) - (n + 2)) + 1 = 2 /\ ((n + 2) + 1) - 1 = n + 2 /\ ((n + 2) + 2) - 1 = n + 3
    OBVIOUS
  <2>2. /\ rest \in Seq(Char) /\ Len(rest) = ((n + 3) - (n + 2)) + 1
        /\ \A i \in 1..(((n + 3) - (n + 2)) + 1) : rest[i] = text[((n + 2) + i) - 1]
    BY <1>3, <2>1, SliceIs
  <2> HIDE DEF rest
  <2>3. 1 \in 1..2 /\ 2 \in 1..2
    OBVIOUS
  <2>4. Len(rest) = 2 /\ rest[1] = Blank /\ rest[2] = "x"
    BY <1>3, <2>1, <2>2, <2>3
  <2> QED
    BY <2>2, <2>4
<1>6. <<Blank>> \o <<"x">> = <<Blank, "x">>
  BY <1>1, TwoChars
<1>7. text[1] = raw[1] /\ (n + 1) - 1 = n /\ (n + 1) + 1 = n + 2
  BY <1>3
<1> QED
  BY <1>3, <1>4, <1>5, <1>6, <1>7 DEF text

-----------------------------------------------------------------------------
(* The lines that quoted texts are written in *)

\* A line tokenize keeps as it is, and parseMap reads.
KeptAsIs(text) ==
    /\ text \in Seq(Char) /\ text # <<>> /\ Trim(text) = text
    /\ text[1] \notin {"#", "-", ".", "\t"} /\ ~HasUnsupportedInlineComment(text)

LEMMA KeptIs ==
  ASSUME NEW text, KeptAsIs(text)
  PROVE  /\ ~IsBlank(text)
         /\ (\A i \in DOMAIN text : text[i] # "\t") => ~Refused(text)
         /\ \A indent : ~IsItem([indent |-> indent, text |-> text])
<1>1. text \in Seq(Char) /\ text # <<>> /\ Trim(text) = text /\ Head(text) = text[1]
      /\ text[1] \notin {"#", "-", "."} /\ ~HasUnsupportedInlineComment(text)
  BY DEF KeptAsIs
<1>2. ~IsBlank(text)
  BY <1>1 DEF IsBlank, Starts
<1>3. ~IsDocumentMarker(text)
  BY <1>1 DEF IsDocumentMarker
<1>4. (\A i \in DOMAIN text : text[i] # "\t") => "\t" \notin ToSet(text)
  BY DEF ToSet
<1>5. \A indent : ~IsItem([indent |-> indent, text |-> text])
  BY <1>1 DEF IsItem
<1> QED
  BY <1>1, <1>2, <1>3, <1>4, <1>5 DEF Refused

LEMMA ValueIsRead ==
  ASSUME NEW quote \in Quotes, NEW text \in Seq(Char)
  PROVE  LET raw == Writes(text, quote)
         IN /\ KeptAsIs(ValueText(raw))
            /\ SplitKeyValue(ValueText(raw)) = [ok |-> TRUE, key |-> <<"k">>, raw |-> raw]
<1> DEFINE raw == Writes(text, quote)
           n == Len(raw)
           line == ValueText(raw)
           before == <<"k", ":", Blank>>
<1>1. raw \in Seq(Char) /\ n \in Nat /\ n >= 1 /\ raw # <<>> /\ raw[1] = quote /\ raw[n] = quote
  BY WritesTyped
<1>2. /\ line \in Seq(Char) /\ Len(line) = n + 3 /\ line[1] = "k" /\ line[3] = Blank
      /\ line[n + 3] = raw[n]
      /\ SubSeq(line, 1, 2 - 1) = <<"k">>
      /\ SubSeq(line, 2 + 1, Len(line)) = <<Blank>> \o raw
  BY <1>1, ValueTextIs
<1>3. Marks(line, ":") = {2} /\ Marks(line, "#") = {}
  <2>1. /\ before \in Seq(Char) /\ Scan(before) = ScanStart
        /\ Marks(before, ":") = {2} /\ Marks(before, "#") = {}
    BY BeforeValue
  <2>2. line = before \o Writes(text, quote)
    BY DEF ValueText
  <2> HIDE DEF before, line
  <2> QED
    BY <2>1, <2>2, QuotesHide
<1> HIDE DEF raw, line, n
<1>4. "k" \notin Whitespace /\ quote \notin Whitespace /\ "k" \notin {"#", "-", ".", "\t"}
  BY NotBlank
<1>5. Trim(raw) = raw /\ Trim(<<Blank>> \o raw) = raw
  BY <1>1, <1>4, FixedChars, TrimSame DEF n
<1>6. Trim(line) = line /\ line # <<>>
  <2>1. line # <<>> /\ line[Len(line)] \notin Whitespace /\ line[1] \notin Whitespace
    BY <1>1, <1>2, <1>4
  <2> QED
    BY <1>2, <2>1, FixedChars, TrimSame
<1>7. KeptAsIs(line)
  BY <1>2, <1>3, <1>4, <1>6, NoComment DEF KeptAsIs
<1>8. /\ Trim(<<"k">>) = <<"k">> /\ <<"k">> # <<>>
      /\ ParseQuotedString(<<"k">>) = Plain(<<"k">>) /\ ~UnsupportedKey(<<"k">>)
  BY OneChar, PlainName
<1>9. Plain(<<"k">>).kind # "bad" /\ Plain(<<"k">>).value = <<"k">>
  BY DEF Plain
<1>10. 2 \in Nat /\ line[2 + 1] = Blank
  BY <1>2
<1>11. SplitKeyValue(line)
         = [ok |-> TRUE, key |-> Plain(<<"k">>).value, raw |-> Trim(SubSeq(line, 2 + 1, Len(line)))]
  BY <1>2, <1>3, <1>8, <1>9, <1>10, OneColon
<1> QED
  BY <1>2, <1>5, <1>7, <1>9, <1>11 DEF raw, line

LEMMA KeyIsRead ==
  ASSUME NEW quote \in Quotes, NEW text \in Seq(Char)
  PROVE  LET raw == Writes(text, quote)
         IN /\ KeptAsIs(KeyOf(raw))
            /\ SplitKeyValue(KeyOf(raw)) = [ok |-> TRUE, key |-> text, raw |-> <<"x">>]
<1> DEFINE raw == Writes(text, quote)
           n == Len(raw)
           line == KeyOf(raw)
<1>1. raw \in Seq(Char) /\ n \in Nat /\ n >= 1 /\ raw # <<>> /\ raw[1] = quote /\ raw[n] = quote
  BY WritesTyped
<1>2. /\ line \in Seq(Char) /\ Len(line) = n + 3 /\ line[1] = raw[1] /\ line[n + 3] = "x"
      /\ line[(n + 1) + 1] = Blank
      /\ SubSeq(line, 1, (n + 1) - 1) = raw
      /\ SubSeq(line, (n + 1) + 1, Len(line)) = <<Blank>> \o <<"x">>
  BY <1>1, KeyOfIs
<1>3. Marks(line, ":") = {n + 1} /\ Marks(line, "#") = {}
  <2> DEFINE none == <<>>
  <2> HIDE DEF none
  <2>1. /\ none \in Seq(Char) /\ Scan(none) = ScanStart
        /\ Marks(none, ":") = {} /\ Marks(none, "#") = {}
    BY FixedChars, NoMarks, ScanFacts DEF none
  <2>2. none \o Writes(text, quote) = raw
    BY <1>1, ConcatEmptySeq DEF none
  <2> HIDE DEF raw
  <2>3. Scan(raw) = ScanStart /\ Marks(raw, ":") = {} /\ Marks(raw, "#") = {}
    BY <2>1, <2>2, QuotesHide
  <2> QED
    BY <1>1, <2>3, BehindKey
<1>4. ParseQuotedString(raw) = Quoted(text)
  BY QuotedIsRead
<1> HIDE DEF raw, line, n
<1>5. "x" \notin Whitespace /\ quote \notin Whitespace /\ quote \notin {"#", "-", ".", "\t"}
  BY NotBlank
<1>6. Trim(raw) = raw
  BY <1>1, <1>5, FixedChars, TrimSame DEF n
<1>7. Trim(line) = line /\ line # <<>>
  <2>1. line # <<>> /\ line[Len(line)] \notin Whitespace /\ line[1] \notin Whitespace
    BY <1>1, <1>2, <1>5
  <2> QED
    BY <1>2, <2>1, FixedChars, TrimSame
<1>8. KeptAsIs(line)
  BY <1>1, <1>2, <1>3, <1>5, <1>7, NoComment DEF KeptAsIs
<1>9. Quoted(text).kind = "quoted" /\ Quoted(text).value = text
  BY DEF Quoted
<1>10. n + 1 \in Nat
  BY <1>1
<1>11. SplitKeyValue(line)
         = [ok |-> TRUE, key |-> Quoted(text).value, raw |-> Trim(SubSeq(line, (n + 1) + 1, Len(line)))]
  BY <1>1, <1>2, <1>3, <1>4, <1>6, <1>9, <1>10, OneColon
<1>12. Trim(<<Blank>> \o <<"x">>) = <<"x">>
  BY OneChar
<1> QED
  BY <1>2, <1>8, <1>9, <1>11, <1>12 DEF line, raw

-----------------------------------------------------------------------------
(* No tab is written *)

Tab == "\t"
Tabless(s) == \A i \in DOMAIN s : s[i] # Tab

LEMMA TablessJoined ==
  ASSUME NEW T, NEW s \in Seq(T), NEW t \in Seq(T), Tabless(s), Tabless(t)
  PROVE  Tabless(s \o t)
<1> DEFINE m == Len(s)
           n == Len(t)
           both == s \o t
<1>1. /\ m \in Nat /\ n \in Nat /\ DOMAIN both = 1..(m + n) /\ DOMAIN s = 1..m /\ DOMAIN t = 1..n
      /\ \A i \in 1..(m + n) : both[i] = IF i <= m THEN s[i] ELSE t[i - m]
  BY ConcatProperties
<1> HIDE DEF both, m, n
<1>2. ASSUME NEW i \in 1..(m + n) PROVE both[i] # Tab
  <2>1. CASE i <= m
    <3>1. i \in 1..m
      BY <1>1, <2>1
    <3> QED
      BY <1>1, <2>1, <3>1 DEF Tabless
  <2>2. CASE ~(i <= m)
    <3>1. i - m \in 1..n
      BY <1>1, <2>2
    <3> QED
      BY <1>1, <2>2, <3>1 DEF Tabless
  <2> QED
    BY <2>1, <2>2
<1>3. Tabless(both)
  BY <1>1, <1>2 DEF Tabless
<1> QED
  BY <1>3 DEF both

LEMMA TablessChars ==
  ASSUME NEW a, NEW b, a # Tab, b # Tab
  PROVE  Tabless(<<a>>) /\ Tabless(<<a, b>>) /\ Tabless(<<>>)
BY DEF Tabless

LEMMA ThreeTabless ==
  ASSUME NEW a, NEW b, NEW c, a # Tab, b # Tab, c # Tab
  PROVE  Tabless(<<a, b, c>>)
BY DEF Tabless

LEMMA TabIs ==
  /\ Tab \in Controls /\ Blank # Tab /\ "k" # Tab /\ ":" # Tab /\ "x" # Tab /\ "\\" # Tab /\ "'" # Tab
  /\ "\"" # Tab /\ "t" # Tab /\ "n" # Tab /\ "r" # Tab
  /\ \A text : Tabless(text) => \A i \in DOMAIN text : text[i] # "\t"
  /\ \A ch : ch = Tab => ch = "\t"
BY DEF Tab, Controls, Blank, Tabless

LEMMA QuotesTabless ==
  ASSUME NEW quote \in Quotes
  PROVE  quote # Tab /\ First(quote) # Tab /\ \A d \in Second(quote) : d # Tab
<1>1. CASE quote = "'"
  BY <1>1, TabIs DEF First, Second
<1>2. CASE quote = "\""
  BY <1>2, TabIs DEF First, Second
<1> QED
  BY <1>1, <1>2 DEF Quotes

LEMMA CharTabless ==
  ASSUME NEW quote \in Quotes, NEW ch, quote = "\"" \/ ch \notin Controls
  PROVE  Tabless(WrittenAs(ch, quote))
<1>1. CASE ch # Tab
  <2>1. WrittenAs(ch, quote) = <<ch>> \/ \E d \in Second(quote) : WrittenAs(ch, quote) = <<First(quote), d>>
    BY WrittenIs
  <2> QED
    BY <1>1, <2>1, QuotesTabless, TablessChars
<1>2. CASE ch = Tab
  <2>1. quote = "\""
    BY <1>2, TabIs
  <2>2. WrittenAs(ch, quote) = <<"\\", "t">>
    BY <1>2, <2>1 DEF WrittenAs, Tab
  <2> QED
    BY <2>2, TabIs, TablessChars
<1> QED
  BY <1>1, <1>2

\* A text that is written without a tab.
EscapesTabs(quote, text) == \A i \in DOMAIN text : Tabless(WrittenAs(text[i], quote))

LEMMA TabsAreEscaped ==
  ASSUME NEW quote \in Quotes, NEW text, quote = "\"" \/ ToSet(text) \cap Controls = {}
  PROVE  EscapesTabs(quote, text)
<1>1. ASSUME NEW i \in DOMAIN text PROVE quote = "\"" \/ text[i] \notin Controls
  BY DEF ToSet
<1> QED
  BY <1>1, CharTabless DEF EscapesTabs

LEMMA WrittenTabless ==
  ASSUME NEW quote \in Quotes, NEW text \in Seq(Char), EscapesTabs(quote, text)
  PROVE  Tabless(Write(text, quote))
<1> DEFINE P == {s \in Seq(Char) : EscapesTabs(quote, s) => Tabless(Write(s, quote))}
<1>1. <<>> \in P
  <2>1. <<>> \in Seq(Char) /\ quote \in Char
    BY MarksAreChars
  <2>2. Write(<<>>, quote) = <<>>
    BY <2>1, WriteFacts
  <2>3. Tabless(<<>>)
    BY DEF Tabless
  <2> QED
    BY <2>1, <2>2, <2>3
<1>2. ASSUME NEW s \in Seq(Char), NEW ch \in Char, s \in P PROVE Append(s, ch) \in P
  <2>1. Append(s, ch) \in Seq(Char)
    OBVIOUS
  <2>2. ASSUME EscapesTabs(quote, Append(s, ch))
        PROVE  Tabless(Write(Append(s, ch), quote))
    <3>1. /\ \A i \in DOMAIN s : i \in DOMAIN Append(s, ch) /\ Append(s, ch)[i] = s[i]
          /\ Len(s) + 1 \in DOMAIN Append(s, ch) /\ Append(s, ch)[Len(s) + 1] = ch
      OBVIOUS
    <3>2. EscapesTabs(quote, s) /\ Tabless(WrittenAs(ch, quote))
      BY <2>2, <3>1 DEF EscapesTabs
    <3>3. Tabless(Write(s, quote))
      BY <1>2, <3>2
    <3>4. /\ Write(s, quote) \in Seq(Char) /\ WrittenAs(ch, quote) \in Seq(Char)
          /\ Write(Append(s, ch), quote) = Write(s, quote) \o WrittenAs(ch, quote)
      BY WriteFacts, WriteTyped
    <3> QED
      BY <3>2, <3>3, <3>4, TablessJoined
  <2> QED
    BY <2>1, <2>2
<1>3. Seq(Char) \subseteq P
  <2> HIDE DEF P
  <2> QED
    BY <1>1, <1>2, OfAllTexts
<1> QED
  BY <1>3

LEMMA LinesTabless ==
  ASSUME NEW quote \in Quotes, NEW text \in Seq(Char), EscapesTabs(quote, text)
  PROVE  Tabless(ValueText(Writes(text, quote))) /\ Tabless(KeyOf(Writes(text, quote)))
<1> DEFINE w == Write(text, quote)
           mark == <<quote>>
           raw == Writes(text, quote)
<1>1. w \in Seq(Char) /\ mark \in Seq(Char)
  <2>1. quote \in Char
    BY MarksAreChars
  <2> QED
    BY <2>1, WriteFacts
<1>2. Tabless(mark) /\ Tabless(w)
  BY QuotesTabless, TablessChars, WrittenTabless
<1>3. raw = (mark \o w) \o mark
  BY DEF Writes, Write
<1> HIDE DEF w, raw, mark
<1>4. Tabless(mark \o w) /\ mark \o w \in Seq(Char)
  BY <1>1, <1>2, TablessJoined
<1>5. Tabless(raw) /\ raw \in Seq(Char)
  <2> DEFINE front == mark \o w
  <2>1. front \in Seq(Char) /\ Tabless(front) /\ raw = front \o mark
    BY <1>3, <1>4
  <2> HIDE DEF front
  <2> QED
    BY <1>1, <1>2, <2>1, TablessJoined
<1> DEFINE before == <<"k", ":", Blank>>
           behind == <<":", Blank, "x">>
<1>6. before \in Seq(Char) /\ behind \in Seq(Char)
  <2>1. "k" \in Char /\ "x" \in Char /\ ":" \in Char /\ Blank \in Char
    BY FixedChars
  <2> QED
    BY <2>1
<1>7. Tabless(before) /\ Tabless(behind)
  BY TabIs, ThreeTabless
<1> HIDE DEF before, behind
<1>8. Tabless(before \o raw) /\ Tabless(raw \o behind)
  BY <1>5, <1>6, <1>7, TablessJoined
<1> QED
  BY <1>8 DEF ValueText, KeyOf, before, behind, raw

-----------------------------------------------------------------------------
(* The nodes of quoted and plain words *)

LEMMA QuotedNode ==
  ASSUME NEW quote \in Quotes, NEW text \in Seq(Char)
  PROVE  ParseInlineValue(Writes(text, quote)) = StringNode(text)
<1> DEFINE raw == Writes(text, quote)
<1>1. raw \in Seq(Char) /\ raw # <<>> /\ Head(raw) = quote /\ raw[1] = quote
  BY WritesTyped
<1>2. ParseQuotedString(raw) = Quoted(text)
  BY QuotedIsRead
<1> HIDE DEF raw
<1>3. quote \notin {"[", "{", "|", ">", "&", "*", "!"}
  BY DEF Quotes
<1>4. raw # <<"[", "]">> /\ ~Starts(raw, {"[", "{", "|", ">", "&", "*", "!"})
  <2>1. quote # "["
    BY <1>3
  <2>2. raw # <<"[", "]">>
    BY <1>1, <2>1
  <2> QED
    BY <1>1, <1>3, <2>2 DEF Starts
<1>5. Quoted(text).kind = "quoted" /\ Quoted(text).value = text
  BY DEF Quoted
<1>6. ParseInlineValue(raw) = StringNode(text)
  BY <1>2, <1>4, <1>5 DEF ParseInlineValue
<1> QED
  BY <1>6 DEF raw

LEMMA WordNode == ParseInlineValue(<<"x">>) # Unreadable
<1>1. ParseQuotedString(<<"x">>) = Plain(<<"x">>)
  BY PlainName
<1>2. Plain(<<"x">>).kind = "plain"
  BY DEF Plain
<1>3. <<"x">> # <<"[", "]">> /\ Head(<<"x">>) = "x"
  OBVIOUS
<1>4. ~Starts(<<"x">>, {"[", "{", "|", ">", "&", "*", "!"})
  BY <1>3 DEF Starts
<1>5. /\ \A b : BoolNode(b).kind = "bool" /\ \A n : IntNode(n).kind = "int"
      /\ \A t : StringNode(t).kind = "string" /\ Unreadable.kind = "unreadable"
  BY DEF BoolNode, IntNode, StringNode, Unreadable
<1>6. \/ \E b : ParseInlineValue(<<"x">>) = BoolNode(b)
      \/ \E n : ParseInlineValue(<<"x">>) = IntNode(n)
      \/ \E t : ParseInlineValue(<<"x">>) = StringNode(t)
  BY <1>1, <1>2, <1>3, <1>4 DEF ParseInlineValue
<1> QED
  BY <1>5, <1>6

-----------------------------------------------------------------------------
(* A document of one line *)

OneLine(text) == <<[indent |-> 0, text |-> text]>>

LEMMA OneLineKept ==
  ASSUME NEW text, KeptAsIs(text), Tabless(text), doc = OneLine(text)
  PROVE  Kept(doc) = doc /\ IsTokenized
<1> DEFINE line == [indent |-> 0, text |-> text]
           trimmed == [i \in 1..1 |-> [doc[i] EXCEPT !.text = Trim(@)]]
           chosen == {i \in 1..1 : ~IsBlank(doc[i].text)}
<1>1. Len(doc) = 1 /\ doc[1] = line /\ DOMAIN doc = 1..1 /\ doc[1].text = text /\ doc[1].indent = 0
  BY DEF OneLine
<1>2. Trim(text) = text /\ ~IsBlank(text) /\ ~Refused(text)
  <2>1. Trim(text) = text
    BY DEF KeptAsIs
  <2>2. \A i \in DOMAIN text : text[i] # "\t"
    BY TabIs
  <2> QED
    BY <2>1, <2>2, KeptIs
<1>3. Kept(doc) = Collected(1, chosen, trimmed)[1]
  BY <1>1 DEF Kept
<1>4. Collects(Collected(1, chosen, trimmed), chosen, trimmed, 1)
  BY CollectedFacts
<1>5. 1 \in chosen /\ 1 \in 1..1 /\ 1 - 1 = 0
  BY <1>1, <1>2
<1>6. trimmed[1] = line
  <2>1. [line EXCEPT !.text = Trim(@)] = line
    BY <1>2
  <2> QED
    BY <1>1, <1>5, <2>1
<1> HIDE DEF chosen, trimmed
<1>7. Kept(doc) = Append(<<>>, trimmed[1])
  BY <1>3, <1>4, <1>5 DEF Collects
<1>8. Append(<<>>, line) = <<line>>
  OBVIOUS
<1>9. Kept(doc) = doc
  BY <1>6, <1>7, <1>8 DEF OneLine
<1>10. StartsAtColumnZero(Kept(doc))
  BY <1>1, <1>9 DEF StartsAtColumnZero, OneLine
<1>11. \A i \in DOMAIN doc : ~Refused(doc[i].text)
  BY <1>1, <1>2
<1> QED
  BY <1>9, <1>10, <1>11 DEF IsTokenized

\* One entry with its value is an outline, and this is its tree.
LEMMA OneLineOutlined ==
  ASSUME LinesOK, Len(lines) = 1, lines[1].indent = 0, IsEntry(1),
         LineSplit(1).raw # <<>>, ParseInlineValue(LineSplit(1).raw) # Unreadable
  PROVE  /\ IsOutline
         /\ Outline[0] = MapNode([key \in {LineSplit(1).key} |-> ParseInlineValue(LineSplit(1).raw)])
<1>1. 1 \in 1..Len(lines) /\ 0 \in 0..Len(lines) /\ 1 \in 0..Len(lines) /\ 1 - 1 = 0 /\ 0 # 1
  OBVIOUS
<1>2. Owner(1) = 0
  <2>1. Owner(1) \in 0..(1 - 1)
    BY <1>1, OwnerFacts
  <2> QED
    BY <1>1, <2>1
<1>3. Below(0, 1) = {1} /\ Below(1, 1) = {}
  <2>1. Below(0, 0) = {}
    BY DEF Below
  <2>2. Below(0, 1) = Below(0, 0) \union {1}
    BY <1>1, <1>2, BelowNext
  <2>3. Below(1, 1) = {}
    BY <1>1, BelowNext
  <2> QED
    BY <2>1, <2>2, <2>3
<1>4. IsBlock(0, 1)
  <2>1. EntriesBelow(0, 1)
    BY <1>3 DEF EntriesBelow
  <2>2. SameDepth(0, 1)
    BY <1>3 DEF SameDepth
  <2> QED
    BY <2>1, <2>2, BlockFacts
<1>5. IsBlock(1, 1)
  BY <1>3, EmptyBlock
<1>6. IsOutline
  <2>1. \A i \in 0..1 : i = 0 \/ i = 1
    OBVIOUS
  <2>2. IsOutlined(1)
    BY <1>4, <1>5, <2>1 DEF IsOutlined
  <2>3. lines # <<>> /\ ~IsItem(lines[1])
    BY DEF IsEntry
  <2> QED
    BY <2>2, <2>3 DEF IsOutline
<1>7. Outline[1] = ParseInlineValue(LineSplit(1).raw)
  <2>1. Outline[1] = OutlineNode(1, Outline)
    BY <1>1, OutlineFacts
  <2>2. OutlineNode(1, Outline) = ParseInlineValue(LineSplit(1).raw)
    BY <1>1, <1>3 DEF OutlineNode
  <2> QED
    BY <2>1, <2>2
<1>8. Outline[0] = MapNode([key \in {LineSplit(1).key} |-> ParseInlineValue(LineSplit(1).raw)])
  <2> DEFINE tree == Outline
             name == LineSplit(1).key
             node == ParseInlineValue(LineSplit(1).raw)
  <2>1. Outline[0] = OutlineNode(0, tree)
    BY <1>1, OutlineFacts
  <2>2. ~IsItem(lines[1])
    BY DEF IsEntry
  <2> HIDE DEF tree
  <2>3. ~(Below(0, Len(lines)) # {} /\ \A j \in Below(0, Len(lines)) : IsItem(lines[j]))
    BY <1>3, <2>2
  <2>4. OutlineNode(0, tree)
          = MapNode([key \in {LineSplit(j).key : j \in {1}} |->
                       tree[CHOOSE j \in {1} : LineSplit(j).key = key]])
    BY <1>3, <2>3 DEF OutlineNode
  <2>5. {LineSplit(j).key : j \in {1}} = {name}
    OBVIOUS
  <2>6. (CHOOSE j \in {1} : LineSplit(j).key = name) = 1
    OBVIOUS
  <2>7. tree[1] = node
    BY <1>7 DEF tree
  <2> HIDE DEF name, node
  <2>8. \A key \in {name} : tree[CHOOSE j \in {1} : LineSplit(j).key = key] = node
    BY <2>6, <2>7
  <2>9. [key \in {name} |-> tree[CHOOSE j \in {1} : LineSplit(j).key = key]] = [key \in {name} |-> node]
    BY <2>8
  <2> QED
    BY <2>1, <2>4, <2>5, <2>9 DEF name, node
<1> QED
  BY <1>6, <1>8

-----------------------------------------------------------------------------
(* The lines are those of the file *)

LinesInv ==
    /\ phase \notin {"text", "malformed"} => IsTokenized /\ lines = Kept(doc)
    /\ phase = "malformed" => \/ IsTokenized /\ lines = Kept(doc)
                              \/ ~IsTokenized /\ lines = <<>>

LEMMA LinesNext == TypeOK /\ FrameInv /\ LinesInv /\ [Next]_vars => LinesInv'
<1> SUFFICES ASSUME TypeOK, FrameInv, LinesInv, [Next]_vars PROVE LinesInv'
  OBVIOUS
<1>1. doc' = doc => IsTokenized' = IsTokenized /\ Kept(doc)' = Kept(doc)
  BY DEF IsTokenized
<1>2. CASE RefuseText
  BY <1>1, <1>2 DEF RefuseText, FrameInv, LinesInv
<1>3. CASE Tokenize
  BY <1>1, <1>3 DEF Tokenize, LinesInv
<1>4. CASE ReadEntry \/ OpenBlock \/ ReadItem
  <2>1. doc' = doc /\ lines' = lines /\ phase' = phase
    BY <1>4 DEF ReadEntry, OpenBlock, ReadItem
  <2> QED
    BY <1>1, <2>1 DEF LinesInv
<1>5. CASE Return \/ ReturnRoot \/ RefuseLine
  <2>1. doc' = doc /\ lines' = lines /\ phase = "blocks" /\ phase' \in {"blocks", "parsed", "malformed"}
    BY <1>5 DEF Return, ReturnRoot, RefuseLine
  <2> QED
    BY <1>1, <2>1 DEF LinesInv
<1>6. CASE Accept \/ RefuseTree
  <2>1. doc' = doc /\ lines' = lines /\ phase = "parsed" /\ phase' \in {"accepted", "invalid"}
    BY <1>6 DEF Accept, RefuseTree
  <2> QED
    BY <1>1, <2>1 DEF LinesInv
<1>7. CASE UNCHANGED vars
  <2>1. doc' = doc /\ lines' = lines /\ phase' = phase
    BY <1>7 DEF vars
  <2> QED
    BY <1>1, <2>1 DEF LinesInv
<1> QED
  BY <1>2, <1>3, <1>4, <1>5, <1>6, <1>7 DEF Next

IsParsed == phase \in {"parsed", "accepted", "invalid"}

LEMMA OneLineParsed ==
  ASSUME ParserInv, LinesInv, NEW text, doc = OneLine(text), KeptAsIs(text), Tabless(text),
         SplitKeyValue(text).ok, SplitKeyValue(text).raw # <<>>,
         ParseInlineValue(SplitKeyValue(text).raw) # Unreadable
  PROVE  /\ phase # "malformed"
         /\ IsParsed => root.entries = [k \in {SplitKeyValue(text).key} |->
                                         ParseInlineValue(SplitKeyValue(text).raw)]
<1> DEFINE key == SplitKeyValue(text).key
           raw == SplitKeyValue(text).raw
<1>1. Kept(doc) = doc /\ IsTokenized
  BY OneLineKept
<1>2. phase = "malformed" \/ IsParsed => lines = doc
  BY <1>1 DEF LinesInv, IsParsed
<1>3. ASSUME lines = doc
      PROVE  IsOutline /\ Outline[0] = MapNode([k \in {key} |-> ParseInlineValue(raw)])
  <2>1. LinesOK
    BY DEF ParserInv, TypeOK, LinesOK, LineType
  <2>2. Len(lines) = 1 /\ lines[1] = [indent |-> 0, text |-> text]
    BY <1>3 DEF OneLine
  <2>3. ~IsItem(lines[1])
    BY <2>2, KeptIs
  <2>4. LineSplit(1) = SplitKeyValue(text)
    BY <2>2 DEF LineSplit
  <2>5. LineSplit(1).ok /\ LineSplit(1).key = key /\ LineSplit(1).raw = raw
    BY <2>4
  <2>6. IsEntry(1)
    BY <2>3, <2>5 DEF IsEntry
  <2> QED
    BY <2>1, <2>2, <2>5, <2>6, OneLineOutlined
<1>4. phase # "malformed"
  BY <1>1, <1>2, <1>3 DEF ParserInv, ParsesOutlines, OneLine
<1>5. ASSUME IsParsed PROVE root.entries = [k \in {key} |-> ParseInlineValue(raw)]
  <2>1. root = Outline[0]
    BY <1>5 DEF ParserInv, ParsesOutlines, IsParsed
  <2>2. root = MapNode([k \in {key} |-> ParseInlineValue(raw)])
    BY <1>2, <1>3, <1>5, <2>1
  <2> QED
    BY <2>2 DEF MapNode
<1> QED
  BY <1>4, <1>5

-----------------------------------------------------------------------------
(* What is written *)

LEMMA TextsAreChars == Seq(STRING) \subseteq Seq(Char)
<1>1. STRING \subseteq Char
  BY DEF Char
<1> QED
  BY <1>1, SeqMonotonic

IsWriting(w, quote, text) ==
    w = <<Writes(text, quote), text>> /\ text \in Seq(Char) /\ EscapesTabs(quote, text)

LEMMA WritingIs ==
  ASSUME NEW w \in Writings
  PROVE  \E quote \in Quotes : \E text : IsWriting(w, quote, text)
<1>1. Texts \subseteq Seq(Char)
  BY TextsAssumption, TextsAreChars
<1>2. CASE w \in {<<Writes(text, "\""), text>> : text \in Texts}
  <2>1. PICK text \in Texts : w = <<Writes(text, "\""), text>>
    BY <1>2
  <2>2. "\"" \in Quotes
    BY DEF Quotes
  <2>3. EscapesTabs("\"", text)
    BY <2>2, TabsAreEscaped
  <2>4. text \in Seq(Char)
    BY <1>1
  <2> QED
    BY <2>1, <2>2, <2>3, <2>4 DEF IsWriting
<1>3. CASE w \in {<<Writes(text, "'"), text>> : text \in {t \in Texts : ToSet(t) \cap Controls = {}}}
  <2>1. PICK text \in Texts : w = <<Writes(text, "'"), text>> /\ ToSet(text) \cap Controls = {}
    BY <1>3
  <2>2. "'" \in Quotes
    BY DEF Quotes
  <2>3. EscapesTabs("'", text)
    BY <2>1, <2>2, TabsAreEscaped
  <2>4. text \in Seq(Char)
    BY <1>1
  <2> QED
    BY <2>1, <2>2, <2>3, <2>4 DEF IsWriting
<1> QED
  BY <1>2, <1>3 DEF Writings

\* A writing has one meaning.
LEMMA MeaningIs ==
  ASSUME NEW quote \in Quotes, NEW text \in Seq(Char), <<Writes(text, quote), text>> \in Writings
  PROVE  Meaning[Writes(text, quote)] = text
<1> DEFINE raw == Writes(text, quote)
           v == CHOOSE w \in Writings : w[1] = raw
<1>1. <<raw, text>>[1] = raw
  OBVIOUS
<1>2. v \in Writings /\ v[1] = raw
  <2>1. \E w \in Writings : w[1] = raw
    BY <1>1
  <2> HIDE DEF raw
  <2> QED
    BY <2>1
<1>3. Meaning[raw] = v[2]
  <2>1. raw \in {w[1] : w \in Writings}
    BY <1>2
  <2> HIDE DEF raw
  <2> QED
    BY <2>1 DEF Meaning
<1>4. v[2] = text
  <2> HIDE DEF v
  <2>1. PICK q \in Quotes : \E t : IsWriting(v, q, t)
    BY <1>2, WritingIs
  <2>2. PICK t : IsWriting(v, q, t)
    BY <2>1
  <2>3. v = <<Writes(t, q), t>> /\ t \in Seq(Char)
    BY <2>2 DEF IsWriting
  <2>4. ParseQuotedString(Writes(t, q)) = Quoted(t) /\ ParseQuotedString(raw) = Quoted(text)
    BY <2>3, QuotedIsRead
  <2>5. Writes(t, q) = raw /\ v[2] = t
    BY <1>2, <2>3
  <2> HIDE DEF raw
  <2>6. Quoted(t) = Quoted(text)
    BY <2>4, <2>5
  <2>7. Quoted(t).value = t /\ Quoted(text).value = text
    BY DEF Quoted
  <2> QED
    BY <2>5, <2>6, <2>7
<1> QED
  BY <1>3, <1>4

LEMMA LinesAre ==
  ASSUME NEW raw
  PROVE  ValueLine(raw) = OneLine(ValueText(raw)) /\ KeyLine(raw) = OneLine(KeyOf(raw))
BY DEF ValueLine, KeyLine, OneLine, ValueText, KeyOf, Blank

LEMMA PartsAre ==
  ASSUME NEW raw \in Seq(Char), Len(raw) >= 1
  PROVE  Behind(ValueText(raw), 3) = raw /\ Before(KeyOf(raw), 3) = raw
<1> DEFINE n == Len(raw)
           text == ValueText(raw)
           line == KeyOf(raw)
           cut == SubSeq(text, 4, n + 3)
<1>1. n \in Nat /\ Len(raw) = n /\ n >= 1
  OBVIOUS
<1>2. Len(line) = n + 3 /\ SubSeq(line, 1, (n + 1) - 1) = raw
  BY <1>1, KeyOfIs
<1>3. text \in Seq(Char) /\ Len(text) = n + 3 /\ \A i \in 1..n : text[i + 3] = raw[i]
  <2>1. <<"k", ":", Blank>> \in Seq(Char)
    <3>1. "k" \in Char /\ ":" \in Char /\ Blank \in Char
      BY FixedChars
    <3> QED
      BY <3>1
  <2> QED
    BY <2>1 DEF ValueText
<1> HIDE DEF n, text, line
<1>4. (n + 1) - 1 = n /\ (n + 3) - 3 = n /\ 3 + 1 = 4
  BY <1>1
<1>5. cut = raw
  <2>1. 4 \in Nat /\ n + 3 \in Nat /\ 1 <= 4 /\ 4 <= (n + 3) + 1 /\ n + 3 <= n + 3
        /\ ((n + 3) - 4) + 1 = n /\ \A i \in 1..n : (4 + i) - 1 = i + 3
    BY <1>1
  <2>2. /\ cut \in Seq(Char) /\ Len(cut) = ((n + 3) - 4) + 1
        /\ \A i \in 1..(((n + 3) - 4) + 1) : cut[i] = text[(4 + i) - 1]
    BY <1>3, <2>1, SliceIs
  <2> HIDE DEF cut
  <2>3. Len(cut) = n /\ \A i \in 1..n : cut[i] = raw[i]
    BY <1>3, <2>1, <2>2
  <2> QED
    BY <1>1, <2>2, <2>3, SeqEqual
<1>6. Behind(text, 3) = raw
  BY <1>3, <1>4, <1>5 DEF Behind
<1>7. Before(line, 3) = raw
  BY <1>2, <1>4 DEF Before
<1> QED
  BY <1>6, <1>7 DEF text, line

-----------------------------------------------------------------------------
(* What the splitter returns *)

LEMMA SplitParts ==
  ASSUME NEW T, NEW text \in Seq(T), SplitKeyValue(text).ok
  PROVE  /\ SplitKeyValue(text).raw \in Seq(T)
         /\ \E m \in 0..Len(text) :
              LET key == Trim(SubSeq(text, 1, m))
              IN /\ key # <<>> /\ ParseQuotedString(key).kind # "bad"
                 /\ SplitKeyValue(text).key = ParseQuotedString(key).value
<1> DEFINE colon == Min(Delimiters(text))
           rest == SubSeq(text, colon + 1, Len(text))
           key == ParseQuotedString(KeyText(text))
<1>1. ~NoEntry.ok
  BY DEF NoEntry
<1>2. /\ Delimiters(text) # {} /\ KeyText(text) # <<>> /\ key.kind # "bad"
      /\ SplitKeyValue(text) = [ok |-> TRUE, key |-> key.value, raw |-> Trim(rest)]
  BY <1>1, SplitIs
<1>3. Delimiters(text) \in SUBSET Nat /\ Delimiters(text) \subseteq 1..Len(text) /\ Len(text) \in Nat
  BY DEF Delimiters, Marks, Outside
<1>4. colon \in 1..Len(text)
  BY <1>2, <1>3, MinFacts
<1>5. KeyText(text) = Trim(SubSeq(text, 1, colon - 1))
  BY DEF KeyText
<1> HIDE DEF colon
<1>6. rest \in Seq(T)
  <2>1. colon + 1 \in Nat /\ Len(text) \in Nat /\ 1 <= colon + 1 /\ colon + 1 <= Len(text) + 1
        /\ Len(text) <= Len(text)
    BY <1>3, <1>4
  <2> QED
    BY <2>1, SliceIs
<1>7. Trim(rest) \in Seq(T)
  BY <1>6, TrimTyped
<1>8. colon - 1 \in 0..Len(text)
  BY <1>3, <1>4
<1> HIDE DEF rest
<1>9. SplitKeyValue(text).raw = Trim(rest) /\ SplitKeyValue(text).key = key.value
  BY <1>2
<1> QED
  BY <1>2, <1>5, <1>7, <1>8, <1>9

\* A text that is trimmed behind only.
LEMMA TrimBegins ==
  ASSUME NEW T, NEW text \in Seq(T), NEW m \in 0..Len(text),
         text[1] \notin Whitespace, Trim(SubSeq(text, 1, m)) # <<>>
  PROVE  \E b \in 1..Len(text) : Trim(SubSeq(text, 1, m)) = SubSeq(text, 1, b)
<1> DEFINE part == SubSeq(text, 1, m)
           kept == {i \in DOMAIN part : part[i] \notin Whitespace}
<1>1. Len(text) \in Nat /\ m \in Nat /\ m <= Len(text)
  OBVIOUS
<1>2. part \in Seq(T) /\ Len(part) = m /\ \A i \in 1..m : part[i] = text[i]
  <2>1. 1 \in Nat /\ 1 <= 1 /\ 1 <= m + 1 /\ (m - 1) + 1 = m /\ \A i \in 1..m : (1 + i) - 1 = i
    BY <1>1
  <2>2. /\ part \in Seq(T) /\ Len(part) = (m - 1) + 1
        /\ \A i \in 1..((m - 1) + 1) : part[i] = text[(1 + i) - 1]
    BY <1>1, <2>1, SliceIs
  <2> HIDE DEF part
  <2> QED
    BY <2>1, <2>2
<1>3. kept # {} /\ Trim(part) = SubSeq(part, Min(kept), Max(kept))
  BY DEF Trim
<1>4. DOMAIN part = 1..m
  BY <1>2
<1> HIDE DEF part
<1>5. kept \in SUBSET Nat /\ kept \in SUBSET (0..m) /\ kept \subseteq 1..m
  BY <1>1, <1>4
<1>6. m >= 1 /\ 1 \in kept
  <2>1. m >= 1
    BY <1>1, <1>3, <1>5
  <2>2. 1 \in 1..m
    BY <1>1, <2>1
  <2> QED
    BY <1>2, <1>4, <2>1, <2>2
<1> HIDE DEF kept
<1>7. Min(kept) = 1
  <2>1. Min(kept) \in kept /\ Min(kept) <= 1
    BY <1>3, <1>5, <1>6, MinFacts
  <2>2. Min(kept) \in 1..m
    BY <1>5, <2>1
  <2>3. \A k \in 1..m : k <= 1 => k = 1
    BY <1>1
  <2> QED
    BY <2>1, <2>2, <2>3
<1>8. Max(kept) \in 1..m
  BY <1>1, <1>3, <1>5, MaxFacts
<1> DEFINE b == Max(kept)
<1> HIDE DEF b
<1>9. b \in 1..m /\ b \in 1..Len(text)
  BY <1>1, <1>8 DEF b
<1>10. SubSeq(part, 1, b) = SubSeq(text, 1, b)
  <2> DEFINE x == SubSeq(part, 1, b)
             y == SubSeq(text, 1, b)
  <2>1. 1 \in Nat /\ b \in Nat /\ 1 <= 1 /\ 1 <= b + 1 /\ b <= Len(part) /\ b <= Len(text)
        /\ (b - 1) + 1 = b /\ \A i \in 1..b : (1 + i) - 1 = i /\ i \in 1..m
    BY <1>1, <1>2, <1>9
  <2>2. /\ x \in Seq(T) /\ Len(x) = (b - 1) + 1
        /\ \A i \in 1..((b - 1) + 1) : x[i] = part[(1 + i) - 1]
    BY <1>2, <2>1, SliceIs
  <2>3. /\ y \in Seq(T) /\ Len(y) = (b - 1) + 1
        /\ \A i \in 1..((b - 1) + 1) : y[i] = text[(1 + i) - 1]
    BY <2>1, SliceIs
  <2> HIDE DEF x, y
  <2>4. Len(x) = Len(y) /\ \A i \in 1..Len(x) : x[i] = y[i]
    BY <1>2, <2>1, <2>2, <2>3
  <2>5. x = y
    BY <2>2, <2>3, <2>4, SeqEqual
  <2> QED
    BY <2>5 DEF x, y
<1> QED
  BY <1>3, <1>7, <1>9, <1>10 DEF part, b

-----------------------------------------------------------------------------
(* The three parts of QuotesAreExact *)

LEMMA ValuesAreExact ==
  ASSUME ParserInv, LinesInv, doc \in ValueLines
  PROVE  /\ phase # "malformed"
         /\ IsParsed => root.entries = [k \in {<<"k">>} |-> StringNode(Meaning[Behind(doc[1].text, 3)])]
<1>1. PICK w \in Writings : doc = ValueLine(w[1])
  BY DEF ValueLines
<1>2. PICK quote \in Quotes : \E t : IsWriting(w, quote, t)
  BY WritingIs
<1>3. PICK text : IsWriting(w, quote, text)
  BY <1>2
<1>4. w = <<Writes(text, quote), text>> /\ text \in Seq(Char) /\ EscapesTabs(quote, text)
  BY <1>3 DEF IsWriting
<1> DEFINE raw == Writes(text, quote)
           line == ValueText(raw)
<1>5. w[1] = raw
  BY <1>4
<1>6. doc = OneLine(line)
  BY <1>1, <1>5, LinesAre
<1>7. /\ KeptAsIs(line) /\ Tabless(line)
      /\ SplitKeyValue(line) = [ok |-> TRUE, key |-> <<"k">>, raw |-> raw]
  BY <1>4, ValueIsRead, LinesTabless
<1>8. ParseInlineValue(raw) = StringNode(text)
  BY <1>4, QuotedNode
<1>9. raw \in Seq(Char) /\ raw # <<>> /\ Len(raw) >= 1
  BY <1>4, WritesTyped
<1>10. Meaning[raw] = text
  BY <1>4, MeaningIs
<1> HIDE DEF raw
<1>11. doc[1].text = line
  BY <1>6 DEF OneLine
<1>12. Behind(doc[1].text, 3) = raw
  BY <1>9, <1>11, PartsAre
<1> HIDE DEF line
<1>13. StringNode(text) # Unreadable
  BY DEF StringNode, Unreadable
<1>14. phase # "malformed" /\ (IsParsed => root.entries = [k \in {<<"k">>} |-> ParseInlineValue(raw)])
  <2>1. SplitKeyValue(line).ok /\ SplitKeyValue(line).key = <<"k">> /\ SplitKeyValue(line).raw = raw
    BY <1>7
  <2>2. /\ SplitKeyValue(line).raw # <<>>
        /\ ParseInlineValue(SplitKeyValue(line).raw) # Unreadable
    BY <1>8, <1>9, <1>13, <2>1
  <2>3. /\ phase # "malformed"
        /\ IsParsed => root.entries = [k \in {SplitKeyValue(line).key} |->
                                        ParseInlineValue(SplitKeyValue(line).raw)]
    BY <1>6, <1>7, <2>1, <2>2, OneLineParsed
  <2> QED
    BY <2>1, <2>3
<1> QED
  BY <1>8, <1>10, <1>12, <1>14

LEMMA KeysAreExact ==
  ASSUME ParserInv, LinesInv, doc \in KeyLines
  PROVE  /\ phase # "malformed"
         /\ IsParsed => DOMAIN root.entries = {Meaning[Before(doc[1].text, 3)]}
<1>1. PICK w \in Writings : doc = KeyLine(w[1])
  BY DEF KeyLines
<1>2. PICK quote \in Quotes : \E t : IsWriting(w, quote, t)
  BY WritingIs
<1>3. PICK text : IsWriting(w, quote, text)
  BY <1>2
<1>4. w = <<Writes(text, quote), text>> /\ text \in Seq(Char) /\ EscapesTabs(quote, text)
  BY <1>3 DEF IsWriting
<1> DEFINE raw == Writes(text, quote)
           line == KeyOf(raw)
<1>5. w[1] = raw
  BY <1>4
<1>6. doc = OneLine(line)
  BY <1>1, <1>5, LinesAre
<1>7. /\ KeptAsIs(line) /\ Tabless(line)
      /\ SplitKeyValue(line) = [ok |-> TRUE, key |-> text, raw |-> <<"x">>]
  BY <1>4, KeyIsRead, LinesTabless
<1>8. raw \in Seq(Char) /\ raw # <<>> /\ Len(raw) >= 1
  BY <1>4, WritesTyped
<1>9. Meaning[raw] = text
  BY <1>4, MeaningIs
<1> HIDE DEF raw
<1>10. doc[1].text = line
  BY <1>6 DEF OneLine
<1>11. Before(doc[1].text, 3) = raw
  BY <1>8, <1>10, PartsAre
<1> HIDE DEF line
<1>12. <<"x">> # <<>>
  OBVIOUS
<1>13. phase # "malformed" /\ (IsParsed => root.entries = [k \in {text} |-> ParseInlineValue(<<"x">>)])
  <2>1. SplitKeyValue(line).ok /\ SplitKeyValue(line).key = text /\ SplitKeyValue(line).raw = <<"x">>
    BY <1>7
  <2>2. /\ SplitKeyValue(line).raw # <<>>
        /\ ParseInlineValue(SplitKeyValue(line).raw) # Unreadable
    BY <1>12, <2>1, WordNode
  <2>3. /\ phase # "malformed"
        /\ IsParsed => root.entries = [k \in {SplitKeyValue(line).key} |->
                                        ParseInlineValue(SplitKeyValue(line).raw)]
    BY <1>6, <1>7, <2>1, <2>2, OneLineParsed
  <2> QED
    BY <2>1, <2>3
<1> QED
  BY <1>9, <1>11, <1>13

LEMMA SoundValue ==
  ASSUME NEW raw \in Seq(Char), Starts(raw, Quotes), ToSet(raw) \cap Controls = {},
         ParseInlineValue(raw) # Unreadable
  PROVE  raw = Writes(ParseInlineValue(raw).text, Head(raw))
<1>1. raw # <<>> /\ Head(raw) \in Quotes
  BY DEF Starts
<1>2. ParseQuotedString(raw).kind # "bad"
  <2>1. Head(raw) # "["
    BY <1>1 DEF Quotes
  <2>2. raw # <<"[", "]">>
    BY <2>1
  <2> QED
    BY <2>2 DEF ParseInlineValue
<1>3. PICK text \in Seq(Char) : raw = Writes(text, Head(raw))
  BY <1>2, QuotedIsWritten
<1>4. ParseInlineValue(raw) = StringNode(text)
  BY <1>1, <1>3, QuotedNode
<1>5. ParseInlineValue(raw).text = text
  BY <1>4 DEF StringNode
<1> QED
  BY <1>3, <1>5

LEMMA SoundKey ==
  ASSUME NEW text \in Seq(Char), Starts(text, Quotes), ToSet(text) \cap Controls = {},
         SplitKeyValue(text).ok
  PROVE  IsPrefix(Writes(SplitKeyValue(text).key, Head(text)), text)
<1>1. PICK m \in 0..Len(text) :
        LET key == Trim(SubSeq(text, 1, m))
        IN /\ key # <<>> /\ ParseQuotedString(key).kind # "bad"
           /\ SplitKeyValue(text).key = ParseQuotedString(key).value
  BY SplitParts
<1>2. text # <<>> /\ Head(text) \in Quotes /\ text[1] = Head(text)
  BY DEF Starts
<1>3. text[1] \notin Whitespace
  BY <1>2, NotBlank
<1>4. PICK b \in 1..Len(text) : Trim(SubSeq(text, 1, m)) = SubSeq(text, 1, b)
  BY <1>1, <1>3, TrimBegins
<1> DEFINE key == SubSeq(text, 1, b)
<1>5. key \in Seq(Char) /\ Len(key) = b /\ \A i \in 1..b : key[i] = text[i]
  <2>1. 1 \in Nat /\ b \in Nat /\ 1 <= 1 /\ 1 <= b + 1 /\ b <= Len(text)
        /\ (b - 1) + 1 = b /\ \A i \in 1..b : (1 + i) - 1 = i
    OBVIOUS
  <2>2. /\ key \in Seq(Char) /\ Len(key) = (b - 1) + 1
        /\ \A i \in 1..((b - 1) + 1) : key[i] = text[(1 + i) - 1]
    BY <2>1, SliceIs
  <2> HIDE DEF key
  <2> QED
    BY <2>1, <2>2
<1>6. ParseQuotedString(key).kind # "bad" /\ SplitKeyValue(text).key = ParseQuotedString(key).value
  BY <1>1, <1>4
<1> HIDE DEF key
<1>7. b \in Nat /\ b >= 1 /\ b <= Len(text) /\ 1 \in 1..b /\ \A i \in 1..b : i \in DOMAIN text
  OBVIOUS
<1>8. Head(key) = Head(text) /\ key # <<>>
  BY <1>2, <1>5, <1>7
<1>9. Starts(key, Quotes)
  BY <1>2, <1>8 DEF Starts
<1>10. ToSet(key) \cap Controls = {}
  <2>1. DOMAIN key = 1..b
    BY <1>5
  <2>2. \A i \in 1..b : key[i] \in ToSet(text)
    BY <1>5, <1>7 DEF ToSet
  <2> QED
    BY <2>1, <2>2 DEF ToSet
<1>11. PICK value \in Seq(Char) : ParseQuotedString(key) = Quoted(value) /\ key = Writes(value, Head(key))
  BY <1>5, <1>6, <1>9, <1>10, QuotedIsWritten
<1>12. SplitKeyValue(text).key = value
  BY <1>6, <1>11 DEF Quoted
<1>13. Writes(SplitKeyValue(text).key, Head(text)) = key
  BY <1>8, <1>11, <1>12
<1>14. SubSeq(key, 1, Len(key)) = key
  BY <1>5, SubSeqFull
<1>15. SubSeq(key, 1, Len(key)) = SubSeq(text, 1, Len(key))
  BY <1>5, <1>14 DEF key
<1>16. IsPrefix(key, text)
  BY <1>5, <1>7, <1>15 DEF IsPrefix
<1> QED
  BY <1>13, <1>16

LEMMA ReadingsAreExact ==
  ASSUME ParserInv, NEW i \in DOMAIN lines, IsEntry(i)
  PROVE  LET raw == LineSplit(i).raw
             node == ParseInlineValue(raw)
             isClean(t) == ToSet(t) \cap Controls = {}
         IN /\ Starts(raw, Quotes) /\ isClean(raw) /\ node # Unreadable =>
                 raw = Writes(node.text, Head(raw))
            /\ Starts(lines[i].text, Quotes) /\ isClean(lines[i].text) =>
                 IsPrefix(Writes(LineSplit(i).key, Head(lines[i].text)), lines[i].text)
<1> DEFINE text == lines[i].text
<1>1. text \in Seq(Char)
  <2>1. LinesOK
    BY DEF ParserInv, TypeOK, LinesOK, LineType
  <2>2. lines[i] \in LineType
    BY <2>1 DEF LinesOK
  <2>3. text \in Seq(STRING)
    BY <2>2 DEF LineType
  <2> QED
    BY <2>3, TextsAreChars
<1>2. LineSplit(i) = SplitKeyValue(text) /\ SplitKeyValue(text).ok
  BY DEF LineSplit, IsEntry
<1> HIDE DEF text
<1>3. SplitKeyValue(text).raw \in Seq(Char)
  BY <1>1, <1>2, SplitParts
<1>4. ASSUME Starts(text, Quotes), ToSet(text) \cap Controls = {}
      PROVE  IsPrefix(Writes(LineSplit(i).key, Head(text)), text)
  BY <1>1, <1>2, <1>4, SoundKey
<1> DEFINE raw == LineSplit(i).raw
<1>5. raw \in Seq(Char)
  BY <1>2, <1>3
<1> HIDE DEF raw
<1>6. ASSUME Starts(raw, Quotes), ToSet(raw) \cap Controls = {}, ParseInlineValue(raw) # Unreadable
      PROVE  raw = Writes(ParseInlineValue(raw).text, Head(raw))
  BY <1>5, <1>6, SoundValue
<1> QED
  BY <1>4, <1>6 DEF text, raw

(***************************************************************************)
(* Quoted texts of every length are read back as they were written, in a   *)
(* value and in a key, whatever colons, number signs, quotes and           *)
(* backslashes are in them; and nothing else is taken for a quoted text.   *)
(***************************************************************************)
THEOREM QuotedTextsAreExact == Spec => []QuotesAreExact
<1>1. Init => LinesInv
  BY DEF Init, LinesInv
<1>2. ParserInv => TypeOK /\ FrameInv
  BY DEF ParserInv
<1>3. ParserInv /\ LinesInv => QuotesAreExact
  <2> SUFFICES ASSUME ParserInv, LinesInv PROVE QuotesAreExact
    OBVIOUS
  <2> QED
    BY ValuesAreExact, KeysAreExact, ReadingsAreExact DEF QuotesAreExact, IsParsed
<1> QED
  BY <1>1, <1>2, <1>3, LinesNext, ParserInvariant, PTL DEF Spec
==============================================================================
