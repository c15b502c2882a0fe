---------------------------- MODULE Engine_proofs ----------------------------
(***************************************************************************)
(* Engine.Run, for every slice of checks, every set of statuses and every  *)
(* kind of context: no check runs ungated, gated checks do not change the  *)
(* exit code, every answer on record is the check's own, only checks given *)
(* up on overlap with others, every gated result has a cause, and the run  *)
(* implements RunContract.                                                 *)
(***************************************************************************)
EXTENDS Engine, SequenceTheorems, WellFoundedInduction, TLAPS

-----------------------------------------------------------------------------
(***************************************************************************)
(* The graph: CheckGraph's inductive invariant, for every slice of checks, *)
(* and what follows from it.  The order is topological, and sorted as far  *)
(* as that allows; a cycle error quotes a cycle; and the slices that are   *)
(* refused are the defective ones.                                         *)
(***************************************************************************)

FrameSet == [id : IDs, next : Nat \ {0}]

\* The initial states satisfy the inductive invariant.
LEMMA GraphInitInv == GraphInit => GraphInv
<1> SUFFICES ASSUME GraphInit PROVE GraphInv
  OBVIOUS
<1>1. IDs = {} /\ frames = <<>> /\ Len(frames) = 0 /\ ordered = <<>> /\ cycle = <<>>
  BY DEF GraphInit, IDs
<1>2. GraphTypeOK
  BY <1>1, InputsAssumption DEF GraphInit, GraphTypeOK, Phases, Errors, IDs
<1>3. FreshInv /\ StackInv /\ ColourInv /\ RankInv /\ OrderInv
  BY <1>1 DEF GraphInit, FreshInv, StackInv, ColourInv, RankInv, OrderInv
<1>4. Topological /\ CycleIsReal
  BY DEF GraphInit, Topological, CycleIsReal
<1> QED
  BY <1>2, <1>3, <1>4 DEF GraphInv

-----------------------------------------------------------------------------
(* The call stack both searches share *)

\* callers is the stack at the moment visit(id) is entered.
Calls(id, callers) ==
    \/ frames = <<>> /\ callers = frames
    \/ frames # <<>> /\ ~Returning /\ callers = Advanced /\ id = Callee

StackTyped == frames \in Seq(FrameSet) /\ checks \in [IDs -> Seq(Nat)]

\* The caller's frame after its loop variable moved on, and the ID it calls.
LEMMA AdvancedFacts ==
  ASSUME StackTyped, StackInv, frames # <<>>, ~Returning
  PROVE  /\ Len(frames) \in Nat \ {0} /\ Top \in FrameSet
         /\ Len(checks[Top.id]) \in Nat /\ Top.next \in 1..Len(checks[Top.id])
         /\ Callee \in Prereqs(Top.id)
         /\ Advanced \in Seq(FrameSet) /\ Len(Advanced) = Len(frames)
         /\ \A i \in 1..Len(frames) :
              /\ Advanced[i].id = frames[i].id
              /\ Advanced[i].next = IF i = Len(frames) THEN frames[i].next + 1
                                                      ELSE frames[i].next
<1>1. Len(frames) \in Nat \ {0}
  BY DEF StackTyped
<1>2. Top \in FrameSet
  BY <1>1 DEF StackTyped, Top
<1>3. checks[Top.id] \in Seq(Nat) /\ Top.next \in Nat \ {0}
  BY <1>2 DEF StackTyped, FrameSet
<1>4. Len(checks[Top.id]) \in Nat /\ Top.next \in 1..Len(checks[Top.id])
  BY <1>3 DEF Returning
<1>5. Callee \in Prereqs(Top.id)
  BY <1>4 DEF Callee, Prereqs
<1>6. \A i \in 1..Len(frames) : frames[i] \in FrameSet
  BY DEF StackTyped
<1>7. Advanced = [frames EXCEPT ![Len(frames)] = [Top EXCEPT !.next = Top.next + 1]]
  BY DEF Advanced, Top
<1>8. [Top EXCEPT !.next = Top.next + 1] \in FrameSet
  BY <1>2 DEF FrameSet
<1>9. /\ Advanced \in Seq(FrameSet) /\ Len(Advanced) = Len(frames)
      /\ \A i \in 1..Len(frames) :
           Advanced[i] = IF i = Len(frames) THEN [Top EXCEPT !.next = Top.next + 1]
                                            ELSE frames[i]
  BY <1>1, <1>7, <1>8, ExceptSeq DEF StackTyped
<1>10. \A i \in 1..Len(frames) :
              /\ Advanced[i].id = frames[i].id
              /\ Advanced[i].next = IF i = Len(frames) THEN frames[i].next + 1
                                                      ELSE frames[i].next
  BY <1>1, <1>2, <1>6, <1>9 DEF FrameSet, Top
<1> QED
  BY <1>1, <1>2, <1>4, <1>5, <1>9, <1>10

\* A call that descends pushes a frame and leaves what was looked at as it was.
LEMMA CallPush ==
  ASSUME StackTyped, StackInv, UNCHANGED checks,
         NEW id \in IDs, ~OnStack(id), NEW callers, Calls(id, callers),
         frames' = Append(callers, Frame(id))
  PROVE  /\ frames' \in Seq(FrameSet) /\ StackInv'
         /\ Len(frames') = Len(frames) + 1 /\ frames'[Len(frames) + 1].id = id
         /\ \A i \in 1..Len(frames) :
              frames'[i].id = frames[i].id /\ Looked(i)' = Looked(i)
         /\ \A i \in Nat : i = Len(frames) + 1 => Looked(i)' = {}
         /\ \A c \in IDs : OnStack(c)' <=> OnStack(c) \/ c = id
<1>1. /\ callers \in Seq(FrameSet) /\ Len(callers) = Len(frames) /\ Len(frames) \in Nat
      /\ \A i \in 1..Len(frames) :
           /\ callers[i].id = frames[i].id
           /\ callers[i].next = IF i = Len(frames) THEN frames[i].next + 1
                                                   ELSE frames[i].next
  <2>1. CASE frames = <<>> /\ callers = frames
    BY <2>1 DEF StackTyped
  <2>2. CASE frames # <<>> /\ ~Returning /\ callers = Advanced /\ id = Callee
    BY <2>2, AdvancedFacts
  <2> QED
    BY <2>1, <2>2 DEF Calls
<1>2. Frame(id) \in FrameSet /\ Frame(id).id = id /\ Frame(id).next = 1
  BY DEF Frame, FrameSet
<1>3. /\ frames' \in Seq(FrameSet) /\ Len(frames') = Len(frames) + 1
      /\ \A i \in 1..Len(frames) : frames'[i] = callers[i]
      /\ frames'[Len(frames) + 1] = Frame(id)
  BY <1>1, <1>2, AppendProperties
<1>4. \A i \in 1..Len(frames) : frames'[i].id = frames[i].id
  BY <1>1, <1>3
<1>5. \A i \in 1..Len(frames) : frames[i].id \in IDs /\ frames[i].next \in Nat \ {0}
  <2>1. \A i \in 1..Len(frames) : frames[i] \in FrameSet
    BY DEF StackTyped
  <2> QED
    BY <2>1 DEF FrameSet
<1>6. ASSUME NEW i \in 1..Len(frames) PROVE Looked(i)' = Looked(i)
  <2>1. i # Len(frames') /\ frames'[i].id = frames[i].id
    BY <1>1, <1>3, <1>4
  <2>2. frames'[i].next - 2 = frames[i].next - (IF i = Len(frames) THEN 1 ELSE 2)
    BY <1>1, <1>3, <1>5
  <2>3. Looked(i)' = {checks'[frames'[i].id][k] : k \in 1..(frames'[i].next - 2)}
    BY <2>1 DEF Looked
  <2> QED
    BY <2>1, <2>2, <2>3 DEF Looked
<1>7. \A i \in Nat : i = Len(frames) + 1 => Looked(i)' = {}
  BY <1>1, <1>2, <1>3 DEF Looked
<1>8. \A c \in IDs : OnStack(c)' <=> OnStack(c) \/ c = id
  <2>1. Len(frames) \in Nat /\ 1..Len(frames') = 1..Len(frames) \union {Len(frames) + 1}
    BY <1>1, <1>3
  <2> QED
    BY <2>1, <1>2, <1>3, <1>4 DEF OnStack
<1>9. StackInv'
  <2>1. \A i \in 1..Len(frames') : frames'[i].next <= Len(checks'[frames'[i].id]) + 1
    <3> SUFFICES ASSUME NEW i \in 1..Len(frames')
                 PROVE  frames'[i].next <= Len(checks[frames'[i].id]) + 1
      OBVIOUS
    <3>1. CASE i = Len(frames) + 1
      <4>1. Len(checks[id]) \in Nat
        BY DEF StackTyped
      <4> QED
        BY <3>1, <4>1, <1>2, <1>3
    <3>2. CASE i \in 1..Len(frames) /\ i # Len(frames)
      <4>1. frames[i].next <= Len(checks[frames[i].id]) + 1
        BY <3>2 DEF StackInv
      <4>2. frames'[i].next = frames[i].next /\ frames'[i].id = frames[i].id
        BY <3>2, <1>1, <1>3, <1>4
      <4> QED
        BY <4>1, <4>2
    <3>3. CASE i = Len(frames) /\ frames # <<>>
      <4>1. i \in 1..Len(frames)
        BY <3>3, <1>1, <1>3
      <4>2. ~Returning /\ callers = Advanced
        BY <3>3 DEF Calls
      <4>3. Top.next \in 1..Len(checks[Top.id]) /\ Len(checks[Top.id]) \in Nat
        BY <3>3, <4>2, AdvancedFacts
      <4>4. frames'[i].next = Top.next + 1 /\ frames'[i].id = Top.id
        BY <3>3, <4>1, <1>1, <1>3 DEF Top
      <4> QED
        BY <4>3, <4>4
    <3> QED
      BY <3>1, <3>2, <3>3, <1>1, <1>3
  <2>2. \A i \in 1..(Len(frames') - 1) :
          /\ frames'[i].next >= 2
          /\ checks'[frames'[i].id][frames'[i].next - 1] = frames'[i + 1].id
    <3> SUFFICES ASSUME NEW i \in 1..Len(frames)
                 PROVE  /\ frames'[i].next >= 2
                        /\ checks[frames'[i].id][frames'[i].next - 1] = frames'[i + 1].id
      BY <1>1, <1>3
    <3>1. CASE i # Len(frames)
      <4>1. i \in 1..(Len(frames) - 1) /\ i + 1 \in 1..Len(frames)
        BY <3>1, <1>1
      <4>2. frames[i].next >= 2 /\ checks[frames[i].id][frames[i].next - 1] = frames[i + 1].id
        BY <4>1 DEF StackInv
      <4>3. frames'[i].next = frames[i].next
        BY <3>1, <1>1, <1>3
      <4>4. frames'[i].id = frames[i].id /\ frames'[i + 1].id = frames[i + 1].id
        BY <4>1, <1>4
      <4> QED
        BY <4>2, <4>3, <4>4
    <3>2. CASE i = Len(frames)
      <4>1. frames # <<>> /\ callers = Advanced /\ id = Callee /\ ~Returning
        BY <3>2, <1>1 DEF Calls
      <4>2. frames'[i].next = Top.next + 1 /\ frames'[i].id = Top.id /\ Top.next \in Nat \ {0}
        BY <3>2, <1>1, <1>3, <1>5 DEF Top
      <4> QED
        <5>1. frames'[i + 1].id = id
          BY <3>2, <1>2, <1>3
        <5>2. id = checks[Top.id][Top.next]
          BY <4>1 DEF Callee
        <5>3. frames'[i].next - 1 = Top.next /\ frames'[i].next >= 2
          BY <4>2
        <5> QED
          BY <4>2, <5>1, <5>2, <5>3
    <3> QED
      BY <3>1, <3>2
  <2>3. \A i, j \in 1..Len(frames') : frames'[i].id = frames'[j].id => i = j
    <3>1. \A i \in 1..Len(frames) : frames'[i].id = frames[i].id /\ frames[i].id # id
      BY <1>4 DEF OnStack
    <3>2. frames'[Len(frames) + 1].id = id
      BY <1>2, <1>3
    <3>3. \A i \in 1..Len(frames') : i \in 1..Len(frames) \/ i = Len(frames) + 1
      BY <1>1, <1>3
    <3>4. \A i, j \in 1..Len(frames) : frames[i].id = frames[j].id => i = j
      BY DEF StackInv
    <3> QED
      BY <3>1, <3>2, <3>3, <3>4
  <2> QED
    BY <2>1, <2>2, <2>3 DEF StackInv
<1> QED
  BY <1>3, <1>2, <1>4, <1>6, <1>7, <1>8, <1>9

\* A call that returns at once adds its ID to what the caller looked at.
LEMMA CallSkip ==
  ASSUME StackTyped, StackInv, UNCHANGED checks,
         NEW id \in IDs, NEW callers, Calls(id, callers), frames' = callers
  PROVE  /\ frames' \in Seq(FrameSet) /\ StackInv' /\ Len(frames') = Len(frames)
         /\ \A i \in 1..Len(frames) : frames'[i].id = frames[i].id
         /\ \A i \in 1..Len(frames) : Looked(i)' \subseteq Looked(i) \union {id}
         /\ \A c \in IDs : OnStack(c)' <=> OnStack(c)
<1>1. CASE frames = <<>> /\ callers = frames
  BY <1>1 DEF StackTyped, StackInv, OnStack
<1>2. CASE frames # <<>> /\ ~Returning /\ callers = Advanced /\ id = Callee
  <2>1. /\ Len(frames) \in Nat \ {0} /\ Top.next \in 1..Len(checks[Top.id])
        /\ Len(checks[Top.id]) \in Nat
        /\ frames' \in Seq(FrameSet) /\ Len(frames') = Len(frames)
        /\ \A i \in 1..Len(frames) :
             /\ frames'[i].id = frames[i].id
             /\ frames'[i].next = IF i = Len(frames) THEN frames[i].next + 1
                                                    ELSE frames[i].next
    BY <1>2, AdvancedFacts
  <2>2. \A i \in 1..Len(frames) : frames[i] \in FrameSet
    BY DEF StackTyped
  <2>3. \A i \in 1..Len(frames) : frames[i].id \in IDs /\ frames[i].next \in Nat \ {0}
    BY <2>2 DEF FrameSet
  <2>4. ASSUME NEW i \in 1..Len(frames) PROVE Looked(i)' \subseteq Looked(i) \union {id}
    <3>1. CASE i # Len(frames)
      <4>1. /\ frames'[i].id = frames[i].id /\ frames'[i].next = frames[i].next
            /\ i # Len(frames')
        BY <2>1, <3>1
      <4>2. Looked(i) = {checks[frames[i].id][k] : k \in 1..(frames[i].next - 2)}
        BY <3>1 DEF Looked
      <4>3. Looked(i)' = {checks'[frames'[i].id][k] : k \in 1..(frames'[i].next - 2)}
        BY <4>1 DEF Looked
      <4> QED
        BY <4>1, <4>2, <4>3
    <3>2. CASE i = Len(frames)
      <4>1. frames[i].id = Top.id /\ frames[i].next = Top.next
        BY <3>2 DEF Top
      <4>2. Looked(i) = {checks[Top.id][k] : k \in 1..(Top.next - 1)}
        BY <3>2, <4>1 DEF Looked
      <4>3. Looked(i)' = {checks[Top.id][k] : k \in 1..Top.next}
        BY <3>2, <4>1, <2>1, <2>3 DEF Looked
      <4>4. id = checks[Top.id][Top.next]
        BY <1>2 DEF Callee
      <4>5. 1..Top.next = 1..(Top.next - 1) \union {Top.next}
        BY <2>1
      <4> QED
        BY <4>2, <4>3, <4>4, <4>5
    <3> QED BY <3>1, <3>2
  <2>5. \A c \in IDs : OnStack(c)' <=> OnStack(c)
    BY <2>1 DEF OnStack
  <2>6. StackInv'
    <3>1. ASSUME NEW i \in 1..Len(frames)
          PROVE  frames'[i].next <= Len(checks'[frames'[i].id]) + 1
      <4>1. CASE i # Len(frames)
        BY <2>1, <4>1 DEF StackInv
      <4>2. CASE i = Len(frames)
        <5>1. frames'[i].next = Top.next + 1 /\ frames'[i].id = Top.id
          BY <2>1, <4>2 DEF Top
        <5> QED
          BY <5>1, <2>1
      <4> QED BY <4>1, <4>2
    <3>2. ASSUME NEW i \in 1..(Len(frames) - 1)
          PROVE  /\ frames'[i].next >= 2
                 /\ checks'[frames'[i].id][frames'[i].next - 1] = frames'[i + 1].id
      <4>1. i \in 1..Len(frames) /\ i # Len(frames) /\ i + 1 \in 1..Len(frames)
        BY <2>1
      <4>2. /\ frames'[i].next = frames[i].next /\ frames'[i].id = frames[i].id
            /\ frames'[i + 1].id = frames[i + 1].id
        BY <2>1, <4>1
      <4> QED
        BY <4>2 DEF StackInv
    <3>3. \A i, j \in 1..Len(frames) : frames'[i].id = frames'[j].id => i = j
      BY <2>1 DEF StackInv
    <3> QED
      BY <2>1, <3>1, <3>2, <3>3 DEF StackInv
  <2> QED
    BY <2>1, <2>4, <2>5, <2>6
<1> QED
  BY <1>1, <1>2 DEF Calls

\* A visit that returns has looked at every prerequisite, and its caller at it.
LEMMA ReturnPop ==
  ASSUME StackTyped, StackInv, UNCHANGED checks,
         frames # <<>>, Returning, frames' = Pop(frames)
  PROVE  /\ Len(frames) \in Nat \ {0} /\ Top.id \in IDs /\ OnStack(Top.id)
         /\ Looked(Len(frames)) = Prereqs(Top.id)
         /\ frames' \in Seq(FrameSet) /\ StackInv' /\ Len(frames') = Len(frames) - 1
         /\ \A i \in 1..(Len(frames) - 1) : frames'[i] = frames[i]
         /\ \A i \in 1..(Len(frames) - 1) : Looked(i)' \subseteq Looked(i) \union {Top.id}
         /\ \A c \in IDs : OnStack(c)' <=> OnStack(c) /\ c # Top.id
<1>1. Len(frames) \in Nat \ {0} /\ Top \in FrameSet
  BY DEF StackTyped, Top
<1>2. Top.id \in IDs /\ Top.next \in Nat \ {0} /\ OnStack(Top.id)
  BY <1>1 DEF FrameSet, OnStack, Top
<1>3. Looked(Len(frames)) = Prereqs(Top.id)
  <2>1. Len(checks[Top.id]) \in Nat
    BY <1>2 DEF StackTyped
  <2>2. Top.next <= Len(checks[Top.id]) + 1
    BY <1>1 DEF StackInv, Top
  <2>3. Top.next = Len(checks[Top.id]) + 1
    BY <1>2, <2>1, <2>2 DEF Returning
  <2> QED
    BY <2>1, <2>3 DEF Looked, Prereqs, Top
<1>4. /\ frames' \in Seq(FrameSet) /\ Len(frames') = Len(frames) - 1
      /\ \A i \in 1..(Len(frames) - 1) : frames'[i] = frames[i]
  <2> DEFINE m == Len(frames) - 1
  <2>1. frames' = SubSeq(frames, 1, m) /\ m \in 0..Len(frames) /\ 1 \in 1..(Len(frames) + 1)
    BY <1>1 DEF Pop
  <2>2. frames \in Seq(FrameSet)
    BY DEF StackTyped
  <2>3. \A i \in 1..m : i \in 1..Len(frames) /\ frames[i] \in FrameSet
    BY <1>1, <2>2
  <2>4. frames' = [i \in 1..m |-> frames[i]] /\ m \in Nat
    BY <1>1, <2>1, <2>2
  <2>5. frames' \in Seq(FrameSet)
    BY <2>3, <2>4, IsASeq
  <2> QED
    BY <2>4, <2>5
<1>5. \A i \in 1..Len(frames) : frames[i] \in FrameSet
  BY DEF StackTyped
<1>6. \A i \in 1..Len(frames) : frames[i].id \in IDs /\ frames[i].next \in Nat \ {0}
  BY <1>5 DEF FrameSet
<1>7. ASSUME NEW i \in 1..(Len(frames) - 1)
      PROVE  Looked(i)' \subseteq Looked(i) \union {Top.id}
  <2>1. /\ i \in 1..Len(frames) /\ i # Len(frames) /\ frames[i].next >= 2
        /\ checks[frames[i].id][frames[i].next - 1] = frames[i + 1].id
    BY <1>1 DEF StackInv
  <2>2. Looked(i) = {checks[frames[i].id][k] : k \in 1..(frames[i].next - 2)}
    BY <2>1 DEF Looked
  <2>3. CASE i = Len(frames) - 1
    <3>1. Looked(i)' = {checks[frames[i].id][k] : k \in 1..(frames[i].next - 1)}
      BY <1>4, <2>3 DEF Looked
    <3>2. checks[frames[i].id][frames[i].next - 1] = Top.id
      BY <2>1, <2>3, <1>1 DEF Top
    <3>3. 1..(frames[i].next - 1) = 1..(frames[i].next - 2) \union {frames[i].next - 1}
      BY <2>1, <1>6
    <3> QED
      BY <2>2, <3>1, <3>2, <3>3
  <2>4. CASE i # Len(frames) - 1
    <3>1. Looked(i)' = {checks[frames[i].id][k] : k \in 1..(frames[i].next - 2)}
      BY <1>1, <1>4, <2>4 DEF Looked
    <3> QED
      BY <2>2, <3>1
  <2> QED
    BY <2>3, <2>4
<1>8. \A c \in IDs : OnStack(c)' <=> OnStack(c) /\ c # Top.id
  <2>1. \A i, j \in 1..Len(frames) : frames[i].id = frames[j].id => i = j
    BY DEF StackInv
  <2>2. \A i \in 1..Len(frames) : i \in 1..(Len(frames) - 1) \/ i = Len(frames)
    BY <1>1
  <2>3. ASSUME NEW c \in IDs, OnStack(c)' PROVE OnStack(c) /\ c # Top.id
    <3>1. PICK i \in 1..(Len(frames) - 1) : frames[i].id = c
      BY <1>4, <2>3 DEF OnStack
    <3>2. i \in 1..Len(frames) /\ i # Len(frames) /\ Len(frames) \in 1..Len(frames)
      BY <1>1
    <3> QED
      BY <2>1, <3>1, <3>2 DEF OnStack, Top
  <2>4. ASSUME NEW c \in IDs, OnStack(c), c # Top.id PROVE OnStack(c)'
    <3>1. PICK i \in 1..Len(frames) : frames[i].id = c
      BY <2>4 DEF OnStack
    <3>2. i \in 1..(Len(frames) - 1)
      BY <2>2, <2>4, <3>1 DEF Top
    <3> QED
      BY <1>4, <3>1, <3>2 DEF OnStack
  <2> QED
    BY <2>3, <2>4
<1>9. StackInv'
  <2>1. \A i \in 1..(Len(frames) - 1) : i \in 1..Len(frames)
    BY <1>1
  <2>2. ASSUME NEW i \in 1..(Len(frames') - 1)
        PROVE  /\ frames'[i].next >= 2
               /\ checks'[frames'[i].id][frames'[i].next - 1] = frames'[i + 1].id
    <3>1. i \in 1..(Len(frames) - 1) /\ i + 1 \in 1..(Len(frames) - 1)
      BY <1>1, <1>4
    <3> QED
      BY <1>4, <3>1 DEF StackInv
  <2>3. \A i \in 1..Len(frames') : frames'[i].next <= Len(checks'[frames'[i].id]) + 1
    BY <1>4, <2>1 DEF StackInv
  <2>4. \A i, j \in 1..Len(frames') : frames'[i].id = frames'[j].id => i = j
    BY <1>4, <2>1 DEF StackInv
  <2> QED
    BY <2>2, <2>3, <2>4 DEF StackInv
<1> QED
  BY <1>1, <1>2, <1>3, <1>4, <1>7, <1>8, <1>9

-----------------------------------------------------------------------------
(* The steps *)

\* Registering a check leaves the searches untouched.
LEMMA RegisterInv == GraphInv /\ Register => GraphInv'
<1> SUFFICES ASSUME GraphInv, Register PROVE GraphInv'
  OBVIOUS
<1>1. phase = "register"
  BY DEF Register
<1>2. frames = <<>> /\ tried = {} /\ visited = {} /\ ordered = <<>> /\ err = "none"
  BY <1>1 DEF GraphInv, FreshInv
<1>3. input \in Seq(Check) /\ registered \in 0..Len(input) /\ Len(input) \in Nat
        /\ IDs \subseteq Nat /\ checks \in [IDs -> Seq(Nat)] /\ cycle \in Seq(IDs)
        /\ clock \in Nat \ {0}
  <2>1. input \in Seq(Check) /\ registered \in 0..Len(input)
        /\ IDs \subseteq Nat /\ checks \in [IDs -> Seq(Nat)] /\ cycle \in Seq(IDs)
        /\ clock \in Nat \ {0}
    BY DEF GraphInv, GraphTypeOK
  <2> QED BY <2>1
<1>4. UNCHANGED <<input, cycle, frames, tried, state, rank, clock, visited, ordered>>
  BY DEF Register
<1> DEFINE c == input[registered + 1]
<1>5. CASE phase' = "rejected" /\ err' # "cycle" /\ err' \in Errors
             /\ UNCHANGED <<registered, checks>>
  <2>1. GraphTypeOK'
    BY <1>2, <1>3, <1>4, <1>5 DEF GraphTypeOK, Phases, IDs
  <2>2. (FreshInv /\ StackInv /\ ColourInv /\ RankInv /\ OrderInv)'
    BY <1>2, <1>4, <1>5 DEF FreshInv, StackInv, ColourInv, RankInv, OrderInv
  <2>3. (Topological /\ CycleIsReal)'
    BY <1>5 DEF Topological, CycleIsReal
  <2> QED
    BY <2>1, <2>2, <2>3 DEF GraphInv
<1>6. CASE /\ registered < Len(input)
           /\ registered' = registered + 1
           /\ checks' = [d \in IDs \union {c.id} |->
                           IF d = c.id THEN c.prereqs ELSE checks[d]]
           /\ UNCHANGED <<phase, err>>
  <2>1. c \in Check
    BY <1>3, <1>6
  <2>2. c.id \in Nat /\ c.prereqs \in Seq(Nat)
    BY <2>1 DEF Check
  <2>3. IDs' = IDs \union {c.id} /\ IDs' \subseteq Nat
    BY <1>6, <1>3, <2>2 DEF IDs
  <2>4. checks' \in [IDs' -> Seq(Nat)]
    BY <1>6, <1>3, <2>2, <2>3
  <2>5. cycle' \in Seq(IDs')
    BY <1>3, <1>4, <2>3, SeqMonotonic
  <2>6. GraphTypeOK'
    BY <1>1, <1>2, <1>3, <1>4, <1>6, <2>3, <2>4, <2>5
    DEF GraphTypeOK, Phases, Errors
  <2>7. (FreshInv /\ StackInv /\ ColourInv /\ RankInv /\ OrderInv)'
    BY <1>1, <1>2, <1>4, <1>6
    DEF FreshInv, StackInv, ColourInv, RankInv, OrderInv
  <2>8. (Topological /\ CycleIsReal)'
    BY <1>1, <1>2, <1>6 DEF Topological, CycleIsReal
  <2> QED
    BY <2>6, <2>7, <2>8 DEF GraphInv
<1> QED
  BY <1>5, <1>6 DEF Register, Refuse, Errors

\* Resolution leaves a graph closed under prerequisites, no ID coloured yet.
LEMMA ResolveInv == GraphInv /\ Resolve => GraphInv'
<1> SUFFICES ASSUME GraphInv, Resolve PROVE GraphInv'
  OBVIOUS
<1>1. phase = "register"
  BY DEF Resolve
<1>2. frames = <<>> /\ tried = {} /\ visited = {} /\ ordered = <<>> /\ err = "none"
  BY <1>1 DEF GraphInv, FreshInv
<1>3. GraphTypeOK
  BY DEF GraphInv
<1>4. UNCHANGED <<input, registered, checks, cycle, frames, tried, clock, visited, ordered>>
  BY DEF Resolve
<1>5. UNCHANGED <<IDs>> /\ \A c \in IDs : Prereqs(c)' = Prereqs(c)
  BY <1>4 DEF IDs, Prereqs
<1>6. CASE phase' = "rejected" /\ err' = "missing prerequisite"
  <2>1. GraphTypeOK'
    BY <1>2, <1>3, <1>4, <1>5, <1>6 DEF GraphTypeOK, Phases, Errors
  <2>4. FreshInv'
    BY <1>6 DEF FreshInv
  <2>5. StackInv'
    BY <1>2, <1>4 DEF StackInv
  <2>2. (FreshInv /\ StackInv)'
    BY <2>4, <2>5
  <2>3. (ColourInv /\ RankInv /\ OrderInv)'
    BY <1>6 DEF ColourInv, RankInv, OrderInv
  <2> QED
    BY <1>6, <2>3, <2>1, <2>2 DEF GraphInv, Topological, CycleIsReal
<1>7. CASE /\ \A c \in IDs : Prereqs(c) \subseteq IDs
           /\ phase' = "cycles"
           /\ state' = [c \in IDs |-> "unknown"]
           /\ rank' = [c \in IDs |-> 0]
           /\ UNCHANGED err
  <2>1. GraphTypeOK'
    BY <1>2, <1>3, <1>4, <1>5, <1>7 DEF GraphTypeOK, Phases, Errors
  <2>2. (FreshInv /\ StackInv /\ OrderInv)'
    BY <1>2, <1>4, <1>7 DEF FreshInv, StackInv, OrderInv
  <2>3. ColourInv'
    BY <1>2, <1>4, <1>5, <1>7 DEF ColourInv, OnStack
  <2>4. RankInv'
    BY <1>5, <1>7 DEF RankInv
  <2> QED
    BY <1>7, <1>2, <2>1, <2>2, <2>3, <2>4 DEF GraphInv, Topological, CycleIsReal
<1> QED
  BY <1>6, <1>7 DEF Resolve, Refuse

\* detectCycles' visit, called from its loop over the IDs or from a check's.
LEMMA CycleVisitInv ==
  ASSUME GraphInv, phase = "cycles", NEW id \in IDs, NEW callers, Calls(id, callers),
         CycleVisit(id, callers), tried' \subseteq tried \union {id},
         UNCHANGED <<input, registered, checks, rank, clock, visited, ordered>>
  PROVE  GraphInv'
<1>1. GraphTypeOK /\ StackInv /\ ColourInv /\ RankInv /\ CycleIsReal
  BY DEF GraphInv
<1>2. StackTyped
  BY <1>1 DEF GraphTypeOK, StackTyped, FrameSet
<1>3. visited = {} /\ ordered = <<>> /\ err = "none"
  BY DEF GraphInv, FreshInv
<1>4. /\ \A c \in IDs : state[c] = "active" <=> OnStack(c)
      /\ \A i \in 1..Len(frames) : \A p \in Looked(i) : state[p] = "done"
      /\ \A r \in tried : state[r] # "unknown"
  BY <1>1 DEF ColourInv
<1>5. /\ \A c \in IDs : Prereqs(c) \subseteq IDs
      /\ \A c \in IDs : state[c] = "done" =>
           /\ rank[c] < clock
           /\ \A p \in Prereqs(c) : state[p] = "done" /\ rank[p] < rank[c]
  BY <1>1 DEF RankInv
<1>6. IDs' = IDs /\ \A c \in IDs : Prereqs(c)' = Prereqs(c)
  BY DEF IDs, Prereqs
<1>7. tried' \subseteq IDs
  BY <1>1 DEF GraphTypeOK
<1>8. state \in [IDs -> {"unknown", "active", "done"}] /\ rank \in [IDs -> Nat]
  BY <1>1 DEF GraphTypeOK
<1>9. CASE /\ state[id] = "done"
           /\ frames' = callers
           /\ UNCHANGED <<phase, err, cycle, state>>
  <2>1. /\ frames' \in Seq(FrameSet) /\ StackInv' /\ Len(frames') = Len(frames)
        /\ \A i \in 1..Len(frames) : Looked(i)' \subseteq Looked(i) \union {id}
        /\ \A c \in IDs : OnStack(c)' <=> OnStack(c)
    BY <1>1, <1>2, <1>9, CallSkip
  <2>2. GraphTypeOK'
    BY <1>1, <1>6, <1>7, <1>8, <1>9, <2>1 DEF GraphTypeOK, FrameSet
  <2>3. FreshInv'
    BY <1>3, <1>9 DEF FreshInv
  <2>4. ColourInv'
    BY <1>4, <1>6, <1>9, <2>1 DEF ColourInv
  <2>5. RankInv'
    BY <1>5, <1>6, <1>9 DEF RankInv
  <2>6. OrderInv' /\ Topological' /\ CycleIsReal'
    BY <1>3, <1>9 DEF OrderInv, Topological, CycleIsReal
  <2> QED
    BY <2>1, <2>2, <2>3, <2>4, <2>5, <2>6 DEF GraphInv
<1>10. CASE /\ state[id] = "active"
            /\ phase' = "rejected" /\ err' = "cycle"
            /\ cycle' = Append([i \in 1..Len(callers) |-> callers[i].id], id)
            /\ frames' = callers
            /\ UNCHANGED state
  <2> DEFINE path == [i \in 1..Len(callers) |-> callers[i].id]
  <2>1. /\ frames' \in Seq(FrameSet) /\ StackInv' /\ Len(frames') = Len(frames)
        /\ \A i \in 1..Len(frames) : frames'[i].id = frames[i].id
    BY <1>1, <1>2, <1>10, CallSkip
  <2>2. PICK k \in 1..Len(frames) : frames[k].id = id
    BY <1>4, <1>10 DEF OnStack
  <2>3. frames # <<>> /\ Len(frames) \in Nat \ {0}
    BY <1>2, <2>2 DEF StackTyped
  <2>4. ~Returning /\ callers = Advanced /\ id = Callee
    BY <2>3 DEF Calls
  <2>5. Callee \in Prereqs(Top.id)
    BY <1>1, <1>2, <2>3, <2>4, AdvancedFacts
  <2>6. \A i \in 1..Len(frames) : frames[i] \in FrameSet
    BY <1>2 DEF StackTyped
  <2>7. path = [i \in 1..Len(frames) |-> frames[i].id]
    BY <1>10, <2>1
  <2>8. path \in Seq(IDs) /\ Len(path) = Len(frames)
        /\ \A i \in 1..Len(frames) : path[i] = frames[i].id
    <3>1. \A i \in 1..Len(frames) : frames[i].id \in IDs
      BY <2>6 DEF FrameSet
    <3>2. path \in Seq(IDs)
      BY <2>3, <2>7, <3>1, IsASeq
    <3> QED
      BY <2>3, <2>7, <3>2
  <2>9. /\ cycle' \in Seq(IDs) /\ Len(cycle') = Len(frames) + 1
        /\ \A i \in 1..Len(frames) : cycle'[i] = frames[i].id
        /\ cycle'[Len(frames) + 1] = id
    <3> HIDE DEF path
    <3>1. cycle' = Append(path, id)
      BY <1>10 DEF path
    <3> QED
      BY <2>3, <2>8, <3>1, AppendProperties
  <2>10. CycleIsReal'
    <3>1. ASSUME NEW i \in 1..Len(frames) PROVE cycle'[i + 1] \in Prereqs(cycle'[i])
      <4>1. CASE i = Len(frames)
        BY <2>3, <2>4, <2>5, <2>9, <4>1 DEF Top
      <4>2. CASE i # Len(frames)
        <5>1. i \in 1..(Len(frames) - 1) /\ i + 1 \in 1..Len(frames)
          BY <2>3, <4>2
        <5>2. /\ frames[i].next >= 2 /\ frames[i].next <= Len(checks[frames[i].id]) + 1
              /\ checks[frames[i].id][frames[i].next - 1] = frames[i + 1].id
          BY <1>1, <5>1 DEF StackInv
        <5>3. frames[i].next \in Nat /\ Len(checks[frames[i].id]) \in Nat
          BY <1>2, <2>6 DEF StackTyped, FrameSet
        <5>4. frames[i + 1].id \in Prereqs(frames[i].id)
          <6>1. frames[i].next - 1 \in 1..Len(checks[frames[i].id])
            BY <5>2, <5>3
          <6> QED
            BY <5>2, <6>1 DEF Prereqs
        <5> QED
          BY <2>9, <5>1, <5>4
      <4> QED BY <4>1, <4>2
    <3>2. \A i \in 1..Len(frames) : cycle'[i] \in IDs
      BY <2>9, <2>6 DEF FrameSet
    <3>3. 1..(Len(cycle') - 1) = 1..Len(frames)
      BY <2>3, <2>9
    <3> QED
      BY <1>6, <2>2, <2>9, <3>1, <3>2, <3>3 DEF CycleIsReal
  <2>11. GraphTypeOK'
    BY <1>1, <1>6, <1>7, <1>8, <1>10, <2>1, <2>9
    DEF GraphTypeOK, FrameSet, Phases, Errors
  <2>12. FreshInv'
    BY <1>10 DEF FreshInv
  <2>13. ColourInv' /\ RankInv' /\ OrderInv' /\ Topological'
    BY <1>10 DEF ColourInv, RankInv, OrderInv, Topological
  <2> QED
    BY <2>1, <2>10, <2>11, <2>12, <2>13 DEF GraphInv
<1>11. CASE /\ state[id] = "unknown"
            /\ state' = [state EXCEPT ![id] = "active"]
            /\ frames' = Append(callers, Frame(id))
            /\ UNCHANGED <<phase, err, cycle>>
  <2>1. ~OnStack(id)
    BY <1>4, <1>11
  <2>2. /\ frames' \in Seq(FrameSet) /\ StackInv' /\ Len(frames') = Len(frames) + 1
        /\ \A i \in 1..Len(frames) : Looked(i)' = Looked(i)
        /\ \A i \in Nat : i = Len(frames) + 1 => Looked(i)' = {}
        /\ \A c \in IDs : OnStack(c)' <=> OnStack(c) \/ c = id
    BY <1>1, <1>2, <1>11, <2>1, CallPush
  <2>3. state' \in [IDs -> {"unknown", "active", "done"}]
        /\ \A c \in IDs : state'[c] = IF c = id THEN "active" ELSE state[c]
    BY <1>8, <1>11
  <2>4. GraphTypeOK'
    BY <1>1, <1>6, <1>7, <1>8, <1>11, <2>2, <2>3 DEF GraphTypeOK, FrameSet
  <2>5. FreshInv'
    BY <1>3, <1>11 DEF FreshInv
  <2>6. ColourInv'
    <3>1. \A c \in IDs : state'[c] = "active" <=> OnStack(c)'
      BY <1>4, <2>2, <2>3
    <3>2. ASSUME NEW i \in 1..Len(frames'), NEW p \in Looked(i)'
          PROVE  state'[p] = "done"
      <4>1. Len(frames) \in Nat
        BY <1>2 DEF StackTyped
      <4>2. i \in 1..Len(frames) /\ p \in Looked(i)
        BY <2>2, <3>2, <4>1
      <4>3. state[p] = "done"
        BY <1>4, <4>2
      <4> QED
        BY <1>8, <1>11, <4>3
    <3>3. \A r \in tried' : state'[r] # "unknown"
      BY <1>4, <1>7, <2>3
    <3> QED
      BY <1>6, <3>1, <3>2, <3>3 DEF ColourInv
  <2>7. RankInv'
    <3>1. ASSUME NEW c \in IDs, state'[c] = "done"
          PROVE  /\ rank'[c] < clock'
                 /\ \A p \in Prereqs(c)' : state'[p] = "done" /\ rank'[p] < rank'[c]
      <4>1. state[c] = "done"
        BY <2>3, <3>1
      <4> QED
        BY <1>5, <1>6, <1>11, <2>3, <4>1
    <3> QED
      BY <1>5, <1>6, <1>11, <3>1 DEF RankInv
  <2>8. OrderInv' /\ Topological' /\ CycleIsReal'
    BY <1>3, <1>11 DEF OrderInv, Topological, CycleIsReal
  <2> QED
    BY <2>2, <2>4, <2>5, <2>6, <2>7, <2>8 DEF GraphInv
<1> QED
  BY <1>9, <1>10, <1>11 DEF CycleVisit, Refuse

LEMMA CycleRootInv == GraphInv /\ CycleRoot => GraphInv'
<1> SUFFICES ASSUME GraphInv, CycleRoot PROVE GraphInv'
  OBVIOUS
<1>1. PICK r \in IDs : IsNextRoot(r) /\ tried' = tried \union {r} /\ CycleVisit(r, frames)
  BY DEF CycleRoot
<1>2. Calls(r, frames)
  BY <1>1 DEF IsNextRoot, Calls
<1> QED
  BY <1>1, <1>2, CycleVisitInv DEF CycleRoot

LEMMA CyclePrereqInv == GraphInv /\ CyclePrereq => GraphInv'
<1> SUFFICES ASSUME GraphInv, CyclePrereq PROVE GraphInv'
  OBVIOUS
<1>1. phase = "cycles" /\ frames # <<>> /\ ~Returning
  BY DEF CyclePrereq
<1>2. StackTyped /\ StackInv
  BY DEF GraphInv, GraphTypeOK, StackTyped, FrameSet
<1>3. Top \in FrameSet /\ Callee \in Prereqs(Top.id)
  BY <1>1, <1>2, AdvancedFacts
<1>4. Callee \in IDs
  BY <1>1, <1>3 DEF GraphInv, RankInv, FrameSet
<1>5. Calls(Callee, Advanced)
  BY <1>1 DEF Calls
<1> QED
  BY <1>1, <1>4, <1>5, CycleVisitInv DEF CyclePrereq

\* A check is coloured done after its prerequisites, and ranks above them.
LEMMA CycleReturnInv == GraphInv /\ CycleReturn => GraphInv'
<1> SUFFICES ASSUME GraphInv, CycleReturn PROVE GraphInv'
  OBVIOUS
<1> DEFINE c == Top.id
<1>1. phase = "cycles" /\ frames # <<>> /\ Returning /\ frames' = Pop(frames)
      /\ state' = [state EXCEPT ![c] = "done"] /\ rank' = [rank EXCEPT ![c] = clock]
      /\ clock' = clock + 1
      /\ UNCHANGED <<input, phase, registered, checks, err, cycle, tried, visited, ordered>>
  BY DEF CycleReturn
<1>2. GraphTypeOK /\ StackInv /\ StackTyped
  BY DEF GraphInv, GraphTypeOK, StackTyped, FrameSet
<1>3. IDs' = IDs /\ \A d \in IDs : Prereqs(d)' = Prereqs(d)
  BY <1>1 DEF IDs, Prereqs
<1>4. visited = {} /\ ordered = <<>> /\ err = "none"
  BY <1>1 DEF GraphInv, FreshInv
<1>5. /\ Len(frames) \in Nat \ {0} /\ c \in IDs /\ OnStack(c)
      /\ Looked(Len(frames)) = Prereqs(c)
      /\ frames' \in Seq(FrameSet) /\ StackInv' /\ Len(frames') = Len(frames) - 1
      /\ \A i \in 1..(Len(frames) - 1) : frames'[i] = frames[i]
      /\ \A i \in 1..(Len(frames) - 1) : Looked(i)' \subseteq Looked(i) \union {c}
      /\ \A d \in IDs : OnStack(d)' <=> OnStack(d) /\ d # c
  BY <1>1, <1>2, ReturnPop
<1>6. /\ \A d \in IDs : state[d] = "active" <=> OnStack(d)
      /\ \A i \in 1..Len(frames) : \A p \in Looked(i) : state[p] = "done"
      /\ \A r \in tried : state[r] # "unknown"
  BY <1>1 DEF GraphInv, ColourInv
<1>7. /\ \A d \in IDs : Prereqs(d) \subseteq IDs
      /\ \A d \in IDs : state[d] = "done" =>
           /\ rank[d] < clock
           /\ \A p \in Prereqs(d) : state[p] = "done" /\ rank[p] < rank[d]
  BY <1>1 DEF GraphInv, RankInv
<1>8. state \in [IDs -> {"unknown", "active", "done"}] /\ rank \in [IDs -> Nat]
      /\ clock \in Nat \ {0} /\ tried \subseteq IDs
  BY <1>1, <1>2 DEF GraphTypeOK
<1>9. /\ state' \in [IDs -> {"unknown", "active", "done"}] /\ rank' \in [IDs -> Nat]
      /\ \A d \in IDs : state'[d] = IF d = c THEN "done" ELSE state[d]
      /\ \A d \in IDs : rank'[d] = IF d = c THEN clock ELSE rank[d]
      /\ clock' \in Nat \ {0}
  BY <1>1, <1>5, <1>8
<1> HIDE DEF c
<1>10. GraphTypeOK'
  BY <1>1, <1>2, <1>3, <1>5, <1>9 DEF GraphTypeOK, FrameSet
<1>11. FreshInv'
  BY <1>1, <1>4 DEF FreshInv
<1>12. ColourInv'
  <2>1. \A d \in IDs : state'[d] = "active" <=> OnStack(d)'
    BY <1>5, <1>6, <1>9
  <2>2. ASSUME NEW i \in 1..Len(frames'), NEW p \in Looked(i)' PROVE state'[p] = "done"
    <3>1. i \in 1..(Len(frames) - 1) /\ i \in 1..Len(frames)
      BY <1>5
    <3>2. p \in Looked(i) \union {c}
      BY <1>5, <3>1
    <3>3. p = c \/ state[p] = "done"
      BY <1>6, <3>1, <3>2
    <3> QED
      BY <1>1, <1>5, <1>8, <3>3 DEF c
  <2>3. \A r \in tried' : state'[r] # "unknown"
    BY <1>1, <1>6, <1>8, <1>9
  <2> QED
    BY <1>3, <2>1, <2>2, <2>3 DEF ColourInv
<1>13. RankInv'
  <2>1. ASSUME NEW d \in IDs, state'[d] = "done"
        PROVE  /\ rank'[d] < clock'
               /\ \A p \in Prereqs(d) : state'[p] = "done" /\ rank'[p] < rank'[d]
    <3>1. state[c] # "done"
      BY <1>5, <1>6
    <3>2. CASE d = c
      <4>1. \A p \in Prereqs(c) : p \in IDs /\ state[p] = "done"
        BY <1>5, <1>6, <1>7
      <4>2. \A p \in Prereqs(c) : rank[p] < clock /\ p # c
        BY <1>7, <3>1, <4>1
      <4> QED
        BY <1>1, <1>8, <1>9, <3>2, <4>1, <4>2
    <3>3. CASE d # c
      <4>1. state[d] = "done"
        BY <1>9, <2>1, <3>3
      <4>2. \A p \in Prereqs(d) : p \in IDs /\ p # c /\ state[p] = "done" /\ rank[p] < rank[d]
        BY <1>7, <3>1, <4>1
      <4> QED
        BY <1>1, <1>7, <1>8, <1>9, <3>3, <4>1, <4>2
    <3> QED
      BY <3>2, <3>3
  <2> QED
    BY <1>1, <1>3, <1>7, <2>1 DEF RankInv
<1>14. OrderInv' /\ Topological' /\ CycleIsReal'
  BY <1>1, <1>4 DEF OrderInv, Topological, CycleIsReal
<1> QED
  BY <1>5, <1>10, <1>11, <1>12, <1>13, <1>14 DEF GraphInv

\* With every ID tried and the stack empty, every ID is done.
LEMMA NoCycleInv == GraphInv /\ NoCycle => GraphInv'
<1> SUFFICES ASSUME GraphInv, NoCycle PROVE GraphInv'
  OBVIOUS
<1>1. phase = "cycles" /\ frames = <<>> /\ tried = IDs /\ phase' = "order" /\ tried' = {}
      /\ UNCHANGED <<input, registered, checks, err, cycle, frames, state, rank, clock,
                     visited, ordered>>
  BY DEF NoCycle
<1>2. GraphTypeOK /\ state \in [IDs -> {"unknown", "active", "done"}] /\ rank \in [IDs -> Nat]
  BY <1>1 DEF GraphInv, GraphTypeOK
<1>3. IDs' = IDs /\ \A d \in IDs : Prereqs(d)' = Prereqs(d)
  BY <1>1 DEF IDs, Prereqs
<1>4. visited = {} /\ ordered = <<>> /\ err = "none"
  BY <1>1 DEF GraphInv, FreshInv
<1>5. \A d \in IDs : state[d] = "done"
  <2>1. \A d \in IDs : ~OnStack(d)
    BY <1>1 DEF OnStack
  <2>2. \A d \in IDs : state[d] # "active" /\ state[d] # "unknown"
    BY <1>1, <2>1 DEF GraphInv, ColourInv
  <2> QED
    BY <1>2, <2>2
<1>6. GraphTypeOK'
  BY <1>1, <1>2, <1>3 DEF GraphTypeOK, Phases
<1>7. FreshInv'
  BY <1>1, <1>4 DEF FreshInv
<1>8. StackInv'
  BY <1>1 DEF StackInv
<1>9. ColourInv'
  BY <1>1 DEF ColourInv
<1>10. RankInv'
  BY <1>1, <1>3, <1>5 DEF GraphInv, RankInv
<1>11. OrderInv'
  BY <1>1, <1>4 DEF OrderInv, OnStack, InOrder
<1>12. Topological' /\ CycleIsReal'
  BY <1>1, <1>4 DEF Topological, CycleIsReal
<1> QED
  BY <1>6, <1>7, <1>8, <1>9, <1>10, <1>11, <1>12 DEF GraphInv

\* The ordering search's visit.  A prerequisite it skips is already laid out:
\* were it on the stack, its rank would be at least that of its dependent.
LEMMA OrderVisitInv ==
  ASSUME GraphInv, phase = "order", NEW id \in IDs, NEW callers, Calls(id, callers),
         OrderVisit(id, callers),
         tried' = tried \/ (tried' = tried \union {id}),
         UNCHANGED <<input, phase, registered, checks, err, cycle, state, rank, clock,
                     ordered>>
  PROVE  GraphInv'
<1>1. GraphTypeOK /\ StackInv /\ StackTyped
  BY DEF GraphInv, GraphTypeOK, StackTyped, FrameSet
<1>2. IDs' = IDs /\ \A d \in IDs : Prereqs(d)' = Prereqs(d)
  BY DEF IDs, Prereqs
<1>3. /\ \A c \in IDs : c \in visited <=> OnStack(c) \/ InOrder(c)
      /\ \A c \in IDs : ~(OnStack(c) /\ InOrder(c))
      /\ \A i, j \in 1..Len(frames) : i < j => rank[frames[j].id] < rank[frames[i].id]
      /\ \A i \in 1..Len(frames) : \A p \in Looked(i) : InOrder(p)
      /\ \A i, j \in 1..Len(ordered) : ordered[i] = ordered[j] => i = j
      /\ \A i \in 1..Len(ordered) : \A p \in Prereqs(ordered[i]) :
           \E j \in 1..(i - 1) : ordered[j] = p
      /\ tried \subseteq visited
  BY DEF GraphInv, OrderInv
<1>4. /\ \A d \in IDs : Prereqs(d) \subseteq IDs
      /\ \A d \in IDs : \A p \in Prereqs(d) : rank[p] < rank[d]
  BY DEF GraphInv, RankInv
<1>5. rank \in [IDs -> Nat] /\ visited \subseteq IDs /\ tried \subseteq IDs /\ ordered \in Seq(IDs)
  BY DEF GraphInv, GraphTypeOK
<1>6. \A c : InOrder(c)' <=> InOrder(c)
  BY DEF InOrder
<1>7. /\ \A i \in 1..Len(frames) : frames[i].id \in IDs
      /\ Len(frames) \in Nat
  <2>1. \A i \in 1..Len(frames) : frames[i] \in FrameSet
    BY <1>1 DEF StackTyped
  <2> QED
    BY <1>1, <2>1 DEF FrameSet, StackTyped
<1>8. frames # <<>> => rank[id] < rank[Top.id] /\ Top = frames[Len(frames)] /\ Top.id \in IDs
  <2>1. SUFFICES ASSUME frames # <<>>
                 PROVE  rank[id] < rank[Top.id] /\ Top = frames[Len(frames)] /\ Top.id \in IDs
    OBVIOUS
  <2>2. id = Callee /\ ~Returning
    BY <2>1 DEF Calls
  <2>3. Top \in FrameSet /\ Callee \in Prereqs(Top.id)
    BY <1>1, <2>1, <2>2, AdvancedFacts
  <2> QED
    BY <1>4, <2>2, <2>3 DEF FrameSet, Top
<1>9. \A i \in 1..Len(frames) : rank[id] < rank[frames[i].id]
  <2> SUFFICES ASSUME NEW i \in 1..Len(frames) PROVE rank[id] < rank[frames[i].id]
    OBVIOUS
  <2>1. frames # <<>>
    BY <1>7
  <2>2. i = Len(frames) \/ i < Len(frames)
    BY <1>7
  <2>3. CASE i = Len(frames)
    BY <1>8, <2>1, <2>3
  <2>4. CASE i < Len(frames)
    <3>1. Len(frames) \in 1..Len(frames)
      BY <1>7
    <3>2. rank[Top.id] < rank[frames[i].id]
      BY <1>3, <1>8, <2>1, <2>4, <3>1
    <3>3. rank[id] \in Nat /\ rank[Top.id] \in Nat /\ rank[frames[i].id] \in Nat
      BY <1>5, <1>7, <1>8, <2>1
    <3> QED
      BY <1>8, <2>1, <3>2, <3>3
  <2> QED
    BY <2>2, <2>3, <2>4
<1>10. ~OnStack(id)
  <2> SUFFICES ASSUME NEW i \in 1..Len(frames), frames[i].id = id PROVE FALSE
    BY DEF OnStack
  <2>1. rank[id] < rank[id] /\ rank[id] \in Nat
    BY <1>5, <1>9
  <2> QED
    BY <2>1
<1>11. FreshInv' /\ ColourInv' /\ RankInv' /\ Topological' /\ CycleIsReal'
  <2>1. FreshInv' /\ ColourInv'
    BY DEF GraphInv, FreshInv, ColourInv
  <2>2. RankInv'
    BY <1>2 DEF GraphInv, RankInv
  <2>3. Topological'
    BY DEF Topological
  <2>4. CycleIsReal'
    BY DEF GraphInv, FreshInv, CycleIsReal
  <2> QED
    BY <2>1, <2>2, <2>3, <2>4
<1>12. CASE id \in visited /\ frames' = callers /\ UNCHANGED visited
  <2>1. /\ frames' \in Seq(FrameSet) /\ StackInv' /\ Len(frames') = Len(frames)
        /\ \A i \in 1..Len(frames) : frames'[i].id = frames[i].id
        /\ \A i \in 1..Len(frames) : Looked(i)' \subseteq Looked(i) \union {id}
        /\ \A c \in IDs : OnStack(c)' <=> OnStack(c)
    BY <1>1, <1>12, CallSkip
  <2>2. InOrder(id)
    BY <1>3, <1>10, <1>12
  <2>3. tried' \subseteq visited /\ tried' \subseteq IDs
    BY <1>3, <1>5, <1>12
  <2>4. GraphTypeOK'
    BY <1>1, <1>2, <1>12, <2>1, <2>3 DEF GraphTypeOK, FrameSet
  <2>5. \A i \in 1..Len(frames') : \A p \in Looked(i)' : InOrder(p)'
    BY <1>3, <1>6, <2>1, <2>2
  <2>6. \A i, j \in 1..Len(frames') : i < j => rank'[frames'[j].id] < rank'[frames'[i].id]
    BY <1>3, <2>1
  <2>7. /\ \A c \in IDs : c \in visited' <=> OnStack(c)' \/ InOrder(c)'
        /\ \A c \in IDs : ~(OnStack(c)' /\ InOrder(c)')
    BY <1>3, <1>6, <1>12, <2>1
  <2>8. \A i \in 1..Len(ordered') : \A p \in Prereqs(ordered[i])' :
           \E j \in 1..(i - 1) : ordered'[j] = p
    <3> SUFFICES ASSUME NEW i \in 1..Len(ordered), NEW p \in Prereqs(ordered[i])'
                 PROVE  \E j \in 1..(i - 1) : ordered[j] = p
      OBVIOUS
    <3>1. p \in Prereqs(ordered[i])
      BY DEF Prereqs
    <3> QED
      BY <1>3, <3>1
  <2>9. OrderInv'
    BY <1>2, <1>3, <1>12, <2>3, <2>5, <2>6, <2>7, <2>8 DEF OrderInv
  <2> QED
    BY <1>11, <2>1, <2>4, <2>9 DEF GraphInv
<1>13. CASE /\ id \notin visited
            /\ visited' = visited \union {id}
            /\ frames' = Append(callers, Frame(id))
  <2>1. /\ frames' \in Seq(FrameSet) /\ StackInv' /\ Len(frames') = Len(frames) + 1
        /\ frames'[Len(frames) + 1].id = id
        /\ \A i \in 1..Len(frames) :
              frames'[i].id = frames[i].id /\ Looked(i)' = Looked(i)
        /\ \A i \in Nat : i = Len(frames) + 1 => Looked(i)' = {}
        /\ \A c \in IDs : OnStack(c)' <=> OnStack(c) \/ c = id
    BY <1>1, <1>10, <1>13, CallPush
  <2>2. ~InOrder(id)
    BY <1>3, <1>13
  <2>3. tried' \subseteq visited' /\ tried' \subseteq IDs /\ visited' \subseteq IDs
    BY <1>3, <1>5, <1>13
  <2>4. GraphTypeOK'
    BY <1>1, <1>2, <2>1, <2>3 DEF GraphTypeOK, FrameSet
  <2>5. \A i \in 1..Len(frames') : i \in 1..Len(frames) \/ i = Len(frames) + 1
    BY <1>7, <2>1
  <2>6. \A i \in 1..Len(frames') : \A p \in Looked(i)' : InOrder(p)'
    BY <1>3, <1>6, <1>7, <2>1, <2>5
  <2>7. \A i, j \in 1..Len(frames') : i < j => rank'[frames'[j].id] < rank'[frames'[i].id]
    <3> SUFFICES ASSUME NEW i \in 1..Len(frames'), NEW j \in 1..Len(frames'), i < j
                 PROVE  rank[frames'[j].id] < rank[frames'[i].id]
      OBVIOUS
    <3>1. i \in 1..Len(frames)
      BY <1>7, <2>1
    <3>2. CASE j = Len(frames) + 1
      BY <1>9, <2>1, <3>1, <3>2
    <3>3. CASE j \in 1..Len(frames)
      BY <1>3, <2>1, <3>1, <3>3
    <3> QED
      BY <2>5, <3>2, <3>3
  <2>8. /\ \A c \in IDs : c \in visited' <=> OnStack(c)' \/ InOrder(c)'
        /\ \A c \in IDs : ~(OnStack(c)' /\ InOrder(c)')
    BY <1>3, <1>6, <1>13, <2>1, <2>2
  <2>9. \A i \in 1..Len(ordered') : \A p \in Prereqs(ordered[i])' :
           \E j \in 1..(i - 1) : ordered'[j] = p
    <3> SUFFICES ASSUME NEW i \in 1..Len(ordered), NEW p \in Prereqs(ordered[i])'
                 PROVE  \E j \in 1..(i - 1) : ordered[j] = p
      OBVIOUS
    <3>1. p \in Prereqs(ordered[i])
      BY DEF Prereqs
    <3> QED
      BY <1>3, <3>1
  <2>10. OrderInv'
    BY <1>2, <1>3, <2>3, <2>6, <2>7, <2>8, <2>9 DEF OrderInv
  <2> QED
    BY <1>11, <2>1, <2>4, <2>10 DEF GraphInv
<1> QED
  BY <1>12, <1>13 DEF OrderVisit

LEMMA OrderRootInv == GraphInv /\ OrderRoot => GraphInv'
<1> SUFFICES ASSUME GraphInv, OrderRoot PROVE GraphInv'
  OBVIOUS
<1>1. PICK r \in IDs : IsNextRoot(r) /\ tried' = tried \union {r} /\ OrderVisit(r, frames)
  BY DEF OrderRoot
<1>2. Calls(r, frames)
  BY <1>1 DEF IsNextRoot, Calls
<1> QED
  BY <1>1, <1>2, OrderVisitInv DEF OrderRoot

LEMMA OrderPrereqInv == GraphInv /\ OrderPrereq => GraphInv'
<1> SUFFICES ASSUME GraphInv, OrderPrereq PROVE GraphInv'
  OBVIOUS
<1>1. phase = "order" /\ frames # <<>> /\ ~Returning
  BY DEF OrderPrereq
<1>2. StackTyped /\ StackInv
  BY DEF GraphInv, GraphTypeOK, StackTyped, FrameSet
<1>3. Top \in FrameSet /\ Callee \in Prereqs(Top.id)
  BY <1>1, <1>2, AdvancedFacts
<1>4. Callee \in IDs
  BY <1>1, <1>3 DEF GraphInv, RankInv, FrameSet
<1>5. Calls(Callee, Advanced)
  BY <1>1 DEF Calls
<1> QED
  BY <1>1, <1>4, <1>5, OrderVisitInv DEF OrderPrereq

\* A check is laid out when all its prerequisites are.
LEMMA OrderReturnInv == GraphInv /\ OrderReturn => GraphInv'
<1> SUFFICES ASSUME GraphInv, OrderReturn PROVE GraphInv'
  OBVIOUS
<1> DEFINE c == Top.id
           n == Len(ordered)
<1>1. phase = "order" /\ frames # <<>> /\ Returning /\ frames' = Pop(frames)
      /\ ordered' = Append(ordered, c)
      /\ UNCHANGED <<input, phase, registered, checks, err, cycle, tried, state, rank,
                     clock, visited>>
  BY DEF OrderReturn
<1>2. GraphTypeOK /\ StackInv /\ StackTyped
  BY DEF GraphInv, GraphTypeOK, StackTyped, FrameSet
<1>3. IDs' = IDs /\ \A d \in IDs : Prereqs(d)' = Prereqs(d)
  BY <1>1 DEF IDs, Prereqs
<1>4. /\ Len(frames) \in Nat \ {0} /\ c \in IDs /\ OnStack(c)
      /\ Looked(Len(frames)) = Prereqs(c)
      /\ frames' \in Seq(FrameSet) /\ StackInv' /\ Len(frames') = Len(frames) - 1
      /\ \A i \in 1..(Len(frames) - 1) : frames'[i] = frames[i]
      /\ \A i \in 1..(Len(frames) - 1) : Looked(i)' \subseteq Looked(i) \union {c}
      /\ \A d \in IDs : OnStack(d)' <=> OnStack(d) /\ d # c
  BY <1>1, <1>2, ReturnPop
<1>5. /\ \A d \in IDs : d \in visited <=> OnStack(d) \/ InOrder(d)
      /\ \A d \in IDs : ~(OnStack(d) /\ InOrder(d))
      /\ \A i, j \in 1..Len(frames) : i < j => rank[frames[j].id] < rank[frames[i].id]
      /\ \A i \in 1..Len(frames) : \A p \in Looked(i) : InOrder(p)
      /\ \A i, j \in 1..n : ordered[i] = ordered[j] => i = j
      /\ \A i \in 1..n : \A p \in Prereqs(ordered[i]) : \E j \in 1..(i - 1) : ordered[j] = p
      /\ tried \subseteq visited
  BY <1>1 DEF GraphInv, OrderInv
<1>6. ordered \in Seq(IDs) /\ n \in Nat /\ \A i \in 1..n : ordered[i] \in IDs
  BY <1>2 DEF GraphTypeOK
<1> HIDE DEF c
<1>7. /\ ordered' \in Seq(IDs) /\ Len(ordered') = n + 1
      /\ \A i \in 1..n : ordered'[i] = ordered[i]
      /\ ordered'[n + 1] = c
  BY <1>1, <1>4, <1>6, AppendProperties
<1>8. \A i \in 1..Len(ordered') : i \in 1..n \/ i = n + 1
  BY <1>6, <1>7
<1>9. 1..n \subseteq 1..Len(ordered') /\ n + 1 \in 1..Len(ordered')
  BY <1>6, <1>7
<1>10. \A d : InOrder(d)' <=> InOrder(d) \/ d = c
  BY <1>7, <1>8, <1>9 DEF InOrder
<1>11. ~InOrder(c)
  BY <1>4, <1>5
<1>12. GraphTypeOK'
  BY <1>1, <1>2, <1>3, <1>4, <1>7 DEF GraphTypeOK, FrameSet
<1>13. FreshInv' /\ ColourInv' /\ RankInv' /\ Topological' /\ CycleIsReal'
  <2>1. FreshInv' /\ ColourInv'
    BY <1>1 DEF GraphInv, FreshInv, ColourInv
  <2>2. RankInv'
    BY <1>1, <1>3 DEF GraphInv, RankInv
  <2>3. Topological' /\ CycleIsReal'
    BY <1>1 DEF GraphInv, FreshInv, Topological, CycleIsReal
  <2> QED
    BY <2>1, <2>2, <2>3
<1>14. OrderInv'
  <2>1. \A i \in 1..Len(frames') : i \in 1..(Len(frames) - 1) /\ i \in 1..Len(frames)
    BY <1>4
  <2>2. \A i, j \in 1..Len(frames') : i < j => rank'[frames'[j].id] < rank'[frames'[i].id]
    BY <1>1, <1>4, <1>5, <2>1
  <2>3. \A i \in 1..Len(frames') : \A p \in Looked(i)' : InOrder(p)'
    BY <1>4, <1>5, <1>10, <2>1
  <2>4. /\ \A d \in IDs : d \in visited' <=> OnStack(d)' \/ InOrder(d)'
        /\ \A d \in IDs : ~(OnStack(d)' /\ InOrder(d)')
    BY <1>1, <1>4, <1>5, <1>10
  <2>5. \A i, j \in 1..Len(ordered') : ordered'[i] = ordered'[j] => i = j
    BY <1>5, <1>7, <1>8, <1>11 DEF InOrder
  <2>6. ASSUME NEW i \in 1..Len(ordered'), NEW p \in Prereqs(ordered[i])'
        PROVE  \E j \in 1..(i - 1) : ordered'[j] = p
    <3>1. CASE i \in 1..n
      <4>1. p \in Prereqs(ordered[i])
        BY <1>1, <1>7, <2>6, <3>1 DEF Prereqs
      <4>2. PICK j \in 1..(i - 1) : ordered[j] = p
        BY <1>5, <3>1, <4>1
      <4>3. j \in 1..n
        BY <1>6, <3>1
      <4> QED
        BY <1>7, <4>2, <4>3
    <3>2. CASE i = n + 1
      <4>1. p \in Prereqs(c)
        BY <1>1, <1>7, <2>6, <3>2 DEF Prereqs
      <4>2. InOrder(p)
        BY <1>4, <1>5, <4>1
      <4>3. PICK j \in 1..n : ordered[j] = p
        BY <4>2 DEF InOrder
      <4>4. j \in 1..(i - 1)
        BY <1>6, <3>2
      <4> QED
        BY <1>7, <4>3, <4>4
    <3> QED
      BY <1>8, <3>1, <3>2
  <2>7. tried' \subseteq visited'
    BY <1>1, <1>5
  <2> QED
    BY <1>3, <2>2, <2>3, <2>4, <2>5, <2>6, <2>7 DEF OrderInv
<1> QED
  BY <1>4, <1>12, <1>13, <1>14 DEF GraphInv

\* What Topological says of a finished order.
Laid ==
    /\ {ordered[i] : i \in 1..Len(ordered)} = IDs
    /\ \A i, j \in 1..Len(ordered) : ordered[i] = ordered[j] => i = j
    /\ \A i \in 1..Len(ordered) : \A p \in Prereqs(ordered[i]) :
         \E j \in 1..(i - 1) : ordered[j] = p

\* It depends on the prerequisites and the order alone.
LEMMA LaidKept == ASSUME Laid, UNCHANGED <<checks, ordered>> PROVE Laid'
<1>1. ordered' = ordered /\ checks' = checks /\ IDs' = IDs
  BY DEF IDs
<1>2. {ordered'[i] : i \in 1..Len(ordered')} = IDs'
  BY <1>1 DEF Laid
<1>3. \A i, j \in 1..Len(ordered') : ordered'[i] = ordered'[j] => i = j
  BY <1>1 DEF Laid
<1>4. \A d : Prereqs(d)' = Prereqs(d)
  BY <1>1 DEF Prereqs
<1>5. \A i \in 1..Len(ordered') : \A p \in Prereqs(ordered[i])' :
        \E j \in 1..(i - 1) : ordered'[j] = p
  BY <1>1, <1>4 DEF Laid
<1> QED
  BY <1>2, <1>3, <1>5 DEF Laid

\* The order stays topological while nothing of it changes.
LEMMA TopologicalKept ==
  ASSUME Topological, UNCHANGED <<phase, checks, ordered>> PROVE Topological'
<1>1. CASE phase = "ordered"
  <2>1. Laid'
    BY <1>1, LaidKept DEF Topological, Laid
  <2> QED
    BY <2>1 DEF Laid, Topological
<1>2. CASE phase # "ordered"
  BY <1>2 DEF Topological
<1> QED
  BY <1>1, <1>2

LEMMA ValidatedInv == GraphInv /\ Validated => GraphInv'
<1> SUFFICES ASSUME GraphInv, Validated PROVE GraphInv'
  OBVIOUS
<1>1. phase = "order" /\ frames = <<>> /\ tried = IDs /\ phase' = "ordered"
      /\ UNCHANGED <<input, registered, checks, err, cycle, frames, tried, state, rank,
                     clock, visited, ordered>>
  BY DEF Validated
<1>2. IDs' = IDs /\ \A d \in IDs : Prereqs(d)' = Prereqs(d)
  BY <1>1 DEF IDs, Prereqs
<1>3. ordered \in Seq(IDs) /\ \A i \in 1..Len(ordered) : ordered[i] \in IDs
  BY DEF GraphInv, GraphTypeOK
<1>4. \A d \in IDs : InOrder(d)
  <2>1. \A d \in IDs : ~OnStack(d) /\ d \in visited
    BY <1>1 DEF GraphInv, OrderInv, OnStack
  <2> QED
    BY <1>1, <2>1 DEF GraphInv, OrderInv
<1>5. Topological'
  <2>1. {ordered[i] : i \in 1..Len(ordered)} = IDs
    BY <1>3, <1>4 DEF InOrder
  <2>2. /\ \A i, j \in 1..Len(ordered) : ordered[i] = ordered[j] => i = j
        /\ \A i \in 1..Len(ordered) : \A p \in Prereqs(ordered[i]) :
             \E j \in 1..(i - 1) : ordered[j] = p
    BY <1>1 DEF GraphInv, OrderInv
  <2>3. UNCHANGED <<checks, ordered>>
    BY <1>1
  <2>4. Laid
    BY <2>1, <2>2 DEF Laid
  <2>5. Laid'
    BY <2>3, <2>4, LaidKept
  <2> QED
    BY <2>5 DEF Laid, Topological
<1>6. GraphTypeOK'
  BY <1>1, <1>2 DEF GraphInv, GraphTypeOK, Phases
<1>7. FreshInv' /\ StackInv' /\ ColourInv' /\ OrderInv'
  BY <1>1 DEF GraphInv, FreshInv, StackInv, ColourInv, OrderInv
<1>8. RankInv'
  BY <1>1, <1>2 DEF GraphInv, RankInv
<1>9. CycleIsReal'
  BY <1>1 DEF GraphInv, FreshInv, CycleIsReal
<1> QED
  BY <1>5, <1>6, <1>7, <1>8, <1>9 DEF GraphInv

-----------------------------------------------------------------------------
\* No step of validateChecks leaves the inductive invariant.
LEMMA GraphNextInv == GraphInv /\ GraphNext => GraphInv'
BY RegisterInv, ResolveInv, CycleRootInv, CyclePrereqInv, CycleReturnInv, NoCycleInv,
   OrderRootInv, OrderPrereqInv, OrderReturnInv, ValidatedInv DEF GraphNext

LEMMA GraphStutterInv == GraphInv /\ UNCHANGED graphVars => GraphInv'
<1> SUFFICES ASSUME GraphInv, UNCHANGED graphVars PROVE GraphInv'
  OBVIOUS
<1>1. IDs' = IDs /\ (\A c : Prereqs(c)' = Prereqs(c)) /\ (\A i : Looked(i)' = Looked(i))
      /\ (\A c : OnStack(c)' = OnStack(c)) /\ (\A c : InOrder(c)' = InOrder(c))
  BY DEF graphVars, IDs, Prereqs, Looked, OnStack, InOrder
<1>2. GraphTypeOK'
  BY <1>1 DEF GraphInv, GraphTypeOK, graphVars
<1>3. FreshInv' /\ StackInv'
  BY DEF GraphInv, FreshInv, StackInv, graphVars
<1>4. ColourInv' /\ RankInv'
  <2>1. UNCHANGED <<phase, frames, tried, state, rank, clock>>
    BY DEF graphVars
  <2>2. ColourInv /\ RankInv
    BY DEF GraphInv
  <2>3. ColourInv'
    BY <1>1, <2>1, <2>2 DEF ColourInv
  <2> QED
    BY <1>1, <2>1, <2>2, <2>3 DEF RankInv
<1>5. OrderInv'
  <2>1. UNCHANGED <<phase, frames, rank, visited, tried, ordered>>
    BY DEF graphVars
  <2>2. OrderInv
    BY DEF GraphInv
  <2> QED
    BY <1>1, <2>1, <2>2 DEF OrderInv
<1>6. Topological' /\ CycleIsReal'
  <2>1. UNCHANGED <<phase, ordered, err, cycle>>
    BY DEF graphVars
  <2>2. Topological /\ CycleIsReal
    BY DEF GraphInv
  <2>3. Topological'
    BY <1>1, <2>1, <2>2, TopologicalKept DEF graphVars
  <2> QED
    BY <1>1, <2>1, <2>2, <2>3 DEF CycleIsReal
<1> QED
  BY <1>2, <1>3, <1>4, <1>5, <1>6 DEF GraphInv

-----------------------------------------------------------------------------
\* Induction over the natural numbers: a set of them has a smallest one.
LEMMA Least == ASSUME NEW T \in SUBSET Nat, T # {} PROVE \E m \in T : \A n \in T : m <= n
<1>1. PICK m \in T : \A n \in T : <<n, m>> \notin OpToRel(<, Nat)
  BY NatLessThanWellFounded, WFMin, Zenon
<1>2. \A n \in T : m \in Nat /\ n \in Nat /\ ~(n < m)
  BY <1>1 DEF OpToRel
<1>3. \A n \in T : m <= n
  BY <1>2
<1> QED
  BY <1>3

-----------------------------------------------------------------------------
(* byID and the slice *)

SliceInv == ByIDInv /\ RefusedInv

LEMMA SliceInitInv == GraphInit => SliceInv
BY DEF GraphInit, SliceInv, ByIDInv, RefusedInv, IDs

\* Steps that leave byID as it is.
LEMMA SliceKept ==
  ASSUME GraphInv, SliceInv, UNCHANGED <<input, registered, checks>>,
         \/ phase' = phase /\ err' = err
         \/ /\ phase' \in {"cycles", "order", "ordered"} /\ err' = err
            /\ registered = Len(input)
         \/ /\ phase' = "rejected" /\ registered = Len(input)
            /\ \/ err' = "cycle"
               \/ err' = "missing prerequisite" /\ \E c \in IDs : ~(Prereqs(c) \subseteq IDs)
  PROVE  SliceInv'
<1>1. IDs' = IDs /\ \A c : Prereqs(c)' = Prereqs(c)
  BY DEF IDs, Prereqs
<1>2. ByIDInv'
  BY <1>1 DEF SliceInv, ByIDInv
<1>3. RefusedInv'
  BY <1>1 DEF SliceInv, RefusedInv
<1> QED
  BY <1>2, <1>3 DEF SliceInv

LEMMA SliceRegisterInv == GraphInv /\ SliceInv /\ Register => SliceInv'
<1> SUFFICES ASSUME GraphInv, SliceInv, Register PROVE SliceInv'
  OBVIOUS
<1> DEFINE c == input[registered + 1]
<1>1. /\ phase = "register" /\ err = "none" /\ registered < Len(input)
      /\ registered \in Nat /\ Len(input) \in Nat /\ input' = input
  <2>1. phase = "register" /\ registered < Len(input) /\ input' = input
    BY DEF Register
  <2>2. err = "none" /\ input \in Seq(Check) /\ registered \in 0..Len(input)
    BY <2>1 DEF GraphInv, FreshInv, GraphTypeOK
  <2> QED
    BY <2>1, <2>2
<1>2. registered + 1 \in 1..Len(input) /\ 1..registered \subseteq 1..Len(input)
      /\ \A i \in 1..(registered + 1) : i \in 1..registered \/ i = registered + 1
  BY <1>1
<1>3. /\ \A d \in IDs : \E i \in 1..registered : input[i].id = d
      /\ \A i \in 1..registered :
           /\ input[i].id \in IDs \ {EmptyID}
           /\ checks[input[i].id] = input[i].prereqs
      /\ \A i, j \in 1..registered : input[i].id = input[j].id => i = j
  BY DEF SliceInv, ByIDInv
<1>4. CASE /\ UNCHANGED <<registered, checks>>
           /\ \/ c.id = EmptyID /\ Refuse("empty ID")
              \/ c.id \in IDs /\ Refuse("duplicate ID")
  <2>1. ByIDInv'
    BY <1>1, <1>3, <1>4 DEF ByIDInv, IDs
  <2>2. ASSUME c.id \in IDs PROVE \E k, j \in 1..Len(input) : k # j /\ input[k].id = input[j].id
    <3>1. PICK i \in 1..registered : input[i].id = c.id
      BY <1>3, <2>2
    <3>2. i \in 1..Len(input) /\ i # registered + 1
      BY <1>1, <1>2
    <3> QED
      BY <1>2, <3>1, <3>2
  <2>3. RefusedInv'
    BY <1>1, <1>2, <1>4, <2>2 DEF RefusedInv, Refuse
  <2> QED
    BY <2>1, <2>3 DEF SliceInv
<1>5. CASE /\ c.id # EmptyID /\ c.id \notin IDs /\ registered' = registered + 1
           /\ checks' = [d \in IDs \union {c.id} |->
                            IF d = c.id THEN c.prereqs ELSE checks[d]]
           /\ UNCHANGED <<phase, err>>
  <2>1. IDs' = IDs \union {c.id}
    BY <1>5 DEF IDs
  <2>2. \A i \in 1..registered : input[i].id # c.id
    BY <1>3, <1>5
  <2>3. \A d \in IDs' : \E i \in 1..(registered + 1) : input[i].id = d
    <3> SUFFICES ASSUME NEW d \in IDs' PROVE \E i \in 1..(registered + 1) : input[i].id = d
      OBVIOUS
    <3>1. CASE d = c.id
      BY <1>1, <3>1
    <3>2. CASE d \in IDs
      BY <1>1, <1>3, <3>2
    <3> QED
      BY <2>1, <3>1, <3>2
  <2>4. \A i \in 1..(registered + 1) :
             /\ input[i].id \in IDs' \ {EmptyID}
             /\ checks'[input[i].id] = input[i].prereqs
    BY <1>2, <1>3, <1>5, <2>1, <2>2
  <2>5. \A i, j \in 1..(registered + 1) : input[i].id = input[j].id => i = j
    BY <1>2, <1>3, <2>2
  <2>6. ByIDInv'
    BY <1>1, <1>5, <2>3, <2>4, <2>5 DEF ByIDInv
  <2>7. RefusedInv'
    BY <1>1, <1>5 DEF RefusedInv
  <2> QED
    BY <2>6, <2>7 DEF SliceInv
<1> QED
  BY <1>4, <1>5 DEF Register

LEMMA SliceNextInv == GraphInv /\ SliceInv /\ GraphNext => SliceInv'
<1> SUFFICES ASSUME GraphInv, SliceInv, GraphNext PROVE SliceInv'
  OBVIOUS
<1>1. CASE Register
  BY <1>1, SliceRegisterInv
<1>2. CASE Resolve
  BY <1>2, SliceKept DEF Resolve, Refuse
<1>3. CASE CycleRoot \/ CyclePrereq
  <2>1. /\ phase = "cycles" /\ UNCHANGED <<input, registered, checks>>
        /\ UNCHANGED <<phase, err>> \/ Refuse("cycle")
    BY <1>3 DEF CycleRoot, CyclePrereq, CycleVisit
  <2>2. registered = Len(input)
    BY <2>1 DEF SliceInv, RefusedInv
  <2> QED
    BY <2>1, <2>2, SliceKept DEF Refuse
<1>4. CASE CycleReturn \/ OrderRoot \/ OrderPrereq \/ OrderReturn
  BY <1>4, SliceKept DEF CycleReturn, OrderRoot, OrderPrereq, OrderReturn
<1>5. CASE NoCycle \/ Validated
  BY <1>5, SliceKept DEF NoCycle, Validated, SliceInv, RefusedInv
<1> QED
  BY <1>1, <1>2, <1>3, <1>4, <1>5 DEF GraphNext

LEMMA SliceStutterInv == GraphInv /\ SliceInv /\ UNCHANGED graphVars => SliceInv'
BY SliceKept DEF graphVars

\* Once all of it is registered, the slice says what byID does.
LEMMA SliceFacts ==
  ASSUME GraphInv, SliceInv, registered = Len(input)
  PROVE  /\ GivenIDs(input) = IDs
         /\ \A c \in IDs : \A p : DependsOn(input, c, p) <=> p \in Prereqs(c)
         /\ \A c : c \notin IDs => \A p : ~DependsOn(input, c, p)
<1>1. GivenIDs(input) = IDs
  <2>1. \A c \in IDs : \E i \in 1..Len(input) : input[i].id = c
    BY DEF SliceInv, ByIDInv
  <2>2. \A i \in 1..Len(input) : input[i].id \in IDs
    BY DEF SliceInv, ByIDInv
  <2> QED
    BY <2>1, <2>2 DEF GivenIDs
<1>2. ASSUME NEW c \in IDs, NEW p PROVE DependsOn(input, c, p) <=> p \in Prereqs(c)
  <2>1. PICK i \in 1..Len(input) : input[i].id = c /\ checks[c] = input[i].prereqs
    BY DEF SliceInv, ByIDInv
  <2>2. \A j \in 1..Len(input) : input[j].id = c => j = i
    BY <2>1 DEF SliceInv, ByIDInv
  <2> QED
    BY <2>1, <2>2 DEF DependsOn, Prereqs
<1>3. \A c : c \notin IDs => \A p : ~DependsOn(input, c, p)
  BY <1>1 DEF DependsOn, GivenIDs
<1> QED
  BY <1>1, <1>2, <1>3

\* No set of checks that need one another first has a topological order.
LEMMA OrderedIsAcyclic ==
  ASSUME GraphInv, SliceInv, phase = "ordered" PROVE ~Circular(input)
<1> SUFFICES ASSUME NEW S \in SUBSET IDs, S # {},
                    \A c \in S : \E p \in S : p \in Prereqs(c)
             PROVE  FALSE
  BY SliceFacts DEF Circular, SliceInv, RefusedInv
<1> DEFINE Places == {i \in 1..Len(ordered) : ordered[i] \in S}
<1>1. Topological /\ Len(ordered) \in Nat
  BY DEF GraphInv, GraphTypeOK
<1>2. Places \in SUBSET Nat /\ Places # {}
  <2>1. PICK c \in S : TRUE
    OBVIOUS
  <2>2. c \in {ordered[i] : i \in 1..Len(ordered)}
    BY <1>1, <2>1 DEF Topological
  <2>3. PICK i \in 1..Len(ordered) : ordered[i] = c
    BY <2>2
  <2> QED
    BY <1>1, <2>1, <2>3
<1>3. PICK m \in Places : \A n \in Places : m <= n
  <2> HIDE DEF Places
  <2> QED BY <1>2, Least
<1>4. PICK p \in S : p \in Prereqs(ordered[m])
  BY <1>3
<1>5. PICK j \in 1..(m - 1) : ordered[j] = p
  BY <1>1, <1>3, <1>4 DEF Topological
<1>6. j \in Places /\ m \in Nat /\ j < m
  BY <1>1, <1>3, <1>4, <1>5
<1> QED
  BY <1>3, <1>6

\* The checks of a real cycle need one another first.
LEMMA RealCycleIsCircular ==
  ASSUME GraphInv, SliceInv, err = "cycle" PROVE Circular(input)
<1>1. registered = Len(input) /\ CycleIsReal /\ cycle \in Seq(IDs)
  BY DEF GraphInv, GraphTypeOK, SliceInv, RefusedInv
<1>2. PICK i \in 1..(Len(cycle) - 1) : cycle[i] = cycle[Len(cycle)]
  BY <1>1 DEF CycleIsReal
<1> DEFINE S == {cycle[k] : k \in i..(Len(cycle) - 1)}
<1>3. Len(cycle) \in Nat /\ \A k \in 1..Len(cycle) : cycle[k] \in IDs
  BY <1>1
<1>4. S \in SUBSET IDs /\ cycle[i] \in S
  BY <1>3
<1>5. ASSUME NEW c \in S PROVE \E p \in S : p \in Prereqs(c)
  <2>1. PICK k \in i..(Len(cycle) - 1) : c = cycle[k]
    OBVIOUS
  <2>2. cycle[k + 1] \in Prereqs(c)
    BY <1>1, <1>3, <2>1 DEF CycleIsReal
  <2>3. CASE k + 1 = Len(cycle)
    BY <1>2, <1>4, <2>2, <2>3
  <2>4. CASE k + 1 # Len(cycle)
    <3>1. k + 1 \in i..(Len(cycle) - 1)
      BY <1>3, <2>4
    <3> QED
      BY <2>2, <3>1
  <2> QED
    BY <2>3, <2>4
<1> HIDE DEF S
<1> QED
  BY <1>1, <1>4, <1>5, SliceFacts DEF Circular

LEMMA AcceptsSound == GraphInv /\ SliceInv => AcceptsExactlyDAGs
<1> SUFFICES ASSUME GraphInv, SliceInv PROVE AcceptsExactlyDAGs
  OBVIOUS
<1>1. ASSUME phase = "ordered" PROVE ~Defective(input)
  <2>1. registered = Len(input) /\ input \in Seq(Check)
    BY <1>1 DEF SliceInv, RefusedInv, GraphInv, GraphTypeOK
  <2>2. /\ \A i \in 1..Len(input) : input[i].id # EmptyID /\ checks[input[i].id] = input[i].prereqs
        /\ \A i, j \in 1..Len(input) : input[i].id = input[j].id => i = j
    BY <2>1 DEF SliceInv, ByIDInv
  <2>3. \A c \in IDs : Prereqs(c) \subseteq IDs
    BY <1>1 DEF GraphInv, RankInv
  <2>4. \A i \in 1..Len(input) : \A k \in 1..Len(input[i].prereqs) :
           input[i].prereqs[k] \in GivenIDs(input)
    <3> SUFFICES ASSUME NEW i \in 1..Len(input), NEW k \in 1..Len(input[i].prereqs)
                 PROVE  input[i].prereqs[k] \in IDs
      BY <2>1, SliceFacts
    <3>1. input[i].id \in IDs
      BY <2>1 DEF SliceInv, ByIDInv
    <3>2. input[i].prereqs[k] \in Prereqs(input[i].id)
      BY <2>2 DEF Prereqs
    <3> QED
      BY <2>3, <3>1, <3>2
  <2>5. ~Circular(input)
    BY <1>1, OrderedIsAcyclic
  <2> QED
    BY <2>2, <2>4, <2>5 DEF Defective, EmptyID
<1>2. ASSUME phase = "rejected" PROVE Defective(input)
  <2>1. err \in {"empty ID", "duplicate ID", "missing prerequisite", "cycle"}
    BY <1>2 DEF SliceInv, RefusedInv, GraphInv, GraphTypeOK, Errors
  <2>2. CASE err = "empty ID" \/ err = "duplicate ID"
    BY <2>2 DEF SliceInv, RefusedInv, Defective, EmptyID
  <2>3. CASE err = "missing prerequisite"
    <3>1. registered = Len(input)
      BY <2>3 DEF SliceInv, RefusedInv
    <3>2. PICK c \in IDs : \E p \in Prereqs(c) : p \notin GivenIDs(input)
      BY <2>3, <3>1, SliceFacts DEF SliceInv, RefusedInv
    <3>3. PICK i \in 1..Len(input) : input[i].id = c /\ checks[c] = input[i].prereqs
      BY <3>1 DEF SliceInv, ByIDInv
    <3> QED
      BY <3>2, <3>3 DEF Defective, Prereqs
  <2>4. CASE err = "cycle"
    BY <2>4, RealCycleIsCircular DEF Defective
  <2> QED
    BY <2>1, <2>2, <2>3, <2>4
<1> QED
  BY <1>1, <1>2 DEF AcceptsExactlyDAGs

-----------------------------------------------------------------------------
(* How far the order is sorted *)

\* x is a prerequisite of what was visited under r, or r itself.
Under(x, r) == x = r \/ x \in Ancestors(r)

LEMMA UnderPrereq ==
  ASSUME NEW r, NEW x \in IDs, Under(x, r), NEW p \in Prereqs(x), p \in IDs
  PROVE  p \in Ancestors(r)
<1> SUFFICES ASSUME NEW S \in SUBSET IDs, Prereqs(r) \subseteq S, Closed(S) PROVE p \in S
  BY DEF Ancestors
<1>1. CASE x = r
  BY <1>1
<1>2. CASE x \in Ancestors(r)
  BY <1>2 DEF Ancestors, Closed
<1> QED
  BY <1>1, <1>2 DEF Under

LEMMA UnderKept ==
  ASSUME UNCHANGED checks, NEW r, NEW x PROVE Under(x, r)' <=> Under(x, r)
<1>1. IDs' = IDs /\ \A c : Prereqs(c)' = Prereqs(c)
  BY DEF IDs, Prereqs
<1>2. Ancestors(r)' = Ancestors(r)
  BY <1>1 DEF Ancestors, Closed
<1> QED
  BY <1>2 DEF Under

\* r is the root x was visited under: what may still follow x is not smaller.
Rooted(x, r) == Under(x, r) /\ \A y \in IDs : NotAhead(x, y) => r <= y

LEMMA SortedNow ==
  SortInv <=> (phase \in {"order", "ordered"} =>
                 \A x \in IDs : OnStack(x) \/ InOrder(x) => \E r \in tried : Rooted(x, r))
BY DEF SortInv, Rooted, Under

LEMMA SortVisitInv ==
  ASSUME GraphInv, SortInv, phase = "order", NEW id \in IDs, NEW callers,
         Calls(id, callers), OrderVisit(id, callers),
         \/ frames = <<>> /\ IsNextRoot(id) /\ tried' = tried \union {id}
         \/ frames # <<>> /\ tried' = tried,
         UNCHANGED <<phase, checks, ordered>>
  PROVE  SortInv'
<1>1. StackTyped /\ StackInv /\ OrderInv /\ IDs \subseteq Nat /\ ordered \in Seq(IDs)
  BY DEF GraphInv, GraphTypeOK, StackTyped, FrameSet
<1>2. IDs' = IDs
  BY DEF IDs
<1>3. \A x, y : NotAhead(x, y)' <=> NotAhead(x, y)
  BY DEF NotAhead, InOrder
<1>4. \A x, r : Rooted(x, r)' <=> Rooted(x, r)
  BY <1>2, <1>3, UnderKept DEF Rooted
<1>5. \A x : InOrder(x)' <=> InOrder(x)
  BY DEF InOrder
<1>6. \A x \in IDs : OnStack(x) \/ InOrder(x) => \E r \in tried' : Rooted(x, r)
  BY SortedNow
<1>7. ASSUME id \in visited, frames' = callers
      PROVE  \A x \in IDs : OnStack(x)' \/ InOrder(x) => \E r \in tried' : Rooted(x, r)
  <2>1. \A x \in IDs : OnStack(x)' <=> OnStack(x)
    BY <1>1, <1>7, CallSkip
  <2> QED
    BY <1>6, <2>1
<1>8. ASSUME id \notin visited, frames' = Append(callers, Frame(id))
      PROVE  \A x \in IDs : OnStack(x)' \/ InOrder(x) => \E r \in tried' : Rooted(x, r)
  <2>1. ~OnStack(id) /\ ~InOrder(id)
    BY <1>1, <1>8 DEF OrderInv
  <2>2. \A x \in IDs : OnStack(x)' <=> OnStack(x) \/ x = id
    BY <1>1, <1>8, <2>1, CallPush
  <2>3. \A x, y \in IDs : ~InOrder(x) => (NotAhead(x, y) <=> ~InOrder(y))
    BY DEF NotAhead, InOrder
  <2>4. \E r \in tried' : Rooted(id, r)
    <3>1. CASE frames = <<>> /\ IsNextRoot(id) /\ tried' = tried \union {id}
      <4>1. \A y \in IDs : ~OnStack(y)
        BY <3>1 DEF OnStack
      <4>2. \A y \in IDs : ~InOrder(y) => y \in IDs \ tried
        BY <1>1, <4>1 DEF OrderInv
      <4>3. \A y \in IDs : ~InOrder(y) => id <= y
        BY <3>1, <4>2 DEF IsNextRoot
      <4> QED
        BY <2>1, <2>3, <3>1, <4>3 DEF Rooted, Under
    <3>2. CASE frames # <<>> /\ tried' = tried
      <4>1. ~Returning /\ id = Callee
        BY <3>2 DEF Calls
      <4>2. Top \in FrameSet /\ Callee \in Prereqs(Top.id) /\ Len(frames) \in Nat \ {0}
        BY <1>1, <3>2, <4>1, AdvancedFacts
      <4>3. Top.id \in IDs /\ OnStack(Top.id)
        BY <4>2 DEF FrameSet, OnStack, Top
      <4>4. PICK r \in tried : Rooted(Top.id, r)
        BY <1>6, <3>2, <4>3
      <4>5. Under(id, r)
        BY <4>1, <4>2, <4>3, <4>4, UnderPrereq DEF Rooted, Under
      <4>6. ~InOrder(Top.id)
        BY <1>1, <4>3 DEF OrderInv
      <4> QED
        BY <2>1, <2>3, <3>2, <4>3, <4>4, <4>5, <4>6 DEF Rooted
    <3> QED
      BY <3>1, <3>2
  <2> QED
    BY <1>6, <2>2, <2>4
<1>9. \A x \in IDs : OnStack(x)' \/ InOrder(x) => \E r \in tried' : Rooted(x, r)
  BY <1>7, <1>8 DEF OrderVisit
<1>10. \A x \in IDs' : OnStack(x)' \/ InOrder(x)' => \E r \in tried' : Rooted(x, r)'
  BY <1>2, <1>4, <1>5, <1>9
<1> QED
  BY <1>10 DEF SortInv, Rooted, Under
\* What is laid out now follows all that is laid out already.
LEMMA SortReturnInv == GraphInv /\ SortInv /\ OrderReturn => SortInv'
<1> SUFFICES ASSUME GraphInv, SortInv, OrderReturn PROVE SortInv'
  OBVIOUS
<1> DEFINE c == Top.id
           n == Len(ordered)
<1>1. /\ phase = "order" /\ frames # <<>> /\ Returning /\ frames' = Pop(frames)
      /\ ordered' = Append(ordered, c) /\ UNCHANGED <<phase, checks, tried>>
  BY DEF OrderReturn
<1>2. StackTyped /\ StackInv /\ OrderInv /\ IDs \subseteq Nat /\ ordered \in Seq(IDs)
  BY DEF GraphInv, GraphTypeOK, StackTyped, FrameSet
<1>3. /\ c \in IDs /\ OnStack(c)
      /\ \A x \in IDs : OnStack(x)' <=> OnStack(x) /\ x # c
  BY <1>1, <1>2, ReturnPop
<1>4. ~InOrder(c)
  BY <1>1, <1>2, <1>3 DEF OrderInv
<1> HIDE DEF c
<1>5. /\ n \in Nat /\ Len(ordered') = n + 1
      /\ \A i \in 1..n : ordered'[i] = ordered[i]
      /\ ordered'[n + 1] = c
  BY <1>1, <1>2, <1>3, AppendProperties
<1> HIDE DEF n
<1>6. \A i \in 1..Len(ordered') : i \in 1..n \/ i = n + 1
  BY <1>5
<1>7. 1..n \subseteq 1..Len(ordered') /\ n + 1 \in 1..Len(ordered')
  BY <1>5
<1>8. \A x : InOrder(x) <=> \E i \in 1..n : ordered[i] = x
  BY DEF InOrder, n
<1>9. \A x : InOrder(x)' <=> InOrder(x) \/ x = c
  BY <1>5, <1>6, <1>7, <1>8 DEF InOrder
<1>10. ASSUME NEW x \in IDs, NEW y \in IDs, NotAhead(x, y)',
              OnStack(x) \/ InOrder(x)
       PROVE  NotAhead(x, y)
  <2>1. CASE ~InOrder(y)
    BY <2>1 DEF NotAhead
  <2>2. CASE InOrder(y)
    <3>1. PICK i \in 1..Len(ordered'), j \in 1..Len(ordered') :
             i < j /\ ordered'[i] = x /\ ordered'[j] = y
      BY <1>9, <1>10, <2>2 DEF NotAhead
    <3>2. y # c
      BY <1>4, <2>2
    <3>3. j \in 1..n
      BY <1>5, <1>6, <3>1, <3>2
    <3>4. i \in 1..n
      BY <1>5, <1>6, <3>1, <3>3
    <3>5. \E k, l \in 1..n : k < l /\ ordered[k] = x /\ ordered[l] = y
      BY <1>5, <3>1, <3>3, <3>4
    <3> QED
      BY <3>5 DEF NotAhead, n
  <2> QED
    BY <2>1, <2>2
<1>11. IDs' = IDs
  BY <1>1 DEF IDs
<1>12. \A x \in IDs : OnStack(x) \/ InOrder(x) => \E r \in tried : Rooted(x, r)
  BY <1>1, SortedNow
<1>13. ASSUME NEW x \in IDs', OnStack(x)' \/ InOrder(x)'
       PROVE  \E r \in tried' : Rooted(x, r)'
  <2>1. OnStack(x) \/ InOrder(x)
    BY <1>3, <1>9, <1>11, <1>13
  <2>2. PICK r \in tried : Rooted(x, r)
    BY <1>11, <1>12, <2>1
  <2>3. Under(x, r)'
    BY <1>1, <2>2, UnderKept DEF Rooted
  <2>4. \A y \in IDs : NotAhead(x, y)' => r <= y
    BY <1>10, <1>11, <2>1, <2>2 DEF Rooted
  <2> QED
    BY <1>1, <1>11, <2>2, <2>3, <2>4 DEF Rooted
<1> QED
  BY <1>13 DEF SortInv, Rooted, Under

LEMMA SortStutterInv ==
  ASSUME SortInv, UNCHANGED <<checks, frames, tried, ordered>>,
         phase' = phase \/ phase' \notin {"order", "ordered"}
           \/ (phase = "order" /\ phase' = "ordered")
  PROVE  SortInv'
<1>1. IDs' = IDs
  BY DEF IDs
<1>2. \A x, y : /\ NotAhead(x, y)' <=> NotAhead(x, y)
                /\ OnStack(x)' <=> OnStack(x)
                /\ InOrder(x)' <=> InOrder(x)
  BY DEF NotAhead, InOrder, OnStack
<1>3. \A x, r : Rooted(x, r)' <=> Rooted(x, r)
  BY <1>1, <1>2, UnderKept DEF Rooted
<1>4. phase' \in {"order", "ordered"} =>
        \A x \in IDs' : OnStack(x)' \/ InOrder(x)' => \E r \in tried' : Rooted(x, r)'
  BY <1>1, <1>2, <1>3, SortedNow
<1> QED
  BY <1>4 DEF SortInv, Rooted, Under

LEMMA SortNextInv == GraphInv /\ SortInv /\ GraphNext => SortInv'
<1> SUFFICES ASSUME GraphInv, SortInv, GraphNext PROVE SortInv'
  OBVIOUS
<1>1. CASE Register \/ Resolve \/ CycleRoot \/ CyclePrereq \/ CycleReturn
  <2>1. phase' \notin {"order", "ordered"}
    BY <1>1 DEF Register, Resolve, CycleRoot, CyclePrereq, CycleReturn, CycleVisit, Refuse
  <2> QED
    BY <2>1 DEF SortInv
<1>2. CASE NoCycle
  <2>1. frames' = <<>> /\ ordered' = <<>>
    BY <1>2 DEF NoCycle, GraphInv, FreshInv
  <2>2. \A x : ~OnStack(x)' /\ ~InOrder(x)'
    BY <2>1 DEF OnStack, InOrder
  <2> QED
    BY <2>2 DEF SortInv
<1>3. CASE OrderRoot
  <2>1. PICK r \in IDs : IsNextRoot(r) /\ tried' = tried \union {r} /\ OrderVisit(r, frames)
    BY <1>3 DEF OrderRoot
  <2>2. Calls(r, frames) /\ frames = <<>>
    BY <2>1 DEF IsNextRoot, Calls
  <2>3. phase = "order" /\ UNCHANGED <<phase, checks, ordered>>
    BY <1>3 DEF OrderRoot
  <2> QED
    BY <2>1, <2>2, <2>3, SortVisitInv
<1>4. CASE OrderPrereq
  <2>1. phase = "order" /\ frames # <<>> /\ ~Returning /\ OrderVisit(Callee, Advanced)
        /\ UNCHANGED <<phase, checks, tried, ordered>>
    BY <1>4 DEF OrderPrereq
  <2>2. StackTyped /\ StackInv
    BY DEF GraphInv, GraphTypeOK, StackTyped, FrameSet
  <2>3. Top \in FrameSet /\ Callee \in Prereqs(Top.id)
    BY <2>1, <2>2, AdvancedFacts
  <2>4. Callee \in IDs
    BY <2>1, <2>3 DEF GraphInv, RankInv, FrameSet
  <2>5. Calls(Callee, Advanced)
    BY <2>1 DEF Calls
  <2> QED
    BY <2>1, <2>4, <2>5, SortVisitInv
<1>5. CASE OrderReturn
  BY <1>5, SortReturnInv
<1>6. CASE Validated
  BY <1>6, SortStutterInv DEF Validated
<1> QED
  BY <1>1, <1>2, <1>3, <1>4, <1>5, <1>6 DEF GraphNext

LEMMA SortedSound == GraphInv /\ SortInv => SortedUnlessRequired
<1> SUFFICES ASSUME GraphInv, SortInv, phase = "ordered",
                    NEW i \in 1..Len(ordered), NEW j \in 1..Len(ordered),
                    i < j, ordered[j] < ordered[i]
             PROVE  \E c \in IDs : c <= ordered[j] /\ ordered[i] \in Ancestors(c)
  BY DEF SortedUnlessRequired
<1>1. IDs \subseteq Nat /\ ordered \in Seq(IDs) /\ tried \subseteq IDs
  BY DEF GraphInv, GraphTypeOK
<1>2. ordered[i] \in IDs /\ ordered[j] \in IDs /\ InOrder(ordered[i])
  BY <1>1 DEF InOrder
<1>3. NotAhead(ordered[i], ordered[j])
  BY DEF NotAhead
<1>4. PICK r \in tried : Rooted(ordered[i], r)
  BY <1>2, SortedNow
<1>5. r <= ordered[j] /\ Under(ordered[i], r)
  BY <1>2, <1>3, <1>4 DEF Rooted
<1>6. r \in Nat /\ ordered[i] \in Nat /\ ordered[j] \in Nat
  BY <1>1, <1>2
<1>7. ordered[i] # r
  BY <1>5, <1>6
<1> QED
  BY <1>1, <1>5, <1>7 DEF Under

-----------------------------------------------------------------------------
(***************************************************************************)
(* validateChecks keeps its inductive invariant, whatever the slice.       *)
(***************************************************************************)
THEOREM GraphInvariant == GraphSpec => []ValidationInv
<1>1. GraphInit => ValidationInv
  <2>1. GraphInit => SortInv
    BY DEF GraphInit, SortInv
  <2> QED
    BY <2>1, GraphInitInv, SliceInitInv DEF ValidationInv, SliceInv
<1>2. ValidationInv /\ [GraphNext]_graphVars => ValidationInv'
  <2>1. ValidationInv /\ GraphNext => ValidationInv'
    BY GraphNextInv, SliceNextInv, SortNextInv DEF ValidationInv, SliceInv
  <2>2. ValidationInv /\ UNCHANGED graphVars => ValidationInv'
    BY GraphStutterInv, SliceStutterInv, SortStutterInv DEF ValidationInv, SliceInv, graphVars
  <2> QED
    BY <2>1, <2>2
<1> QED
  BY <1>1, <1>2, PTL DEF GraphSpec

(***************************************************************************)
(* The order handed to the run loop lists every check once, after its      *)
(* prerequisites (engine.go's ordering search, after detectCycles).        *)
(***************************************************************************)
THEOREM OrderIsTopological == GraphSpec => []Topological
<1>1. ValidationInv => Topological
  BY DEF ValidationInv, GraphInv
<1> QED
  BY <1>1, GraphInvariant, PTL

(***************************************************************************)
(* A slice is refused for a cycle only if its prerequisites do form one.   *)
(***************************************************************************)
THEOREM CyclesAreReal == GraphSpec => []CycleIsReal
<1>1. ValidationInv => CycleIsReal
  BY DEF ValidationInv, GraphInv
<1> QED
  BY <1>1, GraphInvariant, PTL

(***************************************************************************)
(* Run refuses the defective slices and no others: the two searches accept *)
(* every acyclic graph of known checks.                                    *)
(***************************************************************************)
THEOREM RefusedExactlyWhenDefective == GraphSpec => []AcceptsExactlyDAGs
<1>1. ValidationInv => AcceptsExactlyDAGs
  BY AcceptsSound DEF ValidationInv, SliceInv
<1> QED
  BY <1>1, GraphInvariant, PTL

(***************************************************************************)
(* The order is the sorted one, but for checks that others with a smaller  *)
(* ID depend on.                                                           *)
(***************************************************************************)
THEOREM OrderIsSorted == GraphSpec => []SortedUnlessRequired
<1>1. ValidationInv => SortedUnlessRequired
  BY SortedSound DEF ValidationInv
<1> QED
  BY <1>1, GraphInvariant, PTL

-----------------------------------------------------------------------------
(***************************************************************************)
(* The run loop, on top of the graph's step lemmas.                        *)
(***************************************************************************)
\* The initial states satisfy the inductive invariant.
LEMMA RunInitInv == Init => RunInv
<1> SUFFICES ASSUME Init PROVE RunInv
  OBVIOUS
<1>1. GraphInv
  BY GraphInitInv DEF Init
<1>2. Recorded = {} /\ Settled = {} /\ results = <<>> /\ launched = {} /\ running = {}
      /\ ended = {} /\ pc = "validate"
  BY DEF Init, Recorded, Settled
<1>3. TypeOK
  BY <1>1, <1>2 DEF Init, TypeOK, GraphInv, ContextErrs
<1>4. PrefixInv
  BY <1>2 DEF Init, GraphInit, PrefixInv, InProgress
<1>5. LaunchInv /\ EndedInv /\ GatedInv /\ AnswersAreOwn /\ OnlyAbandonedOverlap
  BY <1>2 DEF LaunchInv, EndedInv, InProgress, GatedInv, AnswersAreOwn, OnlyAbandonedOverlap
<1> QED
  BY <1>1, <1>3, <1>4, <1>5 DEF RunInv

\* What a step of the run loop leaves as it was.
LEMMA GraphKept ==
  ASSUME RunInv, UNCHANGED graphVars
  PROVE  /\ GraphInv' /\ IDs' = IDs /\ phase' = phase /\ ordered' = ordered
         /\ checks' = checks /\ \A c : Prereqs(c)' = Prereqs(c)
<1>1. GraphInv'
  BY GraphStutterInv DEF RunInv
<1>2. IDs' = IDs /\ \A c : Prereqs(c)' = Prereqs(c)
  BY DEF graphVars, IDs, Prereqs
<1> QED
  BY <1>1, <1>2 DEF graphVars

\* The check whose turn it is, in a state with results still to come.
LEMMA CurrentFacts ==
  ASSUME RunInv, phase = "ordered", Len(results) < Len(ordered)
  PROVE  /\ Len(results) \in Nat /\ Len(ordered) \in Nat /\ ordered \in Seq(IDs)
         /\ results \in Seq(Result)
         /\ Len(results) + 1 \in 1..Len(ordered) /\ Current \in IDs /\ Current \in Nat
         /\ Current \notin Settled
         /\ \A p \in Prereqs(Current) : p \in Settled
<1>1. results \in Seq(Result) /\ ordered \in Seq(IDs) /\ IDs \subseteq Nat
  BY DEF RunInv, TypeOK, GraphTypeOK
<1>2. Len(results) \in Nat /\ Len(ordered) \in Nat /\ Len(results) + 1 \in 1..Len(ordered)
  BY <1>1
<1>3. Current \in IDs
  BY <1>1, <1>2 DEF Current
<1>4. \A i \in 1..Len(results) : results[i].id = ordered[i] /\ i \in 1..Len(ordered)
  BY <1>2 DEF RunInv, PrefixInv
<1>5. Topological
  BY DEF RunInv, GraphInv
<1>6. Current \notin Settled
  <2> SUFFICES ASSUME NEW i \in 1..Len(results), results[i].id = Current PROVE FALSE
    BY DEF Settled, Recorded
  <2>1. ordered[i] = ordered[Len(results) + 1]
    BY <1>4 DEF Current
  <2>2. i = Len(results) + 1
    BY <1>2, <1>4, <1>5, <2>1 DEF Topological
  <2> QED
    BY <1>2, <2>2
<1>7. ASSUME NEW p \in Prereqs(Current) PROVE p \in Settled
  <2>1. PICK j \in 1..Len(results) : ordered[j] = p
    BY <1>2, <1>5 DEF Topological, Current
  <2>2. results[j].id = p
    BY <1>4, <2>1
  <2> QED
    BY <2>2 DEF Settled, Recorded
<1> QED
  BY <1>1, <1>2, <1>3, <1>6, <1>7

\* Before it is launched, the check whose turn it is runs nowhere.
LEMMA CurrentIdle ==
  ASSUME RunInv, phase = "ordered", Len(results) < Len(ordered), pc \in {"next", "started"}
  PROVE  Current \notin running
BY CurrentFacts DEF RunInv, OnlyAbandonedOverlap, Settled

\* Recording a result for the check whose turn it is.
LEMMA SettleInv ==
  ASSUME RunInv, pc \in {"next", "started", "select", "sync"},
         Len(results) < Len(ordered), UNCHANGED graphVars,
         NEW r \in Result, r.id = Current, Settle(r),
         UNCHANGED <<parentErr, launched>>, running' \subseteq running,
         ended \subseteq ended', ended' \subseteq launched \X (CheckStatuses \union {"panic"}),
         \A e \in ended' : e[1] \notin running',
         r.origin = "check" => <<r.id, r.status>> \in ended',
         r.origin = "panic" => <<r.id, "panic">> \in ended',
         Current \in running' => r.origin \in {"timeout", "context"},
         r.origin = "prerequisite" =>
           /\ r.status \in {"NOT_APPLICABLE", "INSUFFICIENT_DATA"}
           /\ r.status = "INSUFFICIENT_DATA" =>
                \E s \in Executed : s.status \in {"ERROR", "INSUFFICIENT_DATA"}
  PROVE  RunInv'
<1>1. phase = "ordered"
  BY DEF RunInv, PrefixInv
<1>2. /\ GraphInv' /\ IDs' = IDs /\ phase' = phase /\ ordered' = ordered
      /\ checks' = checks /\ \A c : Prereqs(c)' = Prereqs(c)
  BY GraphKept
<1>3. /\ Len(results) \in Nat /\ Len(ordered) \in Nat /\ results \in Seq(Result)
      /\ Len(results) + 1 \in 1..Len(ordered)
  BY <1>1, CurrentFacts
<1>4. results' = Append(results, r) /\ pc' = "next" /\ ctxErr' = "none" /\ ~InProgress'
  BY DEF Settle, InProgress
<1>5. /\ results' \in Seq(Result) /\ Len(results') = Len(results) + 1
      /\ \A i \in 1..Len(results) : results'[i] = results[i]
      /\ results'[Len(results) + 1] = r
  BY <1>3, <1>4, AppendProperties
<1>6. Recorded' = Recorded \union {r}
  <2>1. 1..Len(results') = 1..Len(results) \union {Len(results) + 1}
    BY <1>3, <1>5
  <2>2. \A s : s \in Recorded <=> \E i \in 1..Len(results) : s = results[i]
    BY DEF Recorded
  <2>3. \A s : s \in Recorded' <=> \E i \in 1..Len(results') : s = results'[i]
    BY DEF Recorded
  <2>4. ASSUME NEW s \in Recorded' PROVE s \in Recorded \union {r}
    <3>1. PICK i \in 1..Len(results') : s = results'[i]
      BY <2>3
    <3>2. CASE i \in 1..Len(results)
      BY <1>5, <2>2, <3>1, <3>2
    <3>3. CASE i = Len(results) + 1
      BY <1>5, <3>1, <3>3
    <3> QED
      BY <2>1, <3>2, <3>3
  <2>5. ASSUME NEW s \in Recorded PROVE s \in Recorded'
    <3>1. PICK i \in 1..Len(results) : s = results[i]
      BY <2>2
    <3>2. i \in 1..Len(results') /\ s = results'[i]
      BY <1>5, <2>1, <3>1
    <3> QED
      BY <2>3, <3>2
  <2>6. r \in Recorded'
    BY <1>5, <2>1, <2>3
  <2> QED
    BY <2>4, <2>5, <2>6
<1>7. Settled' = Settled \union {Current} /\ Executed \subseteq Executed'
  BY <1>6 DEF Settled, Executed
<1>8. TypeOK'
  <2>1. GraphTypeOK'
    BY <1>2 DEF GraphInv
  <2>2. parentErr' \in ContextErrs /\ launched' \subseteq IDs /\ running' \subseteq launched'
    BY DEF RunInv, TypeOK
  <2> QED
    BY <1>2, <1>4, <1>5, <2>1, <2>2 DEF TypeOK, ContextErrs
<1>9. PrefixInv'
  <2>1. ASSUME NEW i \in 1..Len(results') PROVE results'[i].id = ordered'[i]
    <3>1. CASE i \in 1..Len(results)
      BY <1>2, <1>5, <3>1 DEF RunInv, PrefixInv
    <3>2. CASE i = Len(results) + 1
      BY <1>2, <1>5, <3>2 DEF Current
    <3> QED
      BY <1>3, <1>5, <3>1, <3>2
  <2>2. Len(results') <= Len(ordered')
    BY <1>2, <1>3, <1>5
  <2> QED
    BY <1>1, <1>2, <1>4, <2>1, <2>2 DEF PrefixInv
<1>10. LaunchInv'
  <2>1. \A c \in launched : PassedPrereqs(c)'
    BY <1>2, <1>6 DEF RunInv, LaunchInv, PassedPrereqs
  <2>2. \A c \in launched : c \in Settled'
    BY <1>7 DEF RunInv, LaunchInv
  <2> QED
    BY <1>4, <2>1, <2>2 DEF LaunchInv
<1>11. GatedInv'
  BY <1>6, <1>7 DEF RunInv, GatedInv
<1>12. AnswersAreOwn'
  BY <1>6 DEF RunInv, AnswersAreOwn
<1>13. OnlyAbandonedOverlap'
  <2> SUFFICES ASSUME NEW c \in running'
               PROVE  \E s \in Recorded' : s.id = c /\ s.origin \in {"timeout", "context"}
    BY DEF OnlyAbandonedOverlap
  <2>1. CASE c = Current
    BY <1>6, <2>1
  <2>2. CASE c # Current
    BY <1>6, <2>2 DEF RunInv, OnlyAbandonedOverlap
  <2> QED
    BY <2>1, <2>2
<1> QED
  BY <1>2, <1>8, <1>9, <1>10, <1>11, <1>12, <1>13 DEF RunInv, EndedInv

-----------------------------------------------------------------------------
(* The steps *)

\* Validation happens before anything is recorded.
LEMMA ValidateInv == RunInv /\ Validate => RunInv'
<1> SUFFICES ASSUME RunInv, Validate PROVE RunInv'
  OBVIOUS
<1>1. GraphNext /\ GraphInv /\ UNCHANGED runVars
  BY DEF Validate, RunInv
<1>2. GraphInv'
  BY <1>1, GraphNextInv
<1>3. phase # "ordered" /\ phase # "rejected"
  BY <1>1 DEF GraphNext, Register, Resolve, CycleRoot, CyclePrereq, CycleReturn, NoCycle,
              OrderRoot, OrderPrereq, OrderReturn, Validated
<1>4. pc \in {"validate", "refused"} /\ results = <<>> /\ launched = {}
  BY <1>3 DEF RunInv, PrefixInv
<1>5. running = {} /\ ended = {} /\ parentErr \in ContextErrs /\ ctxErr \in ContextErrs
  BY <1>4 DEF RunInv, TypeOK
<1>6. UNCHANGED <<pc, results, parentErr, ctxErr, launched, running, ended>>
  BY <1>1 DEF runVars
<1>7. Recorded' = {} /\ Settled' = {} /\ Len(results') = 0
  BY <1>4, <1>6 DEF Recorded, Settled
<1>8. TypeOK'
  BY <1>2, <1>4, <1>5, <1>6 DEF TypeOK, GraphInv
<1>9. PrefixInv'
  <2>1. Len(ordered') \in Nat
    BY <1>2 DEF GraphInv, GraphTypeOK
  <2> QED
    BY <1>4, <1>6, <1>7, <2>1 DEF PrefixInv, InProgress
<1>10. LaunchInv' /\ EndedInv' /\ GatedInv' /\ AnswersAreOwn' /\ OnlyAbandonedOverlap'
  BY <1>4, <1>5, <1>6, <1>7 DEF LaunchInv, EndedInv, InProgress, GatedInv, AnswersAreOwn,
                                OnlyAbandonedOverlap
<1> QED
  BY <1>2, <1>8, <1>9, <1>10 DEF RunInv

\* Steps that record nothing and start nothing.
LEMMA QuietInv ==
  ASSUME RunInv, UNCHANGED <<graphVars, results, launched, ended>>,
         parentErr' \in ContextErrs, ctxErr' \in ContextErrs, running' \subseteq running,
         \/ pc' = pc
         \/ pc = "validate" /\ phase = "rejected" /\ pc' = "refused"
         \/ pc = "validate" /\ phase = "ordered" /\ pc' = "next"
         \/ pc = "next" /\ pc' = "returned"
         \/ /\ pc = "next" /\ pc' = "started" /\ Len(results) < Len(ordered)
            /\ PassedPrereqs(Current)
  PROVE  RunInv'
<1>1. /\ GraphInv' /\ IDs' = IDs /\ phase' = phase /\ ordered' = ordered
      /\ checks' = checks /\ \A c : Prereqs(c)' = Prereqs(c)
  BY GraphKept
<1>2. Recorded' = Recorded /\ Settled' = Settled /\ Executed' = Executed
      /\ Current' = Current /\ \A c : PassedPrereqs(c)' = PassedPrereqs(c)
  BY <1>1 DEF Recorded, Settled, Executed, Current, PassedPrereqs
<1>3. TypeOK'
  BY <1>1 DEF RunInv, TypeOK, GraphInv
<1>4. PrefixInv'
  BY <1>1 DEF RunInv, PrefixInv, InProgress
<1>5. LaunchInv'
  <2>1. LaunchInv /\ launched' = launched
    BY DEF RunInv
  <2>2. pc' \in {"select", "sync"} <=> pc \in {"select", "sync"}
    OBVIOUS
  <2>3. InProgress' => InProgress \/ PassedPrereqs(Current)
    BY DEF InProgress
  <2>4. InProgress' => PassedPrereqs(Current)
    BY <2>1, <2>3 DEF LaunchInv
  <2> QED
    BY <1>2, <2>1, <2>2, <2>4 DEF LaunchInv
<1>6. GatedInv' /\ EndedInv'
  BY <1>2 DEF RunInv, GatedInv, EndedInv
<1>7. AnswersAreOwn'
  BY <1>2 DEF RunInv, AnswersAreOwn
<1>8. OnlyAbandonedOverlap'
  BY <1>2 DEF RunInv, OnlyAbandonedOverlap
<1> QED
  BY <1>1, <1>3, <1>4, <1>5, <1>6, <1>7, <1>8 DEF RunInv

LEMMA EnterInv == RunInv /\ Enter => RunInv'
BY QuietInv DEF Enter, RunInv, TypeOK

LEMMA FinishInv == RunInv /\ Finish => RunInv'
BY QuietInv DEF Finish, RunInv, TypeOK

LEMMA ExpireInv == RunInv /\ Expire => RunInv'
BY QuietInv DEF Expire, RunInv, TypeOK, ContextErrs

LEMMA ParentEndsInv == RunInv /\ (ParentExpires \/ ParentCancels) => RunInv'
BY QuietInv DEF ParentExpires, ParentCancels, ParentEnds, RunInv, TypeOK, ContextErrs

LEMMA RunStutterInv == RunInv /\ UNCHANGED vars => RunInv'
BY QuietInv DEF vars, runVars, RunInv, TypeOK

\* No prerequisite is barred, and all have a result: they passed.
LEMMA StartInv == RunInv /\ Start => RunInv'
<1> SUFFICES ASSUME RunInv, Start PROVE RunInv'
  OBVIOUS
<1>1. /\ pc = "next" /\ Len(results) < Len(ordered) /\ pc' = "started" /\ ctxErr' = parentErr
      /\ \A r \in Recorded : \A p \in Prereqs(Current) : ~Bars(r, p)
      /\ UNCHANGED <<graphVars, results, parentErr, launched, running, ended>>
  BY DEF Start
<1>2. phase = "ordered"
  BY <1>1 DEF RunInv, PrefixInv
<1>3. \A p \in Prereqs(Current) : p \in Settled
  BY <1>1, <1>2, CurrentFacts
<1>4. PassedPrereqs(Current)
  BY <1>1, <1>3 DEF PassedPrereqs, Settled, Bars
<1>5. parentErr \in ContextErrs
  BY DEF RunInv, TypeOK
<1> QED
  BY <1>1, <1>4, <1>5, QuietInv

LEMMA LaunchedInv == RunInv /\ Launch => RunInv'
<1> SUFFICES ASSUME RunInv, Launch PROVE RunInv'
  OBVIOUS
<1>1. /\ pc = "started" /\ pc' \in {"select", "sync"}
      /\ launched' = launched \union {Current} /\ running' = running \union {Current}
      /\ UNCHANGED <<graphVars, results, parentErr, ctxErr, ended>>
  BY DEF Launch
<1>2. phase = "ordered" /\ Len(results) < Len(ordered) /\ PassedPrereqs(Current)
  BY <1>1 DEF RunInv, PrefixInv, LaunchInv, InProgress
<1>3. Current \in IDs
  BY <1>2, CurrentFacts
<1>4. /\ GraphInv' /\ IDs' = IDs /\ phase' = phase /\ ordered' = ordered
      /\ checks' = checks /\ \A c : Prereqs(c)' = Prereqs(c)
  BY <1>1, GraphKept
<1>5. Recorded' = Recorded /\ Settled' = Settled /\ Executed' = Executed
      /\ Current' = Current /\ \A c : PassedPrereqs(c)' = PassedPrereqs(c)
  BY <1>1, <1>4 DEF Recorded, Settled, Executed, Current, PassedPrereqs
<1>6. TypeOK'
  BY <1>1, <1>3, <1>4 DEF RunInv, TypeOK, GraphInv
<1>7. PrefixInv'
  BY <1>1, <1>2, <1>4 DEF RunInv, PrefixInv, InProgress
<1>8. LaunchInv'
  BY <1>1, <1>2, <1>5 DEF RunInv, LaunchInv, InProgress
<1>9. GatedInv' /\ AnswersAreOwn' /\ EndedInv'
  <2>1. GatedInv' /\ AnswersAreOwn'
    BY <1>1, <1>5 DEF RunInv, GatedInv, AnswersAreOwn
  <2>2. \A e \in ended : e[1] # Current
    <3>1. Current \notin Settled
      BY <1>2, CurrentFacts
    <3>2. \A c \in launched : c \in Settled
      BY <1>1 DEF RunInv, LaunchInv
    <3>3. \A e \in ended : e[1] \in launched
      BY DEF RunInv, TypeOK
    <3> QED
      BY <3>1, <3>2, <3>3
  <2> QED
    BY <1>1, <2>1, <2>2 DEF RunInv, EndedInv
<1>10. OnlyAbandonedOverlap'
  BY <1>1, <1>5 DEF RunInv, OnlyAbandonedOverlap
<1> QED
  BY <1>4, <1>6, <1>7, <1>8, <1>9, <1>10 DEF RunInv

\* A check that ends on its goroutine changes nothing on record.
LEMMA EndInv == RunInv /\ (\E c \in running : End(c)) => RunInv'
<1> SUFFICES ASSUME RunInv, NEW c \in running, End(c) PROVE RunInv'
  OBVIOUS
<1>1. PICK outcome \in CheckStatuses \union {"panic"} : ended' = ended \union {<<c, outcome>>}
  BY DEF End
<1>2. /\ running' = running \ {c}
      /\ UNCHANGED <<graphVars, pc, results, parentErr, ctxErr, launched>>
  BY DEF End
<1>3. /\ GraphInv' /\ IDs' = IDs /\ phase' = phase /\ ordered' = ordered
      /\ checks' = checks /\ \A d : Prereqs(d)' = Prereqs(d)
  BY <1>2, GraphKept
<1>4. Recorded' = Recorded /\ Settled' = Settled /\ Executed' = Executed
      /\ Current' = Current /\ \A d : PassedPrereqs(d)' = PassedPrereqs(d)
  BY <1>2, <1>3 DEF Recorded, Settled, Executed, Current, PassedPrereqs
<1>5. TypeOK'
  BY <1>1, <1>2, <1>3 DEF RunInv, TypeOK, GraphInv
<1>6. PrefixInv' /\ LaunchInv'
  <2>1. PrefixInv'
    BY <1>2, <1>3 DEF RunInv, PrefixInv, InProgress
  <2>2. LaunchInv'
    BY <1>2, <1>4 DEF RunInv, LaunchInv, InProgress
  <2> QED
    BY <2>1, <2>2
<1>7. GatedInv' /\ AnswersAreOwn' /\ EndedInv' /\ OnlyAbandonedOverlap'
  BY <1>1, <1>2, <1>4 DEF RunInv, GatedInv, AnswersAreOwn, EndedInv, OnlyAbandonedOverlap
<1> QED
  BY <1>3, <1>5, <1>6, <1>7 DEF RunInv

\* The results the run loop can record are results.
LEMMA ResultFacts ==
  ASSUME RunInv, phase = "ordered", Len(results) < Len(ordered)
  PROVE  /\ ContextFailure(Current) \in Result
         /\ ContextFailure(Current).id = Current
         /\ ContextFailure(Current).origin \in {"timeout", "context"}
         /\ \A outcome \in CheckStatuses \union {"panic"} :
              /\ Answer(Current, outcome) \in Result
              /\ Answer(Current, outcome).id = Current
              /\ \/ /\ Answer(Current, outcome).origin = "check"
                    /\ Answer(Current, outcome).status = outcome
                 \/ Answer(Current, outcome).origin = "panic" /\ outcome = "panic"
<1>1. Current \in Nat
  BY CurrentFacts
<1>2. "panic" \notin Statuses
  BY DEF Statuses
<1> QED
  BY <1>1, <1>2, StatusAssumption
  DEF ContextFailure, Answer, Result, Statuses, Origins

LEMMA BlockInv == RunInv /\ Block => RunInv'
<1> SUFFICES ASSUME RunInv, Block PROVE RunInv'
  OBVIOUS
<1>1. pc = "next" /\ Len(results) < Len(ordered)
      /\ UNCHANGED <<graphVars, parentErr, launched, running, ended>>
  BY DEF Block
<1>2. PICK r \in Recorded :
         /\ Blocking(r, Current)
         /\ Settle([id |-> Current, status |-> Propagated(r.status),
                    origin |-> "prerequisite"])
  BY DEF Block
<1> DEFINE v == [id |-> Current, status |-> Propagated(r.status), origin |-> "prerequisite"]
<1>3. phase = "ordered"
  BY <1>1 DEF RunInv, PrefixInv
<1>4. Current \in Nat /\ Current \notin running /\ results \in Seq(Result)
  BY <1>1, <1>3, CurrentFacts, CurrentIdle
<1>5. r \in Result /\ r.status \in Statuses /\ r.status # "PASS"
  <2>1. \A i \in 1..Len(results) : results[i] \in Result
    BY <1>4
  <2>2. r \in Result
    BY <2>1 DEF Recorded
  <2> QED
    BY <1>2, <2>2 DEF Result, Blocking, Bars
<1>6. v \in Result /\ v.id = Current /\ v.origin = "prerequisite"
      /\ v.status \in {"NOT_APPLICABLE", "INSUFFICIENT_DATA"}
  BY <1>4 DEF Result, Statuses, Origins, Propagated
<1>7. v.status = "INSUFFICIENT_DATA" =>
        \E s \in Executed : s.status \in {"ERROR", "INSUFFICIENT_DATA"}
  <2> SUFFICES ASSUME v.status = "INSUFFICIENT_DATA"
               PROVE  \E s \in Executed : s.status \in {"ERROR", "INSUFFICIENT_DATA"}
    OBVIOUS
  <2>1. r.status \in {"ERROR", "INSUFFICIENT_DATA"}
    BY <1>5 DEF Propagated, Statuses
  <2>2. CASE r.origin = "prerequisite"
    BY <2>1, <2>2 DEF RunInv, GatedInv
  <2>3. CASE r.origin # "prerequisite"
    BY <2>1, <2>3 DEF Executed
  <2> QED
    BY <2>2, <2>3
<1>8. ended \subseteq launched \X (CheckStatuses \union {"panic"})
  BY DEF RunInv, TypeOK
<1>9. Settle(v)
  BY <1>2
<1> HIDE DEF v
<1> QED
  BY <1>1, <1>4, <1>6, <1>7, <1>8, <1>9, SettleInv DEF RunInv, EndedInv

LEMMA FailEarlyInv == RunInv /\ FailEarly => RunInv'
<1> SUFFICES ASSUME RunInv, FailEarly PROVE RunInv'
  OBVIOUS
<1>1. pc = "started" /\ Settle(ContextFailure(Current))
      /\ UNCHANGED <<graphVars, parentErr, launched, running, ended>>
  BY DEF FailEarly
<1>2. phase = "ordered" /\ Len(results) < Len(ordered)
  BY <1>1 DEF RunInv, PrefixInv, InProgress
<1>3. ended \subseteq launched \X (CheckStatuses \union {"panic"})
  BY DEF RunInv, TypeOK
<1> QED
  BY <1>1, <1>2, <1>3, ResultFacts, SettleInv DEF RunInv, EndedInv

LEMMA StopWaitingInv == RunInv /\ StopWaiting => RunInv'
<1> SUFFICES ASSUME RunInv, StopWaiting PROVE RunInv'
  OBVIOUS
<1>1. pc = "select" /\ Settle(ContextFailure(Current))
      /\ UNCHANGED <<graphVars, parentErr, launched, running, ended>>
  BY DEF StopWaiting
<1>2. phase = "ordered" /\ Len(results) < Len(ordered)
  BY <1>1 DEF RunInv, PrefixInv, InProgress
<1>3. ended \subseteq launched \X (CheckStatuses \union {"panic"})
  BY DEF RunInv, TypeOK
<1> QED
  BY <1>1, <1>2, <1>3, ResultFacts, SettleInv DEF RunInv, EndedInv

LEMMA TakeResultInv == RunInv /\ TakeResult => RunInv'
<1> SUFFICES ASSUME RunInv, TakeResult PROVE RunInv'
  OBVIOUS
<1>1. pc = "select" /\ UNCHANGED <<graphVars, parentErr, launched, running, ended>>
  BY DEF TakeResult
<1>2. PICK e \in ended : e[1] = Current /\ Settle(Answer(Current, e[2]))
  BY DEF TakeResult
<1>3. phase = "ordered" /\ Len(results) < Len(ordered)
  BY <1>1 DEF RunInv, PrefixInv, InProgress
<1>4. ended \subseteq launched \X (CheckStatuses \union {"panic"})
  BY DEF RunInv, TypeOK
<1>5. e[2] \in CheckStatuses \union {"panic"} /\ e = <<Current, e[2]>>
  BY <1>2, <1>4
<1>6. Current \notin running /\ \A f \in ended : f[1] \notin running
  BY <1>2 DEF RunInv, EndedInv
<1> DEFINE r == Answer(Current, e[2])
<1>7. /\ r \in Result /\ r.id = Current
      /\ \/ r.origin = "check" /\ r.status = e[2]
         \/ r.origin = "panic" /\ e[2] = "panic"
  BY <1>3, <1>5, ResultFacts
<1>8. Settle(r)
  BY <1>2
<1> HIDE DEF r
<1> QED
  BY <1>1, <1>3, <1>4, <1>5, <1>6, <1>7, <1>8, SettleInv

LEMMA EndSyncInv == RunInv /\ EndSync => RunInv'
<1> SUFFICES ASSUME RunInv, EndSync PROVE RunInv'
  OBVIOUS
<1>1. pc = "sync" /\ running' = running \ {Current} /\ UNCHANGED <<graphVars, parentErr, launched>>
  BY DEF EndSync
<1>2. PICK outcome \in CheckStatuses \union {"panic"} :
         /\ ended' = ended \union {<<Current, outcome>>}
         /\ Settle(Answer(Current, outcome))
  BY DEF EndSync
<1>3. phase = "ordered" /\ Len(results) < Len(ordered) /\ Current \in launched
  BY <1>1 DEF RunInv, PrefixInv, LaunchInv, InProgress
<1>4. ended' \subseteq launched \X (CheckStatuses \union {"panic"})
  BY <1>2, <1>3 DEF RunInv, TypeOK
<1>5. \A f \in ended' : f[1] \notin running'
  BY <1>1, <1>2 DEF RunInv, EndedInv
<1> DEFINE r == Answer(Current, outcome)
<1>6. /\ r \in Result /\ r.id = Current
      /\ \/ r.origin = "check" /\ r.status = outcome
         \/ r.origin = "panic" /\ outcome = "panic"
  BY <1>3, ResultFacts
<1>7. Settle(r)
  BY <1>2
<1> HIDE DEF r
<1> QED
  BY <1>1, <1>2, <1>3, <1>4, <1>5, <1>6, <1>7, SettleInv

LEMMA RunNextInv == RunInv /\ [Next]_vars => RunInv'
BY ValidateInv, EnterInv, BlockInv, StartInv, FailEarlyInv, LaunchedInv, TakeResultInv,
   StopWaitingInv, FinishInv, EndSyncInv, ExpireInv, ParentEndsInv, EndInv, RunStutterInv
DEF Next, EngineStep

-----------------------------------------------------------------------------
(* What a step records *)

\* What recording a result adds.
LEMMA RecordedGrows ==
  ASSUME RunInv, NEW r, results' = Append(results, r)
  PROVE  Recorded' = Recorded \union {r} /\ Settled' = Settled \union {r.id}
<1>1. results \in Seq(Result) /\ Len(results) \in Nat
  BY DEF RunInv, TypeOK
<1>2. /\ Len(results') = Len(results) + 1 /\ results'[Len(results) + 1] = r
      /\ \A i \in 1..Len(results) : results'[i] = results[i]
  BY <1>1
<1>3. \A i \in 1..Len(results') : i \in 1..Len(results) \/ i = Len(results) + 1
  BY <1>1, <1>2
<1>4. 1..Len(results) \subseteq 1..Len(results') /\ Len(results) + 1 \in 1..Len(results')
  BY <1>1, <1>2
<1>5. \A s : s \in Recorded <=> \E i \in 1..Len(results) : s = results[i]
  BY DEF Recorded
<1>6. \A s : s \in Recorded' <=> \E i \in 1..Len(results') : s = results'[i]
  BY DEF Recorded
<1>7. ASSUME NEW s \in Recorded' PROVE s \in Recorded \union {r}
  BY <1>2, <1>3, <1>5, <1>6
<1>8. ASSUME NEW s \in Recorded \union {r} PROVE s \in Recorded'
  BY <1>2, <1>4, <1>5, <1>6
<1>9. Recorded' = Recorded \union {r}
  BY <1>7, <1>8
<1> QED
  BY <1>9 DEF Settled

-----------------------------------------------------------------------------
(* Causes of gated results *)

Cause(r) == \E s \in Executed : /\ s.id \in Ancestors(r.id)
                                /\ s.status # "PASS"
                                /\ Propagated(s.status) = r.status

LEMMA AncestorsKept == ASSUME UNCHANGED checks PROVE \A c : Ancestors(c)' = Ancestors(c)
<1>1. IDs' = IDs /\ \A c : Prereqs(c)' = Prereqs(c)
  BY DEF IDs, Prereqs
<1> QED
  BY <1>1 DEF Ancestors, Closed

\* Causes stay causes.
LEMMA CauseKept ==
  ASSUME RunInv, GatedForCause, UNCHANGED <<checks, results>> PROVE GatedForCause'
<1>1. Recorded' = Recorded /\ Executed' = Executed
  BY DEF Recorded, Executed
<1> QED
  BY <1>1, AncestorsKept DEF GatedForCause

LEMMA CauseSettled ==
  ASSUME RunInv, GatedForCause, UNCHANGED checks,
         NEW r, results' = Append(results, r),
         r.origin = "prerequisite" => Cause(r)
  PROVE  GatedForCause'
<1>1. Recorded' = Recorded \union {r}
  BY RecordedGrows
<1>2. Executed \subseteq Executed'
  BY <1>1 DEF Executed
<1>3. ASSUME NEW s \in Recorded', s.origin = "prerequisite" PROVE Cause(s)
  BY <1>1, <1>3 DEF GatedForCause, Cause
<1>4. \A s : Cause(s) => Cause(s)'
  BY <1>2, AncestorsKept DEF Cause
<1> QED
  BY <1>3, <1>4 DEF GatedForCause, Cause

\* What a prerequisite depends on, the check depends on.
LEMMA DirectAncestors ==
  ASSUME RunInv, phase = "ordered", NEW c \in IDs, NEW p \in Prereqs(c)
  PROVE  p \in Ancestors(c) /\ Ancestors(p) \subseteq Ancestors(c)
<1>1. p \in IDs
  BY DEF RunInv, GraphInv, RankInv
<1> QED
  BY <1>1 DEF Ancestors, Closed

\* The cause of the prerequisite a check is gated for is the check's own.
LEMMA CauseBlock == RunInv /\ GatedForCause /\ Block => GatedForCause'
<1> SUFFICES ASSUME RunInv, GatedForCause, Block PROVE GatedForCause'
  OBVIOUS
<1>1. pc = "next" /\ Len(results) < Len(ordered) /\ UNCHANGED graphVars
  BY DEF Block
<1>2. PICK r \in Recorded :
         /\ Blocking(r, Current)
         /\ Settle([id |-> Current, status |-> Propagated(r.status),
                    origin |-> "prerequisite"])
  BY DEF Block
<1> DEFINE v == [id |-> Current, status |-> Propagated(r.status), origin |-> "prerequisite"]
<1>3. phase = "ordered"
  BY <1>1 DEF RunInv, PrefixInv
<1>4. Current \in IDs
  BY <1>1, <1>3, CurrentFacts
<1>5. r.id \in Prereqs(Current) /\ r.status # "PASS"
  BY <1>2 DEF Blocking, Bars, Prereqs
<1>6. r.id \in Ancestors(Current) /\ Ancestors(r.id) \subseteq Ancestors(Current)
  BY <1>3, <1>4, <1>5, DirectAncestors
<1>7. Cause(v)
  <2>1. CASE r.origin # "prerequisite"
    <3>1. r \in Executed
      BY <2>1 DEF Executed
    <3> QED
      BY <1>5, <1>6, <3>1 DEF Cause
  <2>2. CASE r.origin = "prerequisite"
    <3>1. PICK s \in Executed : s.id \in Ancestors(r.id) /\ s.status # "PASS"
                                /\ Propagated(s.status) = r.status
      BY <2>2 DEF GatedForCause
    <3>2. Propagated(r.status) = r.status
      BY <2>2 DEF RunInv, GatedInv, Propagated
    <3> QED
      BY <1>6, <3>1, <3>2 DEF Cause
  <2> QED
    BY <2>1, <2>2
<1>8. results' = Append(results, v) /\ UNCHANGED checks
  BY <1>1, <1>2 DEF Settle, graphVars
<1> HIDE DEF v
<1> QED
  BY <1>7, <1>8, CauseSettled

\* The results of checks that are not gated.
LEMMA OwnResult ==
  ASSUME RunInv, phase = "ordered", Len(results) < Len(ordered),
         NEW r, \/ r = ContextFailure(Current)
                \/ \E outcome \in CheckStatuses \union {"panic"} : r = Answer(Current, outcome)
  PROVE  r \in Result /\ r.id = Current /\ r.origin # "prerequisite"
BY ResultFacts

\* The steps that record what a check itself came to.
Answers(r) ==
    /\ InProgress
    /\ Settle(r)
    /\ UNCHANGED graphVars
    /\ r \in Result /\ r.id = Current /\ r.origin # "prerequisite"
    /\ r.status \in CheckStatuses \union {"ERROR"}

LEMMA AnswerSteps ==
  ASSUME RunInv, FailEarly \/ TakeResult \/ StopWaiting \/ EndSync
  PROVE  \E r : Answers(r)
<1>1. InProgress
  BY DEF FailEarly, TakeResult, StopWaiting, EndSync, InProgress
<1>2. UNCHANGED graphVars
  BY DEF FailEarly, TakeResult, StopWaiting, EndSync
<1>3. phase = "ordered" /\ Len(results) < Len(ordered)
  BY <1>1 DEF RunInv, PrefixInv, InProgress
<1>4. CASE FailEarly \/ StopWaiting
  <2>1. Settle(ContextFailure(Current)) /\ ContextFailure(Current).status = "ERROR"
    BY <1>4 DEF FailEarly, StopWaiting, ContextFailure
  <2> QED
    BY <1>1, <1>2, <1>3, <2>1, OwnResult DEF Answers
<1>5. CASE TakeResult \/ EndSync
  <2>1. PICK outcome \in CheckStatuses \union {"panic"} : Settle(Answer(Current, outcome))
    BY <1>5 DEF TakeResult, EndSync, RunInv, TypeOK
  <2>2. Answer(Current, outcome).status \in CheckStatuses \union {"ERROR"}
    BY DEF Answer
  <2> QED
    BY <1>1, <1>2, <1>3, <2>1, <2>2, OwnResult DEF Answers
<1> QED
  BY <1>4, <1>5

\* The steps the results do not change in.
QuietStep == \/ Validate \/ Enter \/ Start \/ Launch \/ Finish \/ Expire
             \/ ParentExpires \/ ParentCancels \/ (\E c \in running : End(c))

LEMMA StepKinds ==
  ASSUME Next PROVE QuietStep \/ Block \/ FailEarly \/ TakeResult \/ StopWaiting \/ EndSync
BY DEF Next, EngineStep, QuietStep

LEMMA QuietKept == QuietStep => UNCHANGED results
BY DEF QuietStep, Validate, runVars, Enter, Start, Launch, Finish, Expire, ParentExpires,
       ParentCancels, ParentEnds, End

LEMMA CauseNext == RunInv /\ GatedForCause /\ Next => GatedForCause'
<1> SUFFICES ASSUME RunInv, GatedForCause, Next PROVE GatedForCause'
  OBVIOUS
<1>1. CASE Validate
  <2>1. results = <<>> /\ results' = results
    <3>1. phase # "ordered"
      BY <1>1 DEF Validate, GraphNext, Register, Resolve, CycleRoot, CyclePrereq, CycleReturn,
                  NoCycle, OrderRoot, OrderPrereq, OrderReturn, Validated
    <3> QED
      BY <1>1, <3>1 DEF RunInv, PrefixInv, Validate, runVars
  <2>2. Recorded' = {}
    BY <2>1 DEF Recorded
  <2> QED
    BY <2>2 DEF GatedForCause
<1>2. CASE QuietStep /\ ~Validate
  <2>1. UNCHANGED <<checks, results>>
    BY <1>2, QuietKept DEF QuietStep, Enter, Start, Launch, Finish, Expire, ParentExpires,
       ParentCancels, ParentEnds, End, graphVars
  <2> QED
    BY <2>1, CauseKept
<1>3. CASE Block
  BY <1>3, CauseBlock
<1>4. CASE FailEarly \/ TakeResult \/ StopWaiting \/ EndSync
  <2>1. PICK r : Answers(r)
    BY <1>4, AnswerSteps
  <2>2. results' = Append(results, r) /\ UNCHANGED checks /\ r.origin # "prerequisite"
    BY <2>1 DEF Answers, Settle, graphVars
  <2> QED
    BY <2>2, CauseSettled
<1> QED
  BY <1>1, <1>2, <1>3, <1>4, StepKinds

\* byID goes on mirroring the slice.
LEMMA SliceRun == RunInv /\ ByIDInv /\ RefusedInv /\ [Next]_vars => ByIDInv' /\ RefusedInv'
<1> SUFFICES ASSUME RunInv, ByIDInv, RefusedInv, [Next]_vars PROVE SliceInv'
  BY DEF SliceInv
<1>1. GraphNext \/ UNCHANGED graphVars
  BY DEF Next, EngineStep, Validate, Enter, Block, Start, FailEarly, Launch,
         TakeResult, StopWaiting, Finish, EndSync, Expire, ParentExpires,
         ParentCancels, ParentEnds, End, vars
<1> QED
  BY <1>1, SliceNextInv, SliceStutterInv DEF RunInv, SliceInv

-----------------------------------------------------------------------------
(* Run keeps the contract *)

Verdicts == {Verdict(r) : r \in Recorded}

\* The contract's words for what the engine has.
LEMMA ContractTerms ==
  /\ Contract!Defective(input) <=> Defective(input)
  /\ Contract!IDs = GivenIDs(input)
  /\ \A c, p : Contract!DependsOn(input, c, p) <=> DependsOn(input, c, p)
  /\ \A c : Contract!HasVerdict(c) <=> c \in Settled
  /\ \A c : Contract!Passed(c) <=> \E r \in Recorded : r.id = c /\ r.status = "PASS"
<1>1. Contract!IDs = GivenIDs(input)
  BY DEF Contract!IDs, Contract!GivenIDs, GivenIDs
<1>2. \A c, p : Contract!DependsOn(input, c, p) <=> DependsOn(input, c, p)
  BY DEF Contract!DependsOn, DependsOn
<1>3. Contract!GivenIDs(input) = GivenIDs(input)
  BY DEF Contract!GivenIDs, GivenIDs
<1>4. Contract!Circular(input) <=> Circular(input)
  BY <1>2, <1>3 DEF Contract!Circular, Circular
<1>5. Contract!Defective(input) <=> Defective(input)
  BY <1>3, <1>4 DEF Contract!Defective, Defective
<1>6. \A r : Verdict(r).id = r.id /\ Verdict(r).status = r.status
  BY DEF Verdict
<1>7. \A v : v \in Verdicts <=> \E r \in Recorded : v = Verdict(r)
  BY DEF Verdicts
<1>8. \A c : (\E v \in Verdicts : v.id = c) <=> \E r \in Recorded : r.id = c
  BY <1>6, <1>7
<1>9. \A c : Contract!HasVerdict(c) <=> c \in Settled
  BY <1>8 DEF Contract!HasVerdict, Verdicts, Settled
<1>10. \A c : (\E v \in Verdicts : v.id = c /\ v.status = "PASS")
                <=> \E r \in Recorded : r.id = c /\ r.status = "PASS"
  BY <1>6, <1>7
<1>11. \A c : Contract!Passed(c) <=> \E r \in Recorded : r.id = c /\ r.status = "PASS"
  BY <1>10 DEF Contract!Passed, Verdicts
<1> QED
  BY <1>1, <1>2, <1>5, <1>9, <1>11

\* The check whose turn it is may be settled.
LEMMA MaySettleCurrent ==
  ASSUME EngineInv, pc \in {"next", "started", "select", "sync"}, Len(results) < Len(ordered)
  PROVE  /\ Contract!MaySettle(Current) /\ Current \in Contract!IDs
         /\ \A p : Contract!DependsOn(input, Current, p) <=> p \in Prereqs(Current)
<1>1. RunInv /\ GraphInv /\ SliceInv
  BY DEF EngineInv, RunInv, SliceInv
<1>2. phase = "ordered"
  BY <1>1 DEF RunInv, PrefixInv
<1>3. /\ Current \in IDs /\ Current \notin Settled
      /\ \A p \in Prereqs(Current) : p \in Settled
  BY <1>1, <1>2, CurrentFacts
<1>4. registered = Len(input)
  BY <1>2 DEF EngineInv, RefusedInv
<1>5. GivenIDs(input) = IDs /\ \A p : DependsOn(input, Current, p) <=> p \in Prereqs(Current)
  BY <1>1, <1>3, <1>4, SliceFacts
<1>6. Outcome = "running"
  BY DEF Outcome
<1> QED
  BY <1>3, <1>5, <1>6, ContractTerms DEF Contract!MaySettle

\* A recorded result is one more verdict.
LEMMA ContractVars ==
  ASSUME RunInv, NEW r, Settle(r), pc \in {"next", "started", "select", "sync"},
         UNCHANGED graphVars
  PROVE  /\ Verdicts' = Verdicts \union {Verdict(r)}
         /\ input' = input /\ Outcome' = Outcome
<1>1. Recorded' = Recorded \union {r}
  BY RecordedGrows DEF Settle
<1>2. Verdicts' = Verdicts \union {Verdict(r)}
  BY <1>1 DEF Verdicts, Verdict
<1>3. input' = input /\ Outcome' = Outcome
  BY DEF Settle, Outcome, graphVars
<1> QED
  BY <1>2, <1>3

LEMMA RefinesInit == Init => Contract!ContractInit
<1> SUFFICES ASSUME Init PROVE Contract!ContractInit
  OBVIOUS
<1>1. Recorded = {} /\ pc = "validate" /\ input \in Inputs
  BY DEF Init, Recorded, GraphInit
<1>2. Outcome = "planning"
  BY <1>1 DEF Outcome
<1> QED
  BY <1>1, <1>2 DEF Contract!ContractInit

\* Bookkeeping the contract does not see.
LEMMA RefinesQuiet ==
  ASSUME EngineInv, QuietStep, ~Enter, ~Finish
  PROVE  UNCHANGED <<input, Outcome, Verdicts>>
<1>1. results' = results /\ input' = input
  BY QuietKept DEF QuietStep, Validate, GraphNext, Register, Resolve, CycleRoot, CyclePrereq,
     CycleReturn, NoCycle, OrderRoot, OrderPrereq, OrderReturn, Validated, graphVars, Start,
     Launch, Expire, ParentExpires, ParentCancels, ParentEnds, End
<1>2. \/ pc' = pc
      \/ pc \in {"next", "started"} /\ pc' \in {"started", "select", "sync"}
  BY DEF QuietStep, Validate, runVars, Start, Launch, Expire, ParentExpires, ParentCancels,
     ParentEnds, End
<1>3. Outcome' = Outcome
  BY <1>2 DEF Outcome
<1> QED
  BY <1>1, <1>3 DEF Verdicts, Recorded, Verdict

\* The end of validation: Refuse or Accept.
LEMMA RefinesEnter == EngineInv /\ Enter => Contract!ContractNext
<1> SUFFICES ASSUME EngineInv, Enter PROVE Contract!ContractNext
  OBVIOUS
<1>1. AcceptsExactlyDAGs
  BY AcceptsSound DEF EngineInv, RunInv, SliceInv
<1>2. UNCHANGED <<input, Verdicts>> /\ Outcome = "planning"
  BY DEF Enter, graphVars, Verdicts, Recorded, Verdict, Outcome
<1>3. CASE phase = "rejected" /\ pc' = "refused"
  <2>1. Outcome' = "refused" /\ Contract!Defective(input)
    BY <1>1, <1>3, ContractTerms DEF Outcome, AcceptsExactlyDAGs
  <2> QED
    BY <1>2, <2>1 DEF Contract!ContractNext, Contract!Refuse, Verdicts
<1>4. CASE phase = "ordered" /\ pc' = "next"
  <2>1. Outcome' = "running" /\ ~Contract!Defective(input)
    BY <1>1, <1>4, ContractTerms DEF Outcome, AcceptsExactlyDAGs
  <2> QED
    BY <1>2, <2>1 DEF Contract!ContractNext, Contract!Accept, Verdicts
<1> QED
  BY <1>3, <1>4 DEF Enter

\* All checks have a verdict when the loop is over: Return.
LEMMA RefinesFinish == EngineInv /\ Finish => Contract!ContractNext
<1> SUFFICES ASSUME EngineInv, Finish PROVE Contract!ContractNext
  OBVIOUS
<1>1. pc = "next" /\ Len(results) = Len(ordered) /\ pc' = "returned"
      /\ UNCHANGED <<graphVars, results>>
  BY DEF Finish
<1>2. UNCHANGED <<input, Verdicts>> /\ Outcome = "running" /\ Outcome' = "returned"
  BY <1>1 DEF graphVars, Verdicts, Recorded, Verdict, Outcome
<1>3. RunInv /\ GraphInv /\ SliceInv /\ phase = "ordered"
  BY <1>1 DEF EngineInv, RunInv, SliceInv, PrefixInv
<1>4. registered = Len(input)
  BY <1>3 DEF EngineInv, RefusedInv
<1>5. GivenIDs(input) = IDs
  BY <1>3, <1>4, SliceFacts
<1>6. ASSUME NEW c \in IDs PROVE c \in Settled
  <2>1. c \in {ordered[i] : i \in 1..Len(ordered)}
    BY <1>3 DEF GraphInv, Topological
  <2>2. PICK i \in 1..Len(ordered) : ordered[i] = c
    BY <2>1
  <2>3. results[i].id = c
    BY <1>1, <1>3, <2>2 DEF RunInv, PrefixInv
  <2> QED
    BY <1>1, <2>3 DEF Settled, Recorded
<1>7. \A c \in Contract!IDs : Contract!HasVerdict(c)
  BY <1>5, <1>6, ContractTerms
<1> QED
  BY <1>2, <1>7 DEF Contract!ContractNext, Contract!Return, Verdicts

\* A check that ran, or whose context ended: Evaluate.
LEMMA RefinesAnswer == EngineInv /\ (\E r : Answers(r)) => Contract!ContractNext
<1> SUFFICES ASSUME EngineInv, NEW r, Answers(r) PROVE Contract!ContractNext
  OBVIOUS
<1>1. /\ InProgress /\ Settle(r) /\ UNCHANGED graphVars /\ r.id = Current
      /\ r.origin # "prerequisite" /\ r.status \in CheckStatuses \union {"ERROR"}
  BY DEF Answers
<1>2. RunInv /\ pc \in {"next", "started", "select", "sync"} /\ Len(results) < Len(ordered)
  BY <1>1 DEF EngineInv, RunInv, PrefixInv, InProgress
<1>3. /\ Contract!MaySettle(Current) /\ Current \in Contract!IDs
      /\ \A p : Contract!DependsOn(input, Current, p) <=> p \in Prereqs(Current)
  BY <1>2, MaySettleCurrent
<1>4. \A p : Contract!DependsOn(input, Current, p) => Contract!Passed(p)
  BY <1>1, <1>2, <1>3, ContractTerms DEF RunInv, LaunchInv, PassedPrereqs
<1>5. Verdicts' = Verdicts \union {[id |-> Current, status |-> r.status, gated |-> FALSE]}
  <2>1. Verdict(r) = [id |-> Current, status |-> r.status, gated |-> FALSE]
    BY <1>1 DEF Verdict
  <2> QED
    BY <1>1, <1>2, <2>1, ContractVars
<1>6. input' = input /\ Outcome' = Outcome
  BY <1>1, <1>2, ContractVars
<1>7. Contract!Evaluate(Current)
  BY <1>1, <1>3, <1>4, <1>5, <1>6 DEF Contract!Evaluate, Verdicts
<1> QED
  BY <1>3, <1>7 DEF Contract!ContractNext

\* A check that a prerequisite bars: Gate.
LEMMA RefinesBlock == EngineInv /\ Block => Contract!ContractNext
<1> SUFFICES ASSUME EngineInv, Block PROVE Contract!ContractNext
  OBVIOUS
<1>1. pc = "next" /\ Len(results) < Len(ordered) /\ UNCHANGED graphVars
  BY DEF Block
<1>2. PICK r \in Recorded :
         /\ Blocking(r, Current)
         /\ Settle([id |-> Current, status |-> Propagated(r.status),
                    origin |-> "prerequisite"])
  BY DEF Block
<1> DEFINE to == Propagated(r.status)
           v == [id |-> Current, status |-> to, origin |-> "prerequisite"]
<1>3. RunInv /\ results \in Seq(Result)
  BY DEF EngineInv, RunInv, TypeOK
<1>4. /\ Contract!MaySettle(Current) /\ Current \in Contract!IDs
      /\ \A p : Contract!DependsOn(input, Current, p) <=> p \in Prereqs(Current)
  BY <1>1, MaySettleCurrent
<1>5. r \in Result
  <2>1. \A i \in 1..Len(results) : results[i] \in Result
    BY <1>3
  <2> QED
    BY <2>1 DEF Recorded
<1>6. r.id \in Prereqs(Current) /\ r.status \in Statuses \ {"PASS"}
  BY <1>2, <1>5 DEF Blocking, Bars, Prereqs, Result
<1>7. /\ Contract!DependsOn(input, Current, Verdict(r).id)
      /\ to \in {"NOT_APPLICABLE", "INSUFFICIENT_DATA"}
      /\ Contract!Propagates(Verdict(r).status, to)
  <2>1. Verdict(r).id = r.id /\ Verdict(r).status = r.status
    BY DEF Verdict
  <2> QED
    BY <1>4, <1>6, <2>1 DEF Contract!Propagates, Propagated, Statuses
<1>8. Verdict(r) \in Verdicts
  BY DEF Verdicts
<1>9. Verdicts' = Verdicts \union {[id |-> Current, status |-> to, gated |-> TRUE]}
      /\ input' = input /\ Outcome' = Outcome
  <2>1. Verdict(v) = [id |-> Current, status |-> to, gated |-> TRUE]
    BY DEF Verdict
  <2>2. Settle(v)
    BY <1>2
  <2> HIDE DEF v, to
  <2> QED
    BY <1>1, <1>3, <2>1, <2>2, ContractVars
<1> HIDE DEF to
<1>10. Contract!Gate(Current)
  BY <1>4, <1>7, <1>8, <1>9 DEF Contract!Gate, Verdicts
<1> QED
  BY <1>4, <1>10 DEF Contract!ContractNext

LEMMA RefinesNext == EngineInv /\ [Next]_vars => [Contract!ContractNext]_(Contract!contractVars)
<1> SUFFICES ASSUME EngineInv, [Next]_vars
             PROVE  Contract!ContractNext \/ UNCHANGED <<input, Outcome, Verdicts>>
  BY DEF Contract!contractVars, Verdicts
<1>1. CASE UNCHANGED vars
  BY <1>1 DEF vars, graphVars, runVars, Outcome, Verdicts, Recorded, Verdict
<1>2. CASE Next
  <2>1. CASE QuietStep
    BY <2>1, RefinesQuiet, RefinesEnter, RefinesFinish
  <2>2. CASE FailEarly \/ TakeResult \/ StopWaiting \/ EndSync
    BY <2>2, AnswerSteps, RefinesAnswer DEF EngineInv
  <2> QED
    BY <1>2, <2>1, <2>2, RefinesBlock, StepKinds
<1> QED
  BY <1>1, <1>2

-----------------------------------------------------------------------------
(***************************************************************************)
(* Engine.Run keeps its inductive invariant.                               *)
(***************************************************************************)
THEOREM RunInvariant == Spec => []RunInv
<1>1. Init => RunInv
  BY RunInitInv
<1>2. RunInv /\ [Next]_vars => RunInv'
  BY RunNextInv
<1> QED
  BY <1>1, <1>2, PTL DEF Spec

(***************************************************************************)
(* No check runs unless all its prerequisites passed: findBlocking-        *)
(* Prerequisite, walking a topological order, never misses one.            *)
(***************************************************************************)
THEOREM NoUngatedCheck == Spec => []GateHolds
<1>1. RunInv => GateHolds
  BY DEF RunInv, LaunchInv, PassedPrereqs, GateHolds
<1> QED
  BY <1>1, RunInvariant, PTL

(***************************************************************************)
(* Results of gated checks leave the exit code of the run what the         *)
(* evaluated checks make it.                                               *)
(***************************************************************************)
THEOREM ExitCodeUnmoved == Spec => []GatingKeepsExitCode
<1>1. RunInv => GatingKeepsExitCode
  <2> SUFFICES ASSUME RunInv PROVE GatingKeepsExitCode
    OBVIOUS
  <2>1. Executed \subseteq Recorded
    BY DEF Executed
  <2>2. (\E r \in Recorded : r.status \in {"ERROR", "INSUFFICIENT_DATA"}) <=>
        (\E r \in Executed : r.status \in {"ERROR", "INSUFFICIENT_DATA"})
    <3> SUFFICES ASSUME NEW r \in Recorded, r.status \in {"ERROR", "INSUFFICIENT_DATA"}
                 PROVE  \E s \in Executed : s.status \in {"ERROR", "INSUFFICIENT_DATA"}
      BY <2>1
    <3>1. CASE r.origin = "prerequisite"
      BY <3>1 DEF RunInv, GatedInv
    <3>2. CASE r.origin # "prerequisite"
      BY <3>2 DEF Executed
    <3> QED
      BY <3>1, <3>2
  <2>3. (\E r \in Recorded : r.status = "FAIL") <=> (\E r \in Executed : r.status = "FAIL")
    BY <2>1 DEF RunInv, GatedInv, Executed
  <2> QED
    BY <2>2, <2>3 DEF GatingKeepsExitCode, ExitCode
<1> QED
  BY <1>1, RunInvariant, PTL

(***************************************************************************)
(* The answer on record for a check is what its own Run returned, however  *)
(* many abandoned goroutines finish meanwhile.                             *)
(***************************************************************************)
THEOREM NoBorrowedAnswer == Spec => []AnswersAreOwn
<1>1. RunInv => AnswersAreOwn
  BY DEF RunInv
<1> QED
  BY <1>1, RunInvariant, PTL

(***************************************************************************)
(* Besides the check in progress only checks reported as timed out or      *)
(* cancelled can still be running.                                         *)
(***************************************************************************)
THEOREM OverlapOnlyAbandoned == Spec => []OnlyAbandonedOverlap
<1>1. RunInv => OnlyAbandonedOverlap
  BY DEF RunInv
<1> QED
  BY <1>1, RunInvariant, PTL

(***************************************************************************)
(* Type correctness of the run.                                            *)
(***************************************************************************)
THEOREM RunTypeCorrect == Spec => []TypeOK
<1>1. RunInv => TypeOK
  BY DEF RunInv
<1> QED
  BY <1>1, RunInvariant, PTL

(***************************************************************************)
(* A recorded result is never changed or removed.                          *)
(***************************************************************************)
THEOREM ResultsStay == Spec => ResultsOnlyGrow
<1> DEFINE Grow == /\ Len(results') >= Len(results)
                   /\ \A i \in 1..Len(results) : results'[i] = results[i]
<1>1. RunInv /\ [Next]_vars => [Grow]_results
  <2> SUFFICES ASSUME RunInv, Next PROVE [Grow]_results
    BY DEF vars, runVars
  <2>1. results \in Seq(Result)
    BY DEF RunInv, TypeOK
  <2>2. (\E r : Settle(r)) => [Grow]_results
    <3> SUFFICES ASSUME NEW r, results' = Append(results, r) PROVE Grow
      BY DEF Settle
    <3>1. Len(results') = Len(results) + 1 /\ Len(results) \in Nat
      BY <2>1
    <3>2. \A i \in 1..Len(results) : results'[i] = results[i]
      BY <2>1
    <3> QED
      BY <3>1, <3>2
  <2>3. (\E r : Settle(r)) \/ UNCHANGED results
    BY DEF Next, EngineStep, Validate, runVars, Enter, Block, Start, FailEarly, Launch,
           TakeResult, StopWaiting, Finish, EndSync, Expire, ParentExpires,
           ParentCancels, ParentEnds, End
  <2> QED
    BY <2>2, <2>3
<1> QED
  BY <1>1, RunInvariant, PTL DEF Spec, ResultsOnlyGrow

(***************************************************************************)
(* The invariant of the run with all that the contract rests on.           *)
(***************************************************************************)
THEOREM EngineInvariant == Spec => []EngineInv
<1>1. Init => EngineInv
  <2>1. Init => RunInv
    BY RunInitInv
  <2>2. Init => ByIDInv /\ RefusedInv
    BY SliceInitInv DEF Init, SliceInv
  <2>3. Init => GatedForCause
    BY DEF Init, GatedForCause, Recorded
  <2> QED
    BY <2>1, <2>2, <2>3 DEF EngineInv
<1>2. EngineInv /\ [Next]_vars => EngineInv'
  <2>1. RunInv /\ [Next]_vars => RunInv'
    BY RunNextInv
  <2>2. RunInv /\ GatedForCause /\ [Next]_vars => GatedForCause'
    BY CauseNext, CauseKept DEF vars, graphVars, runVars
  <2> QED
    BY <2>1, <2>2, SliceRun DEF EngineInv
<1> QED
  BY <1>1, <1>2, PTL DEF Spec

(***************************************************************************)
(* Behind every gated result stands a check that was evaluated and did not *)
(* pass, and whose kind of outcome the gated status tells, however many    *)
(* gated checks lie between (findBlockingPrerequisite and                  *)
(* propagatePrerequisiteStatus, applied along a chain).                    *)
(***************************************************************************)
THEOREM GatedHasCause == Spec => []GatedForCause
<1>1. EngineInv => GatedForCause
  BY DEF EngineInv
<1> QED
  BY <1>1, EngineInvariant, PTL

(***************************************************************************)
(* Engine.Run implements RunContract: it refuses the defective slices      *)
(* only, settles each check once and after its prerequisites, evaluates    *)
(* just those whose prerequisites passed, and returns when all are settled.*)
(***************************************************************************)
THEOREM RunKeepsContract == Spec => KeepsContract
<1>1. Init => Contract!ContractInit
  BY RefinesInit
<1>2. EngineInv /\ [Next]_vars => [Contract!ContractNext]_(Contract!contractVars)
  BY RefinesNext
<1> QED
  BY <1>1, <1>2, EngineInvariant, PTL DEF Spec, KeepsContract, Contract!ContractSpec
=============================================================================
