------------------------------ MODULE CheckSlice ------------------------------
(***************************************************************************)
(* What a slice of checks handed to Engine.Run of                          *)
(* src/internal/engine/engine.go must be, without saying how that is found *)
(* out: distinct, non-empty IDs, and prerequisites that all exist and form *)
(* no cycle.                                                               *)
(***************************************************************************)
EXTENDS Naturals, Sequences

GivenIDs(slice) == {slice[i].id : i \in 1..Len(slice)}

DependsOn(slice, c, p) ==
    \E i \in 1..Len(slice) :
      /\ slice[i].id = c
      /\ \E k \in 1..Len(slice[i].prereqs) : slice[i].prereqs[k] = p

\* A set of checks that need one another first, so that none can be first.
Circular(slice) ==
    \E S \in SUBSET GivenIDs(slice) :
      S # {} /\ \A c \in S : \E p \in S : DependsOn(slice, c, p)

Defective(slice) ==
    \/ \E i \in 1..Len(slice) : slice[i].id = 0
    \/ \E i, j \in 1..Len(slice) : i # j /\ slice[i].id = slice[j].id
    \/ \E i \in 1..Len(slice) : \E k \in 1..Len(slice[i].prereqs) :
         slice[i].prereqs[k] \notin GivenIDs(slice)
    \/ Circular(slice)
=============================================================================
