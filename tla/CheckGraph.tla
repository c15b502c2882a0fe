------------------------------ MODULE CheckGraph ------------------------------
(***************************************************************************)
(* Engine.validateChecks and detectCycles of src/internal/engine/engine.go:*)
(* the checks handed to a run are registered, their prerequisites are      *)
(* resolved, cycles are looked for with a three-colour depth-first search, *)
(* and a second depth-first search lays the checks out so that the run can *)
(* walk them front to back.                                                *)
(*                                                                         *)
(* A check ID is a natural number standing for its rank in the order of    *)
(* sort.Strings; 0 is the empty string, which sorts first.  The recursion  *)
(* of both searches is an explicit stack of frames, each the ID being      *)
(* visited and the index of the prerequisite its loop looks at next.       *)
(***************************************************************************)
EXTENDS CheckSlice

CONSTANT Inputs   \* the check slices a run may be started with

EmptyID == 0
Check == [id : Nat, prereqs : Seq(Nat)]

ASSUME InputsAssumption == Inputs \subseteq Seq(Check)

VARIABLES
    input,     \* the slice passed to Run
    phase,     \* which part of validateChecks is executing
    registered,\* checks of input already put in byID
    checks,    \* byID: the prerequisites of every registered ID
    err,       \* why the slice was refused, "none" if it was not
    cycle,     \* the path quoted by the cycle error
    frames,    \* the call stack of the search in progress
    tried,     \* IDs the top-level loop of that search has called visit for
    state,     \* detectCycles' colour of each ID
    rank,      \* history: when detectCycles coloured an ID done, 0 if it has not
    clock,     \* history: the next value of rank
    visited,   \* the ordering search's visited map
    ordered    \* the IDs in the order the run will use

graphVars == <<input, phase, registered, checks, err, cycle, frames, tried,
               state, rank, clock, visited, ordered>>

IDs == DOMAIN checks
Prereqs(c) == {checks[c][i] : i \in 1..Len(checks[c])}
Top == frames[Len(frames)]
Returning == Top.next > Len(checks[Top.id])   \* the loop of Top is over
Callee == checks[Top.id][Top.next]            \* the prerequisite it visits next
\* Slip: prerequisites indexed from zero.
FrameFromZero(id) == [id |-> id, next |-> 0]
Frame(id) == [id |-> id, next |-> 1]
Pop(fs) == SubSeq(fs, 1, Len(fs) - 1)

\* Slip: the loop variable stays where it is.
AdvancedNever == frames

\* The caller's loop variable moves on as it calls visit.
Advanced == [frames EXCEPT ![Len(frames)].next = @ + 1]

\* Slip: the IDs are not sorted before the searches.
AnyRoot(r) == frames = <<>> /\ r \in IDs \ tried

\* The next ID of `for _, id := range ids`, ids being sorted.
IsNextRoot(r) == /\ frames = <<>>
                 /\ r \in IDs \ tried
                 /\ \A s \in IDs \ tried : r <= s

-----------------------------------------------------------------------------
GraphInit ==
    /\ input \in Inputs
    /\ phase = "register"
    /\ registered = 0
    /\ checks = <<>>
    /\ err = "none"
    /\ cycle = <<>>
    /\ frames = <<>>
    /\ tried = {}
    /\ state = <<>>
    /\ rank = <<>>
    /\ clock = 1
    /\ visited = {}
    /\ ordered = <<>>

Refuse(why) == phase' = "rejected" /\ err' = why

\* One turn of the registration loop: an empty or repeated ID ends the run.
Register ==
    /\ phase = "register"
    /\ registered < Len(input)
    /\ LET c == input[registered + 1] IN
         \/ /\ c.id = EmptyID
            /\ Refuse("empty ID")
            /\ UNCHANGED <<registered, checks>>
         \/ /\ c.id # EmptyID
            /\ c.id \in IDs
            /\ Refuse("duplicate ID")
            /\ UNCHANGED <<registered, checks>>
         \/ /\ c.id # EmptyID
            /\ c.id \notin IDs
            /\ registered' = registered + 1
            /\ checks' = [d \in IDs \union {c.id} |->
                            IF d = c.id THEN c.prereqs ELSE checks[d]]
            /\ UNCHANGED <<phase, err>>
    /\ UNCHANGED <<input, cycle, frames, tried, state, rank, clock,
                   visited, ordered>>

\* Every prerequisite must name a registered check.
Resolve ==
    /\ phase = "register"
    /\ registered = Len(input)
    /\ \/ /\ \E c \in IDs : ~(Prereqs(c) \subseteq IDs)
          /\ Refuse("missing prerequisite")
          /\ UNCHANGED <<state, rank>>
       \/ /\ \A c \in IDs : Prereqs(c) \subseteq IDs
          /\ phase' = "cycles"
          /\ state' = [c \in IDs |-> "unknown"]
          /\ rank' = [c \in IDs |-> 0]
          /\ UNCHANGED err
    /\ UNCHANGED <<input, registered, checks, cycle, frames, tried, clock, visited,
                   ordered>>

-----------------------------------------------------------------------------
(* detectCycles *)

\* visit(id) entered with the caller's frames already advanced.
CycleVisit(id, callers) ==
    \/ /\ state[id] = "done"
       /\ frames' = callers
       /\ UNCHANGED <<phase, err, cycle, state>>
    \/ /\ state[id] = "active"
       /\ Refuse("cycle")
       /\ cycle' = Append([i \in 1..Len(callers) |-> callers[i].id], id)
       /\ frames' = callers
       /\ UNCHANGED state
    \/ /\ state[id] = "unknown"
       /\ state' = [state EXCEPT ![id] = "active"]
       /\ frames' = Append(callers, Frame(id))
       /\ UNCHANGED <<phase, err, cycle>>

CycleRoot ==
    /\ phase = "cycles"
    /\ \E r \in IDs : /\ IsNextRoot(r)
                      /\ tried' = tried \union {r}
                      /\ CycleVisit(r, frames)
    /\ UNCHANGED <<input, registered, checks, rank, clock, visited, ordered>>

CyclePrereq ==
    /\ phase = "cycles"
    /\ frames # <<>>
    /\ ~Returning
    /\ CycleVisit(Callee, Advanced)
    /\ UNCHANGED <<input, registered, checks, tried, rank, clock, visited, ordered>>

\* Slip: a finished ID keeps the colour of an active one.
CycleReturnStillActive ==
    /\ phase = "cycles"
    /\ frames # <<>>
    /\ Returning
    /\ frames' = Pop(frames)
    /\ UNCHANGED <<input, phase, registered, checks, err, cycle, tried, state, rank,
                   clock, visited, ordered>>

\* The loop of Top is over: it is coloured done, after all it depends on.
CycleReturn ==
    /\ phase = "cycles"
    /\ frames # <<>>
    /\ Returning
    /\ frames' = Pop(frames)
    /\ state' = [state EXCEPT ![Top.id] = "done"]
    /\ rank' = [rank EXCEPT ![Top.id] = clock]
    /\ clock' = clock + 1
    /\ UNCHANGED <<input, phase, registered, checks, err, cycle, tried, visited, ordered>>

\* Slip: only the component of the first ID is searched for cycles.
NoCycleFromFirst ==
    /\ phase = "cycles"
    /\ frames = <<>>
    /\ tried # {} \/ IDs = {}
    /\ phase' = "order"
    /\ tried' = {}
    /\ UNCHANGED <<input, registered, checks, err, cycle, frames, state, rank, clock,
                   visited, ordered>>

NoCycle ==
    /\ phase = "cycles"
    /\ frames = <<>>
    /\ tried = IDs
    /\ phase' = "order"
    /\ tried' = {}
    /\ UNCHANGED <<input, registered, checks, err, cycle, frames, state, rank, clock,
                   visited, ordered>>

-----------------------------------------------------------------------------
(* The ordering search of validateChecks *)

OrderVisit(id, callers) ==
    \/ /\ id \in visited
       /\ frames' = callers
       /\ UNCHANGED visited
    \/ /\ id \notin visited
       /\ visited' = visited \union {id}
       /\ frames' = Append(callers, Frame(id))

OrderRoot ==
    /\ phase = "order"
    /\ \E r \in IDs : /\ IsNextRoot(r)
                      /\ tried' = tried \union {r}
                      /\ OrderVisit(r, frames)
    /\ UNCHANGED <<input, phase, registered, checks, err, cycle, state, rank, clock,
                   ordered>>

OrderPrereq ==
    /\ phase = "order"
    /\ frames # <<>>
    /\ ~Returning
    /\ OrderVisit(Callee, Advanced)
    /\ UNCHANGED <<input, phase, registered, checks, err, cycle, tried, state, rank,
                   clock, ordered>>

\* Slip: a check is laid out before the rest of its prerequisites.
OrderReturnEarly ==
    /\ phase = "order"
    /\ frames # <<>>
    /\ ordered' = Append(ordered, Top.id)
    /\ frames' = Pop(frames)
    /\ UNCHANGED <<input, phase, registered, checks, err, cycle, tried, state, rank,
                   clock, visited>>

OrderReturn ==
    /\ phase = "order"
    /\ frames # <<>>
    /\ Returning
    /\ ordered' = Append(ordered, Top.id)
    /\ frames' = Pop(frames)
    /\ UNCHANGED <<input, phase, registered, checks, err, cycle, tried, state, rank,
                   clock, visited>>

Validated ==
    /\ phase = "order"
    /\ frames = <<>>
    /\ tried = IDs
    /\ phase' = "ordered"
    /\ UNCHANGED <<input, registered, checks, err, cycle, frames, tried, state, rank,
                   clock, visited, ordered>>

-----------------------------------------------------------------------------
GraphNext == \/ Register \/ Resolve
             \/ CycleRoot \/ CyclePrereq \/ CycleReturn \/ NoCycle
             \/ OrderRoot \/ OrderPrereq \/ OrderReturn \/ Validated

GraphSpec == GraphInit /\ [][GraphNext]_graphVars /\ WF_graphVars(GraphNext)

-----------------------------------------------------------------------------
Phases == {"register", "cycles", "order", "ordered", "rejected"}
Errors == {"none", "empty ID", "duplicate ID", "missing prerequisite", "cycle"}

GraphTypeOK ==
    /\ input \in Seq(Check)
    /\ phase \in Phases
    /\ registered \in 0..Len(input)
    /\ IDs \subseteq Nat
    /\ checks \in [IDs -> Seq(Nat)]
    /\ err \in Errors
    /\ cycle \in Seq(IDs)
    /\ frames \in Seq([id : IDs, next : Nat \ {0}])
    /\ tried \subseteq IDs
    /\ phase \in {"cycles", "order", "ordered"} \/ err = "cycle" =>
         /\ state \in [IDs -> {"unknown", "active", "done"}]
         /\ rank \in [IDs -> Nat]
    /\ clock \in Nat \ {0}
    /\ visited \subseteq IDs
    /\ ordered \in Seq(IDs)

(***************************************************************************)
(* The order handed to the run loop lists every registered check exactly   *)
(* once, each after all its prerequisites.  findBlockingPrerequisite takes *)
(* a prerequisite without a result for a satisfied one, so a check placed  *)
(* before one of its prerequisites would run ungated.                      *)
(***************************************************************************)
Topological ==
    phase = "ordered" =>
      /\ {ordered[i] : i \in 1..Len(ordered)} = IDs
      /\ \A i, j \in 1..Len(ordered) : ordered[i] = ordered[j] => i = j
      /\ \A i \in 1..Len(ordered) : \A p \in Prereqs(ordered[i]) :
            \E j \in 1..(i - 1) : ordered[j] = p

(***************************************************************************)
(* The cycle error is never raised on a sound plan: what it quotes is a    *)
(* chain of prerequisites that comes back to one of its own checks.        *)
(***************************************************************************)
CycleIsReal ==
    err = "cycle" =>
      /\ \A i \in 1..(Len(cycle) - 1) : cycle[i + 1] \in Prereqs(cycle[i])
      /\ \E i \in 1..(Len(cycle) - 1) : cycle[i] = cycle[Len(cycle)]

(***************************************************************************)
(* Run refuses a slice exactly when it is not a set of checks with         *)
(* distinct, non-empty IDs whose prerequisites all exist and form no       *)
(* cycle: both searches together accept the acyclic graphs and only those. *)
(***************************************************************************)
AcceptsExactlyDAGs ==
    /\ phase = "ordered" => ~Defective(input)
    /\ phase = "rejected" => Defective(input)

\* What c depends on, directly or through other checks: what every set has that
\* holds c's prerequisites and those of all its members.
Closed(S) == \A d \in S : Prereqs(d) \subseteq S
Ancestors(c) ==
    {p \in IDs : \A S \in SUBSET IDs : Prereqs(c) \subseteq S /\ Closed(S) => p \in S}

(***************************************************************************)
(* The order depends on the IDs and prerequisites only, never on the order *)
(* of the slice: a check runs ahead of a smaller ID only if a check not    *)
(* greater than that one depends on it.                                    *)
(***************************************************************************)
SortedUnlessRequired ==
    phase = "ordered" =>
      \A i, j \in 1..Len(ordered) :
        i < j /\ ordered[j] < ordered[i] =>
          \E c \in IDs : c <= ordered[j] /\ ordered[i] \in Ancestors(c)

\* Validation ends for every slice, whatever its prerequisites look like.
ValidationEnds == <>(phase \in {"ordered", "rejected"})

-----------------------------------------------------------------------------
(***************************************************************************)
(* Why the order is topological.  detectCycles finishes every check after  *)
(* its prerequisites, so rank decreases along each prerequisite, and hence *)
(* along the stack of the ordering search: a prerequisite it skips because *)
(* it was visited already is never still on that stack.                    *)
(***************************************************************************)

OnStack(c) == \E i \in 1..Len(frames) : frames[i].id = c
InOrder(c) == \E i \in 1..Len(ordered) : ordered[i] = c

\* Nothing has been searched yet, and then nothing has been ordered yet.
FreshInv ==
    /\ phase = "register" => frames = <<>> /\ tried = {}
    /\ phase \in {"register", "cycles"} =>
         visited = {} /\ ordered = <<>> /\ err = "none"
    /\ phase \in {"order", "ordered"} => err = "none"

\* The stack is a chain of prerequisites without repetition.
StackInv ==
    /\ \A i \in 1..Len(frames) : frames[i].next <= Len(checks[frames[i].id]) + 1
    /\ \A i \in 1..(Len(frames) - 1) :
         /\ frames[i].next >= 2
         /\ checks[frames[i].id][frames[i].next - 1] = frames[i + 1].id
    /\ \A i, j \in 1..Len(frames) : frames[i].id = frames[j].id => i = j

\* Looked(i) are the prerequisites whose visit by frame i has returned.
Looked(i) == {checks[frames[i].id][k] :
                k \in 1..(frames[i].next - (IF i = Len(frames) THEN 1 ELSE 2))}

ColourInv ==
    phase = "cycles" =>
      /\ \A c \in IDs : state[c] = "active" <=> OnStack(c)
      /\ \A i \in 1..Len(frames) : \A p \in Looked(i) : state[p] = "done"
      /\ \A r \in tried : state[r] # "unknown"

RankInv ==
    /\ phase \in {"cycles", "order", "ordered"} =>
         /\ \A c \in IDs : Prereqs(c) \subseteq IDs
         /\ \A c \in IDs : state[c] = "done" =>
              /\ rank[c] < clock
              /\ \A p \in Prereqs(c) : state[p] = "done" /\ rank[p] < rank[c]
    /\ phase \in {"order", "ordered"} => \A c \in IDs : state[c] = "done"

OrderInv ==
    phase = "order" =>
      /\ \A c \in IDs : c \in visited <=> OnStack(c) \/ InOrder(c)
      /\ \A c \in IDs : ~(OnStack(c) /\ InOrder(c))
      /\ \A i, j \in 1..Len(frames) : i < j => rank[frames[j].id] < rank[frames[i].id]
      /\ \A i \in 1..Len(frames) : \A p \in Looked(i) : InOrder(p)
      /\ \A i, j \in 1..Len(ordered) : ordered[i] = ordered[j] => i = j
      /\ \A i \in 1..Len(ordered) : \A p \in Prereqs(ordered[i]) :
           \E j \in 1..(i - 1) : ordered[j] = p
      /\ tried \subseteq visited

(***************************************************************************)
(* Why the slices refused are the defective ones, and how far the order is *)
(* sorted.  byID says of the registered part of the slice what it says     *)
(* itself; and a check visited under a root of the ordering search is      *)
(* ahead of no check smaller than that root.                               *)
(***************************************************************************)
ByIDInv ==
    /\ \A c \in IDs : \E i \in 1..registered : input[i].id = c
    /\ \A i \in 1..registered :
         /\ input[i].id \in IDs \ {EmptyID}
         /\ checks[input[i].id] = input[i].prereqs
    /\ \A i, j \in 1..registered : input[i].id = input[j].id => i = j

RefusedInv ==
    /\ phase \in {"cycles", "order", "ordered"} \/ err \in {"missing prerequisite", "cycle"} =>
         registered = Len(input)
    /\ phase = "rejected" => err # "none"
    /\ err = "empty ID" => \E i \in 1..Len(input) : input[i].id = EmptyID
    /\ err = "duplicate ID" => \E i, j \in 1..Len(input) : i # j /\ input[i].id = input[j].id
    /\ err = "missing prerequisite" => \E c \in IDs : ~(Prereqs(c) \subseteq IDs)

\* y has no place in the order ahead of x.
NotAhead(x, y) ==
    InOrder(y) => \E i, j \in 1..Len(ordered) : i < j /\ ordered[i] = x /\ ordered[j] = y

SortInv ==
    phase \in {"order", "ordered"} =>
      \A x \in IDs : OnStack(x) \/ InOrder(x) =>
        \E r \in tried :
          /\ x = r \/ x \in Ancestors(r)
          /\ \A y \in IDs : NotAhead(x, y) => r <= y

GraphInv ==
    GraphTypeOK /\ FreshInv /\ StackInv /\ ColourInv /\ RankInv /\ OrderInv
      /\ Topological /\ CycleIsReal

ValidationInv == GraphInv /\ ByIDInv /\ RefusedInv /\ SortInv
=============================================================================
