---------------------------- MODULE MCCheckGraph ----------------------------
(***************************************************************************)
(* CheckGraph on every slice of up to MaxChecks checks over the IDs        *)
(* 1..MaxChecks, and some slices with one check more.                      *)
(***************************************************************************)
EXTENDS CheckGraph

CONSTANTS MaxChecks, MaxPrereqs

MissingID == MaxChecks + 1   \* never registered

\* Prerequisite lists as code writes them: any order, repetition allowed.
Lists == UNION {[1..n -> 1..MissingID] : n \in 0..MaxPrereqs}

\* Every graph over the sorted IDs.
Slices == {[i \in 1..MaxChecks |-> [id |-> i, prereqs |-> ps[i]]] :
             ps \in [1..MaxChecks -> Lists]}

\* Every order of registration, repeated and empty IDs included, on a few graphs.
Permuted == {[i \in 1..MaxChecks |-> [id |-> f[i], prereqs |-> ps[f[i]]]] :
               f \in [1..MaxChecks -> 0..MaxChecks],
               ps \in [0..MaxChecks -> {<<>>, <<MaxChecks>>, <<2>>}]}

\* One check more, prerequisite lists ascending: the diamonds appear here.
Ascending == {l \in UNION {[1..n -> 1..(MaxChecks + 1)] : n \in 0..MaxPrereqs} :
                \A i \in 1..(Len(l) - 1) : l[i] < l[i + 1]}
Wider == {[i \in 1..(MaxChecks + 1) |-> [id |-> i, prereqs |-> ps[i]]] :
            ps \in [1..(MaxChecks + 1) -> Ascending]}

MCInputs == {<<>>} \union Slices \union Permuted \union Wider

=============================================================================
