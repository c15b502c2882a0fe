------------------------------- MODULE MCEngine -------------------------------
(***************************************************************************)
(* Engine on the shapes of prerequisite graph a plan is made of: a service *)
(* chain with siblings, a diamond, a check behind two independent ones,   *)
(* unrelated checks, and slices that are refused.                         *)
(***************************************************************************)
EXTENDS Engine

C(id, prereqs) == [id |-> id, prereqs |-> prereqs]

Siblings == <<C(1, <<2>>), C(2, <<>>), C(3, <<2>>), C(4, <<1, 2>>)>>
Diamond == <<C(1, <<3, 2>>), C(2, <<4>>), C(3, <<4>>), C(4, <<>>)>>
Join == <<C(3, <<1, 2>>), C(1, <<>>), C(2, <<>>)>>
Loose == <<C(4, <<>>), C(2, <<1>>), C(1, <<>>), C(3, <<>>)>>
Cyclic == <<C(1, <<2>>), C(2, <<1>>)>>
Missing == <<C(1, <<9>>)>>

\* The command line gives a timeout and a context that never ends; the other three
\* are those of callers of the package, the engine's tests among them.
MCSetups == {[timeout |-> TRUE, parentDeadline |-> FALSE, parentCancels |-> FALSE],
             [timeout |-> TRUE, parentDeadline |-> TRUE, parentCancels |-> TRUE],
             [timeout |-> FALSE, parentDeadline |-> TRUE, parentCancels |-> FALSE],
             [timeout |-> FALSE, parentDeadline |-> FALSE, parentCancels |-> TRUE]}

MCInputs == {Siblings, Diamond, Join, Loose, Cyclic, Missing}
=============================================================================
