----------------------------- MODULE RunContract -----------------------------
(***************************************************************************)
(* What a run promises its caller, without saying how: a defective slice   *)
(* of checks is refused and nothing of it runs; otherwise every check gets *)
(* one verdict, once all its prerequisites have theirs.  A check whose     *)
(* prerequisites all passed is evaluated; any other is gated, with the     *)
(* status that one of the prerequisites that did not pass propagates.      *)
(*                                                                         *)
(* Neither the order of settlement nor goroutines, contexts and time-outs  *)
(* are part of the contract.  Engine implements it.                        *)
(***************************************************************************)
EXTENDS CheckSlice

CONSTANTS
    Inputs,          \* the slices of checks, as in CheckGraph
    CheckStatuses    \* what the checks themselves answer

VARIABLES
    input,     \* the slice of the run
    outcome,   \* "planning", "refused", "running" or "returned"
    verdicts   \* the verdicts given so far

contractVars == <<input, outcome, verdicts>>

IDs == GivenIDs(input)

HasVerdict(c) == \E v \in verdicts : v.id = c
Passed(c) == \E v \in verdicts : v.id = c /\ v.status = "PASS"

Propagates(from, to) ==
    \/ from \in {"FAIL", "NOT_APPLICABLE"} /\ to = "NOT_APPLICABLE"
    \/ from \in {"ERROR", "INSUFFICIENT_DATA"} /\ to = "INSUFFICIENT_DATA"

-----------------------------------------------------------------------------
ContractInit == input \in Inputs /\ outcome = "planning" /\ verdicts = {}

Refuse ==
    /\ outcome = "planning"
    /\ Defective(input)
    /\ outcome' = "refused"
    /\ UNCHANGED <<input, verdicts>>

Accept ==
    /\ outcome = "planning"
    /\ ~Defective(input)
    /\ outcome' = "running"
    /\ UNCHANGED <<input, verdicts>>

MaySettle(c) ==
    /\ outcome = "running"
    /\ c \in IDs
    /\ ~HasVerdict(c)
    /\ \A p \in IDs : DependsOn(input, c, p) => HasVerdict(p)

\* The engine may also put an ERROR of its own in place of the answer.
Evaluate(c) ==
    /\ MaySettle(c)
    /\ \A p \in IDs : DependsOn(input, c, p) => Passed(p)
    /\ \E status \in CheckStatuses \union {"ERROR"} :
         verdicts' = verdicts \union {[id |-> c, status |-> status, gated |-> FALSE]}
    /\ UNCHANGED <<input, outcome>>

Gate(c) ==
    /\ MaySettle(c)
    /\ \E v \in verdicts : \E status \in {"NOT_APPLICABLE", "INSUFFICIENT_DATA"} :
         /\ DependsOn(input, c, v.id)
         /\ Propagates(v.status, status)
         /\ verdicts' = verdicts \union {[id |-> c, status |-> status, gated |-> TRUE]}
    /\ UNCHANGED <<input, outcome>>

Return ==
    /\ outcome = "running"
    /\ \A c \in IDs : HasVerdict(c)
    /\ outcome' = "returned"
    /\ UNCHANGED <<input, verdicts>>

ContractNext == \/ Refuse \/ Accept \/ Return
                \/ \E c \in IDs : Evaluate(c) \/ Gate(c)

ContractSpec == ContractInit /\ [][ContractNext]_contractVars
=============================================================================
