----------------------------- MODULE Capabilities -----------------------------
(***************************************************************************)
(* Lists of capability names and how the collectors compare them           *)
(* (src/internal/capabilities/capabilities.go).  What is compared are      *)
(* sorted lists with their repetitions: here, for each name on a list, how *)
(* often it is there.                                                      *)
(***************************************************************************)
EXTENDS Naturals, Sequences, FiniteSets

NamesOn(list) == {list[k] : k \in DOMAIN list}
Times(list, name) == Cardinality({k \in DOMAIN list : list[k] = name})
RepeatsNothing(list) == \A j, k \in DOMAIN list : list[j] = list[k] => j = k

SortCanonical(list) == [name \in NamesOn(list) |-> Times(list, name)]

\* A token is a name in one of its spellings: CAP_NET_RAW, cap_net_raw, net-raw.
CanonicalizeToken(token) == token.name

NormalizeObserved(tokens) ==
    SortCanonical([k \in DOMAIN tokens |-> CanonicalizeToken(tokens[k])])

\* linuxCapabilityNames and linuxCapabilityName: the name of a bit of a mask.
KnownBits == 0..40
Canonical(bit) == [known |-> TRUE, bit |-> bit]
LinuxCapabilityName(bit) ==
    IF bit \in KnownBits THEN Canonical(bit) ELSE [known |-> FALSE, bit |-> bit]
=============================================================================
