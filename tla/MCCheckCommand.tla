---------------------------- MODULE MCCheckCommand ----------------------------
(***************************************************************************)
(* CheckCommand on small contracts: up to two services and two identity    *)
(* labels (both of one service, of two, declared or not, active or not),   *)
(* one path and one socket.  Evidence has limits scaled down: 8 bytes, a   *)
(* suffix of 2 and a mark of 3 for a credential.                           *)
(***************************************************************************)
EXTENDS CheckCommand

SomeOf(keys, values) == UNION {[ks -> values] : ks \in SUBSET keys}

ServiceSpecs == {[state |-> "active", asks |-> {"restart", "run_as.user", "run_as.group"}],
                 [state |-> "inactive", asks |-> {}]}
IdentitySpecs == {[service |-> s, asks |-> as] :
                    s \in {1, 2}, as \in {{"uid"}, {"gid", "capabilities.ambient"}}}

MCContracts ==
    {[services |-> ss, identity |-> is, paths |-> ps, sockets |-> ks] :
       ss \in SomeOf({1, 2}, ServiceSpecs),
       is \in SomeOf({1}, IdentitySpecs) \union [{1, 2} -> {i \in IdentitySpecs : "uid" \in i.asks}],
       ps \in SomeOf({1}, {{"mode", "owner"}}),
       ks \in SomeOf({1}, {{"group"}})}

MCFilters == {{}, {""}, {"identity"}, {"services", ""}, {"paths", "sockets"},
              {"paths", "identity"}, {"identity", "services"}, {"volumes"}}

Pieces == {Piece("char", 1), Piece("char", 4), Piece("secret", 1), Piece("stray", 1)}
MCRaws == UNION {[1..n -> Pieces] : n \in 0..4}
            \union {[n \in 1..k |-> Piece("char", 1)] : k \in 7..9}
=============================================================================
