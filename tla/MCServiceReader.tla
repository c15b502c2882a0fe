---------------------------- MODULE MCServiceReader ----------------------------
(***************************************************************************)
(* A service with all five checks.  Its account is given as a name, as a   *)
(* number that has one, as a number that has none, or not at all.          *)
(***************************************************************************)
EXTENDS ServiceReader

AllKinds == <<"state", "restart", "run_as.user", "run_as.group", "capabilities">>

Chown == Canonical(0)
Kill == Canonical(5)

\* The contract names the capabilities in another order than systemctl prints.
Contract == <<"active", "always", "app", "app", <<Kill, Chown>>>>

App == [name |-> "app", id |-> 7, gid |-> 7]
PasswdTable == Added(EmptyTable, App)
GroupTable == Added(EmptyTable, App)
NumberOf == [n \in {"7", "8"} |-> IF n = "7" THEN 7 ELSE 8]

Spelled(style, names) == [k \in DOMAIN names |-> [name |-> names[k], style |-> style]]

Shown(load, active, user, group, names) ==
    [LoadState |-> load, ActiveState |-> active, Restart |-> "always", User |-> user,
     Group |-> group, AmbientCapabilities |-> Spelled("cap_", names)]

MCUnits ==
    {Shown("loaded", "active", "app", "7", <<Chown, Kill>>),
     Shown("loaded", "active", "7", "", <<Kill>>),
     Shown("loaded", "active", "", "8", <<Chown, Kill, Kill>>),
     Shown("loaded", "failed", "app", "app", <<>>),
     Shown("not-found", "inactive", "", "", <<>>)}

\* An answer in which some line is no property, whatever else it holds.
Garbled(a) == [a EXCEPT !.garbled = TRUE]

Failing(texts) == [Answer("nonzero", [key \in {} |-> ""]) EXCEPT !.texts = texts]

MCAnswers ==
    {Failing({}), Failing({"permission denied"}), Failing({"no systemd"}),
     Failing({"not found", "permission denied"}),
     Answer("nonzero", [LoadState |-> "not-found"]),
     Answer("zero", [LoadState |-> "loaded"]),
     Garbled(Answer("zero", Shown("loaded", "active", "app", "7", <<Kill>>)))}
=============================================================================
