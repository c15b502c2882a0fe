----------------------------- MODULE MCPlannedRun -----------------------------
(***************************************************************************)
(* PlannedRun on contracts with up to two services, two identity labels, a *)
(* path and a socket, for every selection of domains; the smaller plans    *)
(* are run, against every kind of host.                                    *)
(***************************************************************************)
EXTENDS PlannedRun

SomeOf(keys, values) == UNION {[ks -> values] : ks \in SUBSET keys}

ServiceSpecs == {[state |-> st, asks |-> {"run_as.user"}] : st \in {"active", "inactive"}}
IdentitySpecs == {[service |-> s, asks |-> {"uid"}] : s \in {1, 2}}

Contracts ==
    {[services |-> ss, identity |-> is, paths |-> ps, sockets |-> ks] :
       ss \in SomeOf({1, 2}, ServiceSpecs), is \in SomeOf({1, 2}, IdentitySpecs),
       ps \in {<<>>, 1 :> {}}, ks \in {<<>>, 1 :> {"group"}}}

\* Under a host root runCheck lets no service-backed domain through.
Selections == {<<ds, FALSE>> : ds \in SUBSET Domains}
              \union {<<ds, TRUE>> : ds \in SUBSET {"paths", "sockets"}}

\* A section that is not looked at is left empty, and one that is selected is not.
LooksAt(c, domains) ==
    /\ DOMAIN c.paths # {} <=> "paths" \in domains
    /\ DOMAIN c.sockets # {} <=> "sockets" \in domains
    /\ DOMAIN c.identity # {} <=> "identity" \in domains
    /\ DOMAIN c.services # {} => domains \cap {"identity", "services"} # {}

MCJobs ==
    {j \in {[contract |-> c, domains |-> s[1], rooted |-> s[2]] :
              c \in {d \in Contracts : SemanticallyValid(d)}, s \in Selections} :
       LooksAt(j.contract, j.domains) /\ PlanOf(j) # <<>>}

MCInputs == {AsInput(PlanOf(j)) : j \in MCJobs}

\* runCheck gives the engine a timeout, and context.Background().
CommandLine == {[timeout |-> TRUE, parentDeadline |-> FALSE, parentCancels |-> FALSE]}
=============================================================================
