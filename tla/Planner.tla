------------------------------- MODULE Planner -------------------------------
(***************************************************************************)
(* What `savk check' hands to the engine: selectedDomains and              *)
(* buildChecksForDomains of src/cmd/savk/main.go, with the Build functions *)
(* of src/internal/collectors they call.  A contract is reduced to what    *)
(* decides which checks there are and what each waits for.  Names (of      *)
(* services, paths, sockets and identity labels) are natural numbers in    *)
(* the order sort.Strings gives them.                                      *)
(*                                                                         *)
(* An ID is the triple its format string prints: domain, name and kind.    *)
(* No kind is another one behind a dot, and no kind is "namespace", so two *)
(* triples never print the same ID.                                        *)
(***************************************************************************)
EXTENDS Naturals, SequencesExt

Domains == {"identity", "paths", "services", "sockets"}

PathKinds == <<"type", "mode", "owner", "group">>
SocketKinds == <<"owner", "group", "mode">>
ServiceKinds == <<"restart", "run_as.user", "run_as.group", "capabilities">>
IdentityKinds == <<"uid", "gid", "capabilities.effective", "capabilities.permitted",
                   "capabilities.inheritable", "capabilities.bounding",
                   "capabilities.ambient">>

ServiceStates == {"active", "inactive", "failed"}

\* What the parser returns: four maps, and what their entries may ask for.
Listed(entries) == IsFiniteSet(DOMAIN entries) /\ DOMAIN entries \subseteq Nat
WellFormed(c) ==
    /\ Listed(c.services) /\ Listed(c.identity) /\ Listed(c.paths) /\ Listed(c.sockets)
    /\ \A p \in DOMAIN c.paths : c.paths[p] \subseteq ToSet(PathKinds)
    /\ \A s \in DOMAIN c.sockets : c.sockets[s] \subseteq ToSet(SocketKinds)
    /\ \A s \in DOMAIN c.services : /\ c.services[s].state \in ServiceStates
                                    /\ c.services[s].asks \subseteq ToSet(ServiceKinds)
    /\ \A l \in DOMAIN c.identity : /\ c.identity[l].service \in Nat
                                    /\ c.identity[l].asks \subseteq ToSet(IdentityKinds)

ID(domain, name, kind) == [domain |-> domain, name |-> name, kind |-> kind]

\* The __preflight__ name no entry of a contract shares a kind with.
Preflight(domain) == ID(domain, 0, "namespace")

\* A check and the IDs it waits for.  `expects' is the state a state check wants.
Planned(id, prereqs) == [id |-> id, prereqs |-> prereqs, expects |-> "any"]
PlannedState(service, state) ==
    [id |-> ID("service", service, "state"), prereqs |-> <<>>, expects |-> state]

\* The keys of a map, sorted.
Keys(entries) ==
    CHOOSE keys \in [1..Cardinality(DOMAIN entries) -> DOMAIN entries] :
      \A i, j \in DOMAIN keys : i < j => keys[i] < keys[j]

\* Of the checks an entry may have, those of a kind it asks for.
Chosen(offered, asks) ==
    FlattenSeq([k \in 1..Len(offered) |->
                  IF offered[k].id.kind \in asks THEN <<offered[k]>> ELSE <<>>])

\* The checks of one entry: `first' and those asked for, which wait for it.
Entry(first, kinds, asks) ==
    <<first>> \o Chosen([k \in 1..Len(kinds) |->
                           Planned([first.id EXCEPT !.kind = kinds[k]], <<first.id>>)], asks)

\* Entries are taken in the order of their names.
Flattened(of) ==
    LET keys == Keys(of) IN FlattenSeq([i \in 1..Len(keys) |-> of[keys[i]]])

BuildPathChecks(paths) ==
    Flattened([p \in DOMAIN paths |->
                Entry(Planned(ID("path", p, "exists"), <<>>), PathKinds, paths[p])])

BuildSocketChecks(sockets) ==
    Flattened([s \in DOMAIN sockets |->
                Entry(Planned(ID("socket", s, "exists"), <<>>), SocketKinds, sockets[s])])

BuildServiceChecks(services) ==
    Flattened([s \in DOMAIN services |->
                Entry(PlannedState(s, services[s].state), ServiceKinds, services[s].asks)])

\* BuildServiceStateChecks: `states' maps services to the state expected of them.
BuildServiceStateChecks(states) ==
    Flattened([s \in DOMAIN states |-> <<PlannedState(s, states[s])>>])

BuildIdentityChecks(identities) ==
    LET waits(label) == ID("service", identities[label].service, "state")
    IN Flattened([l \in DOMAIN identities |->
                    Chosen([k \in 1..Len(IdentityKinds) |->
                              Planned(ID("identity", l, IdentityKinds[k]), <<waits(l)>>)],
                           identities[l].asks)])

\* withPrerequisite: one more prerequisite in front; slices.Compact drops the
\* next one if it is the same.
WithPrerequisite(checks, id) ==
    [i \in 1..Len(checks) |->
       [checks[i] EXCEPT !.prereqs = IF @ # <<>> /\ Head(@) = id THEN @ ELSE <<id>> \o @]]

\* A preflight and the checks behind it, or nothing when there are no checks.
Guarded(domain, checks) ==
    IF checks = <<>> THEN <<>>
    ELSE <<Planned(Preflight(domain), <<>>)>> \o WithPrerequisite(checks, Preflight(domain))

-----------------------------------------------------------------------------
\* Slip: a state is synthesized although the services section checks it as well.
SynthesizedTwice(c, includeServices) ==
    {c.identity[l].service : l \in DOMAIN c.identity}

\* The services whose state only the identity checks need checked.
Synthesized(c, includeServices) ==
    {c.identity[l].service : l \in DOMAIN c.identity}
      \ (IF includeServices THEN DOMAIN c.services ELSE {})

\* The state a synthesized check expects: the declared one, or active.
SynthesizedStates(c, includeServices) ==
    [s \in Synthesized(c, includeServices) |->
       IF s \in DOMAIN c.services THEN c.services[s].state ELSE "active"]

\* Slip: the state checks the identity checks need are not behind the preflight.
ServiceBackedUnguarded(c, domains) ==
    LET states == IF "identity" \in domains
                  THEN SynthesizedStates(c, "services" \in domains) ELSE <<>>
    IN (IF "services" \in domains THEN Guarded("service", BuildServiceChecks(c.services))
                                  ELSE <<>>)
       \o BuildServiceStateChecks(states)
       \o IF "identity" \in domains THEN BuildIdentityChecks(c.identity) ELSE <<>>

\* buildServiceBackedChecks, and what buildChecksForDomains does with it.
ServiceBacked(c, domains) ==
    LET states == IF "identity" \in domains
                  THEN SynthesizedStates(c, "services" \in domains) ELSE <<>>
    IN Guarded("service",
               (IF "services" \in domains THEN BuildServiceChecks(c.services) ELSE <<>>)
                 \o BuildServiceStateChecks(states))
       \o IF "identity" \in domains THEN BuildIdentityChecks(c.identity) ELSE <<>>

\* buildChecksForDomains once its two error returns are past.
Plan(c, domains, rooted) ==
    LET behind(domain, checks) == IF rooted THEN checks ELSE Guarded(domain, checks)
    IN (IF "paths" \in domains THEN behind("path", BuildPathChecks(c.paths)) ELSE <<>>)
       \o (IF "sockets" \in domains THEN behind("socket", BuildSocketChecks(c.sockets)) ELSE <<>>)
       \o ServiceBacked(c, domains)

\* Slip: contracts are not validated across their sections.
SemanticallyAnything(c) == TRUE

\* contract.ValidateSemantics: identity is asked of active services only.
SemanticallyValid(c) ==
    \A l \in DOMAIN c.identity :
      c.identity[l].service \in DOMAIN c.services =>
        c.services[c.identity[l].service].state = "active"

\* selectedDomains.  A filter is the set of what stands between its commas,
\* trimmed, "" included; the empty set is the absence of --domain.
SelectedDomains(c, filter) ==
    IF filter # {} THEN filter \ {""}
    ELSE {d \in Domains : \/ d = "paths" /\ DOMAIN c.paths # {}
                          \/ d = "identity" /\ DOMAIN c.identity # {}
                          \/ d = "sockets" /\ DOMAIN c.sockets # {}
                          \/ d = "services" /\ DOMAIN c.services # {}}

-----------------------------------------------------------------------------
\* Where a check runs: identity checks look at the processes of services.
Home(domain) == IF domain = "identity" THEN "service" ELSE domain

\* check waits for id, itself or through a check of the plan it waits for.
WaitsFor(plan, check, id) ==
    \/ id \in ToSet(check.prereqs)
    \/ \E other \in ToSet(plan) : other.id \in ToSet(check.prereqs) /\ id \in ToSet(other.prereqs)
=============================================================================
