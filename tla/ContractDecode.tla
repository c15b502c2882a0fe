---------------------------- MODULE ContractDecode ----------------------------
(***************************************************************************)
(* decodeContract of src/internal/contract/parser.go, with the field names *)
(* and enumerations of schema.go: which trees are contracts, and what the  *)
(* rest of the program gets to see of them.                                *)
(*                                                                         *)
(* The code stops at the first error; its errors differ in their wording   *)
(* only, so that what remains is whether there is one.  The contract is    *)
(* the one Planner plans for: each entry with what it asks to be checked.  *)
(***************************************************************************)
EXTENDS ContractText, Planner

CONSTANT KnownCapabilities   \* linuxCapabilityNames of the capabilities package

ASSUME CapabilityAssumption == \A name \in KnownCapabilities : name \in STRING

Has(node, field) == <<field>> \in DOMAIN node.entries
Child(node, field) == node.entries[<<field>>]

\* rejectUnknownFields.
OnlyFields(node, fields) ==
    node.kind = "map" /\ \A key \in DOMAIN node.entries : \E f \in fields : key = <<f>>

\* expectString with a blank refused; expectString with an enumeration behind it.
IsFilled(node) == node.kind = "string" /\ Trim(node.text) # <<>>
IsOneOf(node, words) == node.kind = "string" /\ \E w \in words : node.text = <<w>>

IsAccountID(node) == node.kind = "int" /\ node.number >= 0

IsOctalMode(text) ==
    Len(text) \in {4, 5} /\ Head(text) = "0" /\ ToSet(text) \subseteq OctalDigits

IsMode(node) == node.kind = "string" /\ IsOctalMode(node.text)

\* decodeCapabilityList; an empty list is a list.
IsCapabilityList(node) ==
    node.kind = "list" /\ \A i \in DOMAIN node.items : IsOneOf(node.items[i], KnownCapabilities)

\* decodeRunAs.
IsRunAs(node) ==
    /\ OnlyFields(node, {"user", "group"})
    /\ Has(node, "user") /\ IsFilled(Child(node, "user"))
    /\ Has(node, "group") => IsFilled(Child(node, "group"))

CapabilitySets == {"effective", "permitted", "inheritable", "bounding", "ambient"}

\* Slip: a mapping without any capability set is taken.
IsCapabilitySetSpecOrEmpty(node) ==
    /\ OnlyFields(node, CapabilitySets)
    /\ \A s \in CapabilitySets : Has(node, s) => IsCapabilityList(Child(node, s))

\* decodeCapabilitySetSpec and isCapabilitySetSpecEmpty.
IsCapabilitySetSpec(node) ==
    /\ OnlyFields(node, CapabilitySets)
    /\ \A s \in CapabilitySets : Has(node, s) => IsCapabilityList(Child(node, s))
    /\ \E s \in CapabilitySets : Has(node, s)

-----------------------------------------------------------------------------
\* A section is a mapping; its entries are decoded one after the other.
Entries(root, section) == IF Has(root, section) THEN Child(root, section).entries ELSE <<>>

ServiceDecodes(key, node) ==
    /\ Trim(key) # <<>>
    /\ OnlyFields(node, {"state", "run_as", "restart", "capabilities"})
    /\ Has(node, "state") /\ IsOneOf(Child(node, "state"), ServiceStates)
    /\ Has(node, "run_as") => IsRunAs(Child(node, "run_as"))
    /\ Has(node, "restart") => IsOneOf(Child(node, "restart"), {"always", "on-failure", "no"})
    /\ Has(node, "capabilities") => IsCapabilityList(Child(node, "capabilities"))

\* validateAbsolutePath.
IsAbsolutePath(key) == Starts(key, {"/"})

OwnershipDecodes(node) ==
    /\ Has(node, "owner") => IsFilled(Child(node, "owner"))
    /\ Has(node, "group") => IsFilled(Child(node, "group"))
    /\ Has(node, "mode") => IsMode(Child(node, "mode"))

SocketDecodes(key, node) ==
    /\ IsAbsolutePath(key)
    /\ OnlyFields(node, {"owner", "group", "mode"})
    /\ OwnershipDecodes(node)

PathDecodes(key, node) ==
    /\ IsAbsolutePath(key)
    /\ OnlyFields(node, {"owner", "group", "mode", "type"})
    /\ OwnershipDecodes(node)
    /\ Has(node, "type") => IsOneOf(Child(node, "type"), {"file", "directory"})

IdentityDecodes(key, node) ==
    /\ Trim(key) # <<>>
    /\ OnlyFields(node, {"service", "uid", "gid", "capabilities"})
    /\ Has(node, "service") /\ IsFilled(Child(node, "service"))
    /\ \A f \in {"uid", "gid"} : Has(node, f) => IsAccountID(Child(node, f))
    /\ Has(node, "capabilities") => IsCapabilitySetSpec(Child(node, "capabilities"))
    /\ \E f \in {"uid", "gid", "capabilities"} : Has(node, f)

MetadataDecodes(node) ==
    /\ OnlyFields(node, {"name", "target"})
    /\ Has(node, "name") /\ IsFilled(Child(node, "name"))
    /\ Has(node, "target") /\ IsOneOf(Child(node, "target"), {"linux-systemd"})

Decodes(root) ==
    LET sections == {"services", "sockets", "paths", "identity"}
        entries(section) == Entries(root, section)
    IN /\ OnlyFields(root, {"apiVersion", "kind", "metadata"} \union sections)
       /\ Has(root, "apiVersion") /\ IsOneOf(Child(root, "apiVersion"), {"savk/v1"})
       /\ Has(root, "kind") /\ IsOneOf(Child(root, "kind"), {"ApplianceContract"})
       /\ Has(root, "metadata") /\ MetadataDecodes(Child(root, "metadata"))
       /\ \A s \in sections : Has(root, s) => Child(root, s).kind = "map"
       /\ \A k \in DOMAIN entries("services") : ServiceDecodes(k, entries("services")[k])
       /\ \A k \in DOMAIN entries("sockets") : SocketDecodes(k, entries("sockets")[k])
       /\ \A k \in DOMAIN entries("paths") : PathDecodes(k, entries("paths")[k])
       /\ \A k \in DOMAIN entries("identity") : IdentityDecodes(k, entries("identity")[k])
       /\ \E s \in sections : DOMAIN entries(s) # {}

-----------------------------------------------------------------------------
Present(node, fields) == {f \in fields : Has(node, f)}

\* The kinds of checks that the fields of a field become: both names, and a dot.
NestedKinds ==
    [run_as |-> [user |-> "run_as.user", group |-> "run_as.group"],
     capabilities |-> [effective |-> "capabilities.effective",
                       permitted |-> "capabilities.permitted",
                       inheritable |-> "capabilities.inheritable",
                       bounding |-> "capabilities.bounding",
                       ambient |-> "capabilities.ambient"]]

ASSUME KindsAreDotted ==
    \A field \in DOMAIN NestedKinds : \A f \in DOMAIN NestedKinds[field] :
      NestedKinds[field][f] = field \o "." \o f

\* ServiceSpec: Planner's kinds of checks for what is set.
Service(node) ==
    [state |-> Head(Child(node, "state").text),
     asks |-> Present(node, {"restart", "capabilities"})
              \union IF Has(node, "run_as")
                     THEN {NestedKinds["run_as"][f] : f \in Present(Child(node, "run_as"),
                                                                   {"user", "group"})}
                     ELSE {}]

Identity(node) ==
    [service |-> Child(node, "service").text,
     asks |-> Present(node, {"uid", "gid"})
              \union IF Has(node, "capabilities")
                     THEN {NestedKinds["capabilities"][s] : s \in Present(Child(node, "capabilities"),
                                                                         CapabilitySets)}
                     ELSE {}]

\* The Contract decodeContract returns.
Decoded(root) ==
    LET each(section, Of(_)) ==
          [k \in DOMAIN Entries(root, section) |-> Of(Entries(root, section)[k])]
    IN [services |-> each("services", Service),
        sockets |-> each("sockets", LAMBDA node : Present(node, {"owner", "group", "mode"})),
        paths |-> each("paths", LAMBDA node : Present(node, {"owner", "group", "mode", "type"})),
        identity |-> each("identity", Identity)]
=============================================================================
