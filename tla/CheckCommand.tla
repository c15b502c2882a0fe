----------------------------- MODULE CheckCommand -----------------------------
(***************************************************************************)
(* runCheck of src/cmd/savk/main.go: from the invocation to the exit code. *)
(* The engine's run is taken whole, as the statuses it records: Engine has *)
(* its steps, and PlannedRun what it makes of the plans.                   *)
(***************************************************************************)
EXTENDS Planner, Evidence

CONSTANTS
    Contracts,  \* the contracts a file may hold that ParseBytes accepts
    Filters,    \* what --domain may be given
    Raws,       \* texts the collectors may keep as evidence
    MaxShown    \* bound: the evidence of runs with more checks than this is not looked at

ASSUME ContractsAssumption == \A c \in Contracts : WellFormed(c)
ASSUME RawsAssumption == Raws \subseteq Seq(RawPiece)

Statuses == {"PASS", "FAIL", "NOT_APPLICABLE", "INSUFFICIENT_DATA", "ERROR"}
Running == 4    \* no exit code yet

VARIABLES
    pc,       \* where runCheck is
    cfg,      \* the contract
    filter,   \* --domain
    rooted,   \* --host-root was given
    domains,  \* the selected domains
    checks,   \* what is handed to the engine
    statuses, \* the statuses of the results
    found,    \* the evidence of one of the results
    shown,    \* what the report says of it
    exit      \* the exit code

inputVars == <<cfg, filter, rooted>>
evidenceVars == <<found, shown>>
vars == <<pc, inputVars, domains, checks, statuses, evidenceVars, exit>>

NothingShown == Sanitize(<<>>, TRUE)

Init ==
    /\ pc = "invoked"
    /\ cfg \in Contracts
    /\ filter \in Filters
    /\ rooted \in BOOLEAN
    /\ domains = {}
    /\ checks = <<>>
    /\ statuses = {}
    /\ found = [raw |-> <<>>, includeRaw |-> FALSE]
    /\ shown = NothingShown
    /\ exit = Running

Step(from, to) == pc = from /\ pc' = to /\ UNCHANGED inputVars

\* Slip: an error is printed, and nothing returned.
RefuseWithoutCode(from) ==
    /\ Step(from, "exited")
    /\ UNCHANGED <<domains, checks, statuses, evidenceVars, exit>>

\* An error is printed and 3 returned.
Refuse(from) ==
    /\ Step(from, "exited")
    /\ exit' = 3
    /\ UNCHANGED <<domains, checks, statuses, evidenceVars>>

\* The flags, the host root, the format, or reading and parsing the contract fail.
RefuseInvocation == Refuse("invoked")

Select ==
    /\ Step("invoked", "selected")
    /\ domains' = SelectedDomains(cfg, filter)
    /\ UNCHANGED <<checks, statuses, evidenceVars, exit>>

\* hasServiceBackedDomain.
RootExcludes(ds) == "services" \in ds \/ "identity" \in ds

NoDomains == domains = {}
WrongRoot == rooted /\ RootExcludes(domains)
RefuseSelection == (NoDomains \/ WrongRoot) /\ Refuse("selected")

\* buildChecksForDomains returns an error: semantics first, then a foreign domain.
RefuseBuild ==
    /\ ~NoDomains /\ ~WrongRoot
    /\ ~SemanticallyValid(cfg) \/ ~(domains \subseteq Domains)
    /\ Refuse("selected")

Build ==
    /\ ~NoDomains /\ ~WrongRoot
    /\ SemanticallyValid(cfg)
    /\ domains \subseteq Domains
    /\ Step("selected", "built")
    /\ checks' = Plan(cfg, domains, rooted)
    /\ UNCHANGED <<domains, statuses, evidenceVars, exit>>

RefuseEmpty == checks = <<>> /\ Refuse("built")

\* engine.Run returns a result for each check.
RunEngine ==
    /\ checks # <<>>
    /\ Step("built", "ran")
    /\ \E ss \in SUBSET Statuses : /\ ss # {}
                                   /\ Cardinality(ss) <= Len(checks)
                                   /\ statuses' = ss
    /\ UNCHANGED <<domains, checks, evidenceVars, exit>>

\* Slip: a failure hides that other checks could not be evaluated.
ExitCodeFailFirst(ss) ==
    IF "FAIL" \in ss THEN 1 ELSE IF ss \cap {"ERROR", "INSUFFICIENT_DATA"} # {} THEN 2 ELSE 0

\* reporters.ExitCodeForResults.
ExitCode(ss) ==
    IF ss \cap {"ERROR", "INSUFFICIENT_DATA"} # {} THEN 2 ELSE IF "FAIL" \in ss THEN 1 ELSE 0

\* The report is rendered and written: normalizeResults sanitizes each evidence alike.
Report ==
    /\ Step("ran", "exited")
    /\ \E raw \in IF Len(checks) <= MaxShown THEN Raws ELSE {<<>>}, includeRaw \in BOOLEAN :
         /\ found' = [raw |-> raw, includeRaw |-> includeRaw]
         /\ shown' = Sanitize(raw, includeRaw)
    /\ exit' = ExitCode(statuses)
    /\ UNCHANGED <<domains, checks, statuses>>

\* Rendering it, or writing it to stdout, fails.
RefuseReport == Refuse("ran")

Next == \/ RefuseInvocation \/ Select \/ RefuseSelection \/ RefuseBuild \/ Build
        \/ RefuseEmpty \/ RunEngine \/ Report \/ RefuseReport

Spec == Init /\ [][Next]_vars

-----------------------------------------------------------------------------
TypeOK ==
    /\ pc \in {"invoked", "selected", "built", "ran", "exited"}
    /\ cfg \in Contracts /\ filter \in Filters /\ rooted \in BOOLEAN
    /\ statuses \subseteq Statuses
    /\ exit \in 0..Running
    /\ exit = Running <=> pc # "exited"

\* The plan, when it has just been built.
Plans == IF pc = "built" THEN ToSet(checks) ELSE {}

IsPreflight(id) == id.kind = "namespace"

(***************************************************************************)
(* No check looks at the observer's own system before the preflight of its *)
(* domain has passed, the identity checks not before that of the services; *)
(* under a host root there is no preflight and nothing that needs one.     *)
(***************************************************************************)
EverythingIsGuarded ==
    \A c \in Plans :
      IF rooted THEN ~IsPreflight(c.id) /\ c.id.domain \in {"path", "socket"}
      ELSE IsPreflight(c.id) \/ WaitsFor(checks, c, Preflight(Home(c.id.domain)))

(***************************************************************************)
(* An identity check waits for its service to be active, whether the       *)
(* contract declares the service or not, and whichever domains were        *)
(* selected.                                                               *)
(***************************************************************************)
IdentityNeedsActive ==
    \A c \in Plans : c.id.domain = "identity" =>
      \E s \in Plans : s.id \in ToSet(c.prereqs) /\ s.id.kind = "state" /\ s.expects = "active"

(***************************************************************************)
(* The plan holds exactly the checks the contract and the selection call   *)
(* for, and the two kinds that exist only for others to wait for.          *)
(***************************************************************************)
Wanted ==
    LET on(domain) == domain \in domains
        asked(domain, entries, asks(_)) ==
          UNION {{ID(domain, n, k) : k \in asks(n)} : n \in DOMAIN entries}
    IN UNION {
         IF on("paths") THEN asked("path", cfg.paths, LAMBDA p : {"exists"} \union cfg.paths[p])
                        ELSE {},
         IF on("sockets") THEN asked("socket", cfg.sockets,
                                     LAMBDA s : {"exists"} \union cfg.sockets[s]) ELSE {},
         IF on("services") THEN asked("service", cfg.services,
                                      LAMBDA s : {"state"} \union cfg.services[s].asks) ELSE {},
         IF on("identity") THEN asked("identity", cfg.identity, LAMBDA l : cfg.identity[l].asks)
                                \union {ID("service", cfg.identity[l].service, "state") :
                                          l \in DOMAIN cfg.identity} ELSE {}}

PlanIsExact ==
    pc = "built" =>
      /\ {c.id : c \in Plans} \ {Preflight(d) : d \in {"path", "socket", "service"}} = Wanted
      /\ Cardinality({c.id : c \in Plans}) = Len(checks)

(***************************************************************************)
(* report-v1.md on exit codes: 1 only if every other check could be        *)
(* evaluated, 0 only if none failed either.                                *)
(***************************************************************************)
ExitCodeIsEarned ==
    /\ exit = 0 => statuses \subseteq {"PASS", "NOT_APPLICABLE"}
    /\ exit = 1 => "FAIL" \in statuses /\ statuses \cap {"ERROR", "INSUFFICIENT_DATA"} = {}
    /\ exit = 2 => statuses \cap {"ERROR", "INSUFFICIENT_DATA"} # {}

(***************************************************************************)
(* Unless it is asked for as it is, evidence is shown without credentials, *)
(* within the limit although redacting may make it longer, and without     *)
(* breaking a character (behind a byte that is none, one may be broken).   *)
(* `truncated' tells exactly when there is more than is shown, and what is *)
(* shown could not be one character longer.                                *)
(***************************************************************************)
EvidenceIsSafe ==
    IF found.includeRaw THEN shown.raw = found.raw /\ ~shown.truncated
    ELSE LET all == Redact(found.raw)
             kept == SubSeq(shown.raw, 1, Len(shown.raw) - (IF shown.truncated THEN 1 ELSE 0))
             strays == \E i \in DOMAIN all : all[i].kind = "stray"
         IN /\ "secret" \notin {shown.raw[i].kind : i \in DOMAIN shown.raw}
            /\ Bytes(shown.raw) <= RawLimit
            /\ shown.truncated <=> shown.raw # all
            /\ shown.redacted <=> "secret" \in {found.raw[i].kind : i \in DOMAIN found.raw}
            /\ ~strays => /\ IsPrefix(kept, all)
                          /\ shown.truncated =>
                               Bytes(shown.raw) + all[Len(kept) + 1].size > RawLimit

(***************************************************************************)
(* report-v1.md, of exit code 3: a contract or CLI error before the        *)
(* engine.  A report that cannot be written ends in 3 after it.            *)
(***************************************************************************)
ThreeIsBeforeTheEngine == exit = 3 => statuses = {}

-----------------------------------------------------------------------------
(***************************************************************************)
(* Why.  What is built is the plan of a contract and a selection that were *)
(* not refused, whose properties Planner decides; an exit code below 3 is  *)
(* that of the statuses; and what is shown is what Sanitize makes of it.   *)
(***************************************************************************)
BuiltInv ==
    pc = "built" =>
      /\ checks = Plan(cfg, domains, rooted)
      /\ SemanticallyValid(cfg) /\ domains \subseteq Domains /\ ~WrongRoot

EarnedInv == exit \in {0, 1, 2} => exit = ExitCode(statuses)

ShownInv ==
    /\ found.raw \in Seq(RawPiece) /\ found.includeRaw \in BOOLEAN
    /\ shown = Sanitize(found.raw, found.includeRaw)

CommandInv == TypeOK /\ BuiltInv /\ EarnedInv /\ ShownInv
=============================================================================
