------------------------------ MODULE PlannedRun ------------------------------
(***************************************************************************)
(* What runCheck of src/cmd/savk/main.go puts together: the checks of      *)
(* Planner, run by Engine with a collector timeout and a context that does *)
(* not end, on a host where the namespace preflights of                    *)
(* src/internal/collectors/service_preflight.go look at /proc/1/comm.      *)
(*                                                                         *)
(* The target of a contract is linux-systemd: the parser takes no other.   *)
(***************************************************************************)
EXTENDS Engine, Planner

CONSTANTS
    Jobs,    \* contracts, the domains selected of each, and whether there is a host root
    MaxRun   \* bound: plans with more checks than this are validated, but not run

VARIABLES
    names,   \* the ID behind every number of the plan
    rooted,  \* --host-root was given
    pid1     \* what PID1Comm finds: a name, "" for a blank one, or "unreadable"

plannedVars == <<vars, names, rooted, pid1>>

Comms == {"systemd", "init", "", "unreadable"}

\* What buildChecksForDomains returns.
PlanOf(job) == Plan(job.contract, job.domains, job.rooted)

\* What runCheck and buildChecksForDomains refuse never reaches the engine.
ASSUME JobsAssumption ==
    \A job \in Jobs :
      /\ WellFormed(job.contract) /\ SemanticallyValid(job.contract)
      /\ job.rooted \in BOOLEAN
      /\ job.domains \subseteq (IF job.rooted THEN {"paths", "sockets"} ELSE Domains)
      /\ PlanOf(job) # <<>>

\* The number of an ID is its place in the plan: the order of the IDs decides only in
\* which order independent checks run.  An ID that is not there has a number of its own.
Numbering(plan) == [i \in 1..Len(plan) |-> plan[i].id]

Place(plan, id) ==
    IF \E i \in 1..Len(plan) : plan[i].id = id
    THEN CHOOSE i \in 1..Len(plan) : plan[i].id = id
    ELSE Len(plan) + 1

AsInput(plan) ==
    [i \in 1..Len(plan) |->
       [id |-> Place(plan, plan[i].id),
        prereqs |-> [k \in 1..Len(plan[i].prereqs) |-> Place(plan, plan[i].prereqs[k])]]]

PlannedInit ==
    /\ \E job \in Jobs : /\ input = AsInput(PlanOf(job))
                         /\ names = Numbering(PlanOf(job))
                         /\ rooted = job.rooted
    /\ Init
    /\ pid1 \in Comms

IsPreflight(c) == names[c].kind = "namespace"

\* Slip: any name will do.
NamespaceStatusAnyName(comm) == IF comm \in {"", "unreadable"} THEN "ERROR" ELSE "PASS"

\* serviceNamespaceCheck.Run, once it has looked.
NamespaceStatus(comm) == IF comm = "systemd" THEN "PASS" ELSE "ERROR"

\* It does not look when its context is done; that of an abandoned check is.
LooksAlways(c) == InProgress /\ c = Current /\ ctxErr = "none"
PreflightStatuses(c) ==
    {NamespaceStatus(pid1)} \union (IF LooksAlways(c) THEN {} ELSE {"ERROR"})

PlannedNext ==
    /\ Len(input) > MaxRun => pc = "validate"
    /\ Next
    /\ \A e \in ended' \ ended : IsPreflight(e[1]) => e[2] \in PreflightStatuses(e[1])
    /\ UNCHANGED <<names, rooted, pid1>>

PlannedSpec == PlannedInit /\ [][PlannedNext]_plannedVars

-----------------------------------------------------------------------------
(***************************************************************************)
(* Whatever contract is accepted and whatever is selected, the engine does *)
(* not refuse the plan: no ID occurs twice, every prerequisite is there,   *)
(* and none waits for itself.                                              *)
(***************************************************************************)
PlansAreAccepted == phase # "rejected"

(***************************************************************************)
(* README.md: if PID 1 is not systemd, the preflight blocks the checks     *)
(* that depend on it.  Without a host root no check is even called before  *)
(* the preflight of its domain has passed, in time; on a host of another   *)
(* kind nothing is judged, and the run says so by its exit code.           *)
(***************************************************************************)
NothingIsJudgedElsewhere ==
    ~rooted =>
      /\ \A c \in launched :
           \/ IsPreflight(c)
           \/ \E r \in Recorded : /\ names[r.id] = Preflight(Home(names[c].domain))
                                  /\ r.status = "PASS"
      /\ pid1 # "systemd" =>
           /\ \A r \in Recorded : r.status \in {"ERROR", "INSUFFICIENT_DATA"}
           /\ pc = "returned" => ExitCode(Recorded) = 2

-----------------------------------------------------------------------------
(***************************************************************************)
(* Why nothing is judged elsewhere.  It is one of the jobs that is run; a  *)
(* preflight that looked on such a host ended in an ERROR, and so did what *)
(* has no answer; a gated result has a cause (EngineInv), which is one of  *)
(* those; and the run does not return without a result.                    *)
(***************************************************************************)
JobInv == \E job \in Jobs : /\ input = AsInput(PlanOf(job))
                            /\ names = Numbering(PlanOf(job))
                            /\ rooted = job.rooted

PreflightInv ==
    pid1 # "systemd" => \A e \in ended : IsPreflight(e[1]) => e[2] = "ERROR"

UnansweredInv ==
    \A r \in Recorded : r.origin \in {"panic", "timeout", "context"} => r.status = "ERROR"

ReturnedInv == pc = "returned" => results # <<>>

\* Beside EngineInv.
PlannedInv == JobInv /\ PreflightInv /\ UnansweredInv /\ ReturnedInv
=============================================================================
