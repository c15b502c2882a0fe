-------------------------------- MODULE Engine --------------------------------
(***************************************************************************)
(* Engine.Run of src/internal/engine/engine.go: the slice is validated     *)
(* (CheckGraph), then the checks are settled one after the other.  A check *)
(* whose prerequisites did not all pass is settled without running.  The   *)
(* others run on a goroutine of their own when the context has a deadline, *)
(* and the engine waits for their result or for the end of the context,    *)
(* whichever it sees first; a goroutine the engine stopped waiting for     *)
(* keeps running, beside the checks that follow.  Without a deadline the   *)
(* check runs on the engine's own goroutine.                               *)
(*                                                                         *)
(* The maps byID and results of Run hold the same results; the sequence    *)
(* `results' stands for both.  A result is its check, its status and what  *)
(* Evidence.Source tells of its origin; times and messages are left out.   *)
(***************************************************************************)
EXTENDS CheckGraph

CONSTANTS
    CheckStatuses,   \* what the Run methods of the checks answer
    Setups           \* the ways Run may be called

Statuses == {"PASS", "FAIL", "NOT_APPLICABLE", "INSUFFICIENT_DATA", "ERROR"}
Origins == {"check", "panic", "timeout", "context", "prerequisite"}
ContextErrs == {"none", "deadline", "cancelled"}

ASSUME StatusAssumption == CheckStatuses \subseteq Statuses

\* WithCollectorTimeout was given a positive duration; the caller's context has
\* a deadline; the caller may cancel it.
Setup == [timeout : BOOLEAN, parentDeadline : BOOLEAN, parentCancels : BOOLEAN]

ASSUME SetupsAssumption == Setups \subseteq Setup

VARIABLES
    setup,     \* how Run was called
    pc,        \* where Run is
    results,   \* the results recorded so far, in order
    parentErr, \* Err() of the caller's context
    ctxErr,    \* Err() of the context of the check in progress
    launched,  \* checks whose Run method was called
    running,   \* those whose Run method has not returned or panicked
    ended      \* how the others ended: what was sent on their done channel

runVars == <<setup, pc, results, parentErr, ctxErr, launched, running, ended>>
vars == <<graphVars, runVars>>

Result == [id : Nat, status : Statuses, origin : Origins]
Recorded == {results[i] : i \in 1..Len(results)}
Settled == {r.id : r \in Recorded}
Current == ordered[Len(results) + 1]
InProgress == pc \in {"started", "select", "sync"}

HasDeadline == setup.timeout \/ setup.parentDeadline

\* Slips: an ERROR propagates as a FAIL does, or a FAIL as an ERROR does.
PropagatedAsSkip(status) == "NOT_APPLICABLE"
PropagatedAsDoubt(status) == "INSUFFICIENT_DATA"

\* evaluator.go's propagatePrerequisiteStatus.
Propagated(status) == IF status \in {"FAIL", "NOT_APPLICABLE"} THEN "NOT_APPLICABLE"
                                                               ELSE "INSUFFICIENT_DATA"

\* A prerequisite with a result other than PASS; one without a result passes.
Bars(r, p) == r \in Recorded /\ r.id = p /\ r.status # "PASS"

\* Slip: any result that is not PASS blocks, whoever it belongs to.
BlockingUnrelated(r, c) == Bars(r, r.id)

\* r is the result findBlockingPrerequisite finds for c: the first in c's list.
Blocking(r, c) ==
    \E k \in 1..Len(checks[c]) :
      /\ Bars(r, checks[c][k])
      /\ \A j \in 1..(k - 1) : \A s \in Recorded : ~Bars(s, checks[c][j])

\* Slip: the status is left at its zero value.
ContextFailureBlank(c) == [id |-> c, status |-> "", origin |-> "context"]

\* contextFailure.
ContextFailure(c) == [id |-> c, status |-> "ERROR",
                      origin |-> IF ctxErr = "deadline" THEN "timeout" ELSE "context"]

\* finalizeResult files what the check answered under the check's own ID.
Answer(c, outcome) ==
    IF outcome = "panic" THEN [id |-> c, status |-> "ERROR", origin |-> "panic"]
                         ELSE [id |-> c, status |-> outcome, origin |-> "check"]

Settle(r) == /\ results' = Append(results, r)
             /\ pc' = "next"
             /\ ctxErr' = "none"

-----------------------------------------------------------------------------
Init ==
    /\ GraphInit
    /\ setup \in Setups
    /\ pc = "validate"
    /\ results = <<>>
    /\ parentErr = "none"
    /\ ctxErr = "none"
    /\ launched = {}
    /\ running = {}
    /\ ended = {}

Validate == GraphNext /\ UNCHANGED runVars

\* validateChecks returned: Run gives its error back or enters the loop.
Enter ==
    /\ pc = "validate"
    /\ \/ phase = "rejected" /\ pc' = "refused"
       \/ phase = "ordered" /\ pc' = "next"
    /\ UNCHANGED <<graphVars, setup, results, parentErr, ctxErr, launched, running, ended>>

Block ==
    /\ pc = "next"
    /\ Len(results) < Len(ordered)
    /\ \E r \in Recorded :
         /\ Blocking(r, Current)
         /\ Settle([id |-> Current, status |-> Propagated(r.status),
                    origin |-> "prerequisite"])
    /\ UNCHANGED <<graphVars, setup, parentErr, launched, running, ended>>

\* runCheck: the context is derived, dead already if the caller's is.
Start ==
    /\ pc = "next"
    /\ Len(results) < Len(ordered)
    /\ \A r \in Recorded : \A p \in Prereqs(Current) : ~Bars(r, p)
    /\ pc' = "started"
    /\ ctxErr' = parentErr
    /\ UNCHANGED <<graphVars, setup, results, parentErr, launched, running, ended>>

\* The context ended before the check could run.
FailEarly ==
    /\ pc = "started"
    /\ ctxErr # "none"
    /\ Settle(ContextFailure(Current))
    /\ UNCHANGED <<graphVars, setup, parentErr, launched, running, ended>>

Launch ==
    /\ pc = "started"
    /\ ctxErr = "none"
    /\ pc' = IF HasDeadline THEN "select" ELSE "sync"
    /\ launched' = launched \union {Current}
    /\ running' = running \union {Current}
    /\ UNCHANGED <<graphVars, setup, results, parentErr, ctxErr, ended>>

\* Slip: an answer that comes late replaces the result on record.
EndOverwrites(c) ==
    /\ c \in running
    /\ pc # "sync"
    /\ running' = running \ {c}
    /\ \E outcome \in CheckStatuses \union {"panic"} :
         /\ ended' = ended \union {<<c, outcome>>}
         /\ results' = [i \in 1..Len(results) |->
                          IF results[i].id = c THEN Answer(c, outcome) ELSE results[i]]
    /\ UNCHANGED <<graphVars, setup, pc, parentErr, ctxErr, launched>>

\* A check's Run returns, or panics and is recovered, on its own goroutine.
End(c) ==
    /\ c \in running
    /\ pc # "sync"
    /\ running' = running \ {c}
    /\ \E outcome \in CheckStatuses \union {"panic"} :
         ended' = ended \union {<<c, outcome>>}
    /\ UNCHANGED <<graphVars, setup, pc, results, parentErr, ctxErr, launched>>

\* Slip: one done channel serves all checks.
TakeResultShared ==
    /\ pc = "select"
    /\ \E e \in ended : Settle(Answer(Current, e[2]))
    /\ UNCHANGED <<graphVars, setup, parentErr, launched, running, ended>>

\* The select statement finds the result of this check's own channel.
TakeResult ==
    /\ pc = "select"
    /\ \E e \in ended : e[1] = Current /\ Settle(Answer(Current, e[2]))
    /\ UNCHANGED <<graphVars, setup, parentErr, launched, running, ended>>

\* Slip: the goroutine is joined before the failure is reported.
StopWaitingJoined ==
    /\ pc = "select"
    /\ ctxErr # "none"
    /\ Current \notin running
    /\ Settle(ContextFailure(Current))
    /\ UNCHANGED <<graphVars, setup, parentErr, launched, running, ended>>

\* The select statement finds the context done; a result may be there as well.
StopWaiting ==
    /\ pc = "select"
    /\ ctxErr # "none"
    /\ Settle(ContextFailure(Current))
    /\ UNCHANGED <<graphVars, setup, parentErr, launched, running, ended>>

\* runCheckSync: the check ends on the engine's goroutine.
EndSync ==
    /\ pc = "sync"
    /\ running' = running \ {Current}
    /\ \E outcome \in CheckStatuses \union {"panic"} :
         /\ ended' = ended \union {<<Current, outcome>>}
         /\ Settle(Answer(Current, outcome))
    /\ UNCHANGED <<graphVars, setup, parentErr, launched>>

Finish ==
    /\ pc = "next"
    /\ Len(results) = Len(ordered)
    /\ pc' = "returned"
    /\ UNCHANGED <<graphVars, setup, results, parentErr, ctxErr, launched, running, ended>>

\* The collector timeout of the check in progress fires.
Expire ==
    /\ setup.timeout
    /\ InProgress
    /\ ctxErr = "none"
    /\ ctxErr' = "deadline"
    /\ UNCHANGED <<graphVars, setup, pc, results, parentErr, launched, running, ended>>

\* The caller's context ends, and with it the one derived from it.
ParentEnds(cause) ==
    /\ parentErr = "none"
    /\ parentErr' = cause
    /\ ctxErr' = IF InProgress /\ ctxErr = "none" THEN cause ELSE ctxErr
    /\ UNCHANGED <<graphVars, setup, pc, results, launched, running, ended>>

ParentExpires == setup.parentDeadline /\ ParentEnds("deadline")
ParentCancels == setup.parentCancels /\ ParentEnds("cancelled")

-----------------------------------------------------------------------------
\* What the engine's goroutine does of itself; it waits for no other check.
EngineStep == \/ Validate \/ Enter \/ Block \/ Start \/ FailEarly \/ Launch
              \/ TakeResult \/ StopWaiting \/ Finish

Next == \/ EngineStep \/ EndSync \/ Expire \/ ParentExpires \/ ParentCancels
        \/ \E c \in running : End(c)

Spec == Init /\ [][Next]_vars

(***************************************************************************)
(* The Go scheduler runs the engine's goroutine, and the runtime fires its *)
(* timers.  Nothing makes a check on a goroutine of its own end, or the    *)
(* caller cancel; that a check called directly returns is an assumption.   *)
(***************************************************************************)
FairSpec == /\ Spec
            /\ WF_vars(EngineStep)
            /\ WF_vars(Expire) /\ WF_vars(ParentExpires)
            /\ WF_vars(EndSync)

-----------------------------------------------------------------------------
TypeOK ==
    /\ GraphTypeOK
    /\ pc \in {"validate", "next", "started", "select", "sync", "returned", "refused"}
    /\ results \in Seq(Result)
    /\ parentErr \in ContextErrs
    /\ ctxErr \in ContextErrs
    /\ launched \subseteq IDs
    /\ running \subseteq launched
    /\ ended \subseteq launched \X (CheckStatuses \union {"panic"})

(***************************************************************************)
(* No check runs unless every one of its prerequisites has passed.  The    *)
(* code only looks for a recorded result that is not PASS, so this rests   *)
(* on the order the graph was laid out in.                                 *)
(***************************************************************************)
GateHolds ==
    \A c \in launched : \A p \in Prereqs(c) :
      \E r \in Recorded : r.id = p /\ r.status = "PASS"

(***************************************************************************)
(* ExitCodeForResults of src/internal/reporters/json.go.                   *)
(***************************************************************************)
ExitCode(rs) ==
    IF \E r \in rs : r.status \in {"ERROR", "INSUFFICIENT_DATA"} THEN 2
    ELSE IF \E r \in rs : r.status = "FAIL" THEN 1 ELSE 0

Executed == {r \in Recorded : r.origin # "prerequisite"}

(***************************************************************************)
(* Checks that were gated never change the exit code: it is the one the    *)
(* checks that were evaluated give.                                        *)
(***************************************************************************)
GatingKeepsExitCode == ExitCode(Recorded) = ExitCode(Executed)

(***************************************************************************)
(* A result that claims to be a check's answer is the answer of that very  *)
(* check, never the late one of a check the engine had given up on.        *)
(***************************************************************************)
AnswersAreOwn ==
    \A r \in Recorded :
      /\ r.origin = "check" => <<r.id, r.status>> \in ended
      /\ r.origin = "panic" => <<r.id, "panic">> \in ended

(***************************************************************************)
(* Only a check the engine gave up on, and reported as such, may still be  *)
(* running while another one is.                                           *)
(***************************************************************************)
OnlyAbandonedOverlap ==
    \A c \in running :
      \/ pc \in {"select", "sync"} /\ c = Current
      \/ \E r \in Recorded : r.id = c /\ r.origin \in {"timeout", "context"}

(***************************************************************************)
(* A gated result has a root: something it depends on, directly or through *)
(* other gated checks, was evaluated and did not pass, and the gated       *)
(* status tells which kind of outcome that was.                            *)
(***************************************************************************)
GatedForCause ==
    \A r \in Recorded : r.origin = "prerequisite" =>
      \E s \in Executed : /\ s.id \in Ancestors(r.id)
                          /\ s.status # "PASS"
                          /\ Propagated(s.status) = r.status

\* With a deadline the run ends although no check ever returns.
RunEnds == <>(pc \in {"returned", "refused"})

\* What was recorded stays: a check that ends late changes no result.
ResultsOnlyGrow ==
    [][/\ Len(results') >= Len(results)
       /\ \A i \in 1..Len(results) : results'[i] = results[i]]_results

-----------------------------------------------------------------------------
(***************************************************************************)
(* Why the gate holds.  The results recorded are those of a prefix of the  *)
(* topological order, so the prerequisites of the next check all have one; *)
(* not finding one that is not PASS then means that they all passed.       *)
(***************************************************************************)

\* The loop is entered with a validated order, and records along it.
PrefixInv ==
    /\ pc \notin {"validate", "refused"} => phase = "ordered"
    /\ pc \in {"validate", "refused"} => results = <<>> /\ launched = {}
    /\ phase = "ordered" => Len(results) <= Len(ordered)
    /\ InProgress => Len(results) < Len(ordered)
    /\ \A i \in 1..Len(results) : results[i].id = ordered[i]

PassedPrereqs(c) ==
    \A p \in Prereqs(c) : \E r \in Recorded : r.id = p /\ r.status = "PASS"

LaunchInv ==
    /\ InProgress => PassedPrereqs(Current)
    /\ \A c \in launched : PassedPrereqs(c)
    /\ pc \in {"select", "sync"} => Current \in launched
    /\ \A c \in launched :
         \/ pc \in {"select", "sync"} /\ c = Current
         \/ c \in Settled

\* A gated INSUFFICIENT_DATA goes back to an evaluated check of exit code 2.
GatedInv ==
    \A r \in Recorded : r.origin = "prerequisite" =>
      /\ r.status \in {"NOT_APPLICABLE", "INSUFFICIENT_DATA"}
      /\ r.status = "INSUFFICIENT_DATA" =>
           \E s \in Executed : s.status \in {"ERROR", "INSUFFICIENT_DATA"}

\* A check sends once, when it is over.
EndedInv == \A e \in ended : e[1] \notin running

RunInv == GraphInv /\ TypeOK /\ PrefixInv /\ LaunchInv /\ EndedInv /\ GatedInv
            /\ AnswersAreOwn /\ OnlyAbandonedOverlap

\* With what the contract below and the causes of gated results rest on.
EngineInv == RunInv /\ ByIDInv /\ RefusedInv /\ GatedForCause

-----------------------------------------------------------------------------
(***************************************************************************)
(* Run keeps the contract: the engine's bookkeeping is forgotten, and of a *)
(* result only its check, its status and whether it was gated remain.      *)
(***************************************************************************)
Outcome == CASE pc = "validate" -> "planning"
             [] pc = "refused"  -> "refused"
             [] pc = "returned" -> "returned"
             [] OTHER           -> "running"

Verdict(r) == [id |-> r.id, status |-> r.status, gated |-> r.origin = "prerequisite"]

Contract == INSTANCE RunContract
              WITH outcome <- Outcome, verdicts <- {Verdict(r) : r \in Recorded}

\* Every behaviour of the engine is one the contract allows.
KeepsContract == Contract!ContractSpec
=============================================================================
