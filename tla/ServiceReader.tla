---------------------------- MODULE ServiceReader ----------------------------
(***************************************************************************)
(* The checks of one service (src/internal/collectors/services.go) under   *)
(* the engine.  Check 1 is the service's state; the others, its restart    *)
(* policy, user, group and capabilities, have it as prerequisite.  All     *)
(* share one serviceUnitReader, which caches what `systemctl show'         *)
(* printed; its cache is looked up and stored in two critical sections     *)
(* with the command in between.                                            *)
(*                                                                         *)
(* What systemctl prints are the properties of the unit, which is          *)
(* external: it can be restarted, edited and reloaded at any time.  The    *)
(* account tables are what the resolver has loaded, or empty ones if it    *)
(* could not.                                                              *)
(***************************************************************************)
EXTENDS Accounts, Systemctl, Capabilities

CONSTANTS
    Last,            \* the checks of the service are 1..Last
    Kind,            \* what each compares
    Declared,        \* what the contract says of it
    Passwd, Group,   \* the account tables
    Units,           \* the properties a unit may have
    OtherAnswers,    \* what systemctl show may answer instead
    StartFailures,   \* how systemctl may fail to start
    MaxChanges       \* bound: how often the unit changes

State == 1
Checks == 1..Last
Kinds == {"state", "restart", "run_as.user", "run_as.group", "capabilities"}
Errs == {"none", "ctx", "command", "notfound", "namespace", "permission", "parse", "other"}

ASSUME LastAssumption == Last \in Nat \ {0}
ASSUME KindAssumption == Kind \in [Checks -> Kinds] /\ Kind[State] = "state"
ASSUME DeclaredAssumption == DOMAIN Declared = Checks
ASSUME AnswersAssumption == \A a \in OtherAnswers : a.texts \subseteq Texts
ASSUME StartAssumption == StartFailures \subseteq {"other"}
ASSUME MaxChangesAssumption == MaxChanges \in Nat

VARIABLES
    turn,       \* the check the engine is settling; Last + 1 after the last
    ctx,        \* "live" or "ended": the context of each check
    results,    \* what the engine recorded for each check, or Nothing
    at,         \* where each check's goroutine is
    seen,       \* its copy of the unit reader's result
    hasCommand, \* an allowed systemctl was found when the checks were built
    cache,      \* the result cached for the service, or Nothing
    shows,      \* history: the checks that started systemctl
    unit,       \* external: the unit as systemd has it
    version     \* how often it has changed

engineVars == <<turn, ctx, results>>
unitVars == <<hasCommand, unit, version>>
vars == <<engineVars, at, seen, cache, shows, unitVars>>

Nothing == [none |-> TRUE]

\* serviceUnitResult, with (history) the version of the unit that was printed.
Printed == Units \union {a.properties : a \in OtherAnswers}
Failed(err) == [err |-> err, of |-> 0]
Observation == [err : Errs \ {"none"}, of : {0}]
               \union [err : {"none"}, of : 0..MaxChanges, properties : Printed]

\* Slip: the checks of a service do not wait for its state.
NeedsNothing(i) == {}

\* serviceCheck.Prerequisites.
Needs(i) == IF i = State THEN {} ELSE {State}

Passed(i) == results[i] # Nothing /\ results[i].verdict = "PASS"

\* runUser and runGroup: the name the check compares, or NoName.
ObservedName(i, p) ==
    IF Kind[i] = "run_as.user" THEN ObservedUser(Passwd, p["User"])
                               ELSE ObservedGroup(Passwd, Group, p["User"], p["Group"])

\* Slip: what systemctl prints is compared in its own spelling.
SameCapabilitiesAsSpelled(declared, tokens) ==
    SortCanonical(declared) = SortCanonical(tokens)

\* runCapabilities.
SameCapabilities(declared, tokens) == SortCanonical(declared) = NormalizeObserved(tokens)

PassIf(same) == IF same THEN "PASS" ELSE "FAIL"

\* runState and the others: check i on the properties of a unit.
Judgement(i, p) ==
    CASE Kind[i] = "state" -> PassIf(p["ActiveState"] = Declared[i])
      [] Kind[i] = "restart" -> PassIf(p["Restart"] = Declared[i])
      [] Kind[i] = "capabilities" ->
           PassIf(SameCapabilities(Declared[i], p["AmbientCapabilities"]))
      [] Kind[i] \in {"run_as.user", "run_as.group"} ->
           IF ObservedName(i, p) = NoName THEN "INSUFFICIENT_DATA/PARSE_ERROR"
                                          ELSE PassIf(ObservedName(i, p) = Declared[i])

\* serviceCheck.Run: what check i answers to what the reader returned.
Verdict(i, o) ==
    CASE o.err = "none" -> Judgement(i, o.properties)
      [] o.err = "ctx" -> "ERROR/TIMEOUT"
      [] o.err = "notfound" -> "FAIL/NOT_FOUND"
      [] o.err = "namespace" -> "ERROR/NAMESPACE_ISOLATION"
      [] o.err = "permission" -> "ERROR/PERMISSION_DENIED"
      [] o.err = "command" -> "ERROR"
      [] o.err \in {"parse", "other"} -> "ERROR/PARSE_ERROR"

AllVerdicts == {"PASS", "FAIL", "FAIL/NOT_FOUND", "ERROR", "ERROR/TIMEOUT",
                "ERROR/NAMESPACE_ISOLATION", "ERROR/PERMISSION_DENIED",
                "ERROR/PARSE_ERROR", "INSUFFICIENT_DATA/PARSE_ERROR", "GATED"}

-----------------------------------------------------------------------------
Init ==
    /\ turn = 1
    /\ ctx = [i \in Checks |-> "live"]
    /\ results = [i \in Checks |-> Nothing]
    /\ at = [i \in Checks |-> "idle"]
    /\ seen = [i \in Checks |-> Nothing]
    /\ hasCommand \in BOOLEAN
    /\ cache = Nothing
    /\ shows = {}
    /\ unit \in Units
    /\ version = 0

Record(verdict, on) ==
    /\ results' = [results EXCEPT ![turn] = [verdict |-> verdict, on |-> on]]
    /\ turn' = turn + 1
    /\ UNCHANGED <<ctx, at, seen, cache, shows, unitVars>>

\* engine.Run: a check whose prerequisite did not pass is settled without running.
Block ==
    /\ turn \in Checks
    /\ at[turn] = "idle"
    /\ \E p \in Needs(turn) : ~Passed(p)
    /\ Record("GATED", Nothing)

\* engine.runCheck starts the goroutine of the check.
Launch ==
    /\ turn \in Checks
    /\ at[turn] = "idle"
    /\ \A p \in Needs(turn) : Passed(p)
    /\ at' = [at EXCEPT ![turn] = "run"]
    /\ UNCHANGED <<engineVars, seen, cache, shows, unitVars>>

\* The collector timeout of the check in progress fires.
Expire ==
    /\ turn \in Checks
    /\ ctx[turn] = "live"
    /\ ctx' = [ctx EXCEPT ![turn] = "ended"]
    /\ UNCHANGED <<turn, results, at, seen, cache, shows, unitVars>>

TakeResult ==
    /\ turn \in Checks
    /\ at[turn] = "done"
    /\ Record(Verdict(turn, seen[turn]), seen[turn])

StopWaiting ==
    /\ turn \in Checks
    /\ at[turn] # "idle"
    /\ ctx[turn] = "ended"
    /\ Record("ERROR/TIMEOUT", Nothing)

-----------------------------------------------------------------------------
Go(i, where) == at' = [at EXCEPT ![i] = where]
See(i, o) == seen' = [seen EXCEPT ![i] = o]

\* serviceCheck.Run's first test.
Begin(i) ==
    /\ at[i] = "run"
    /\ IF ctx[i] = "ended" THEN Go(i, "done") /\ See(i, Failed("ctx"))
                           ELSE Go(i, "lookup") /\ UNCHANGED seen
    /\ UNCHANGED <<engineVars, cache, shows, unitVars>>

\* Slip: what an earlier check left in the cache is not used.
LookInCacheNever(i) ==
    /\ at[i] = "lookup"
    /\ Go(i, "show")
    /\ UNCHANGED <<engineVars, seen, cache, shows, unitVars>>

\* serviceUnitReader.Read up to the call of the runner.
LookInCache(i) ==
    /\ at[i] = "lookup"
    /\ \/ cache # Nothing /\ Go(i, "done") /\ See(i, cache)
       \/ cache = Nothing /\ hasCommand /\ Go(i, "show") /\ UNCHANGED seen
       \/ cache = Nothing /\ ~hasCommand /\ Go(i, "store") /\ See(i, Failed("command"))
    /\ UNCHANGED <<engineVars, cache, shows, unitVars>>

\* exec.Cmd.Start refuses when the context has ended already, or fails.
StartShow(i) ==
    /\ at[i] = "show"
    /\ \/ ctx[i] = "ended" /\ Go(i, "store") /\ See(i, Failed("ctx")) /\ UNCHANGED shows
       \/ /\ ctx[i] = "live"
          /\ \/ Go(i, "showing") /\ shows' = shows \union {i} /\ UNCHANGED seen
             \/ \E e \in StartFailures :
                  Go(i, "store") /\ See(i, Failed(e)) /\ UNCHANGED shows
    /\ UNCHANGED <<engineVars, cache, unitVars>>

\* What Read makes of an answer.
Inspected(a) ==
    LET err == ReadError(a, ParseSystemctlShow(a))
    IN IF err = "none" THEN [err |-> "none", of |-> version, properties |-> a.properties]
                       ELSE Failed(err)

\* systemctl answers with the unit as it is, or otherwise.
EndShow(i) ==
    /\ at[i] = "showing"
    /\ Go(i, "store")
    /\ \E a \in {Answer("zero", unit)} \union OtherAnswers : See(i, Inspected(a))
    /\ UNCHANGED <<engineVars, cache, shows, unitVars>>

\* The context ends first and systemctl is killed, before or after it printed:
\* exec reports a failed exit, or the context's own error.
KillShow(i) ==
    /\ at[i] = "showing"
    /\ ctx[i] = "ended"
    /\ Go(i, "store")
    /\ \/ See(i, Failed("ctx"))
       \/ \E a \in {Silent, Answer("killed", unit)} :
            See(i, Failed(MapSystemctlFailure(a)))
    /\ UNCHANGED <<engineVars, cache, shows, unitVars>>

\* Slip: the answer is given before it is cached.
StoreLate(i) ==
    /\ at[i] = "store"
    /\ Go(i, "done")
    /\ UNCHANGED <<engineVars, seen, cache, shows, unitVars>>

\* serviceUnitReader.store, and Read returns.
Store(i) ==
    /\ at[i] = "store"
    /\ cache' = seen[i]
    /\ Go(i, "done")
    /\ UNCHANGED <<engineVars, seen, shows, unitVars>>

Worker(i) == \/ Begin(i) \/ LookInCache(i) \/ StartShow(i) \/ EndShow(i)
             \/ KillShow(i) \/ Store(i)

\* External: the unit changes while it is observed.
Change ==
    /\ version < MaxChanges
    /\ version' = version + 1
    /\ unit' \in Units \ {unit}
    /\ UNCHANGED <<engineVars, at, seen, cache, shows, hasCommand>>

\* Once the last check is settled nothing the goroutines do is seen any more.
Next == \/ Block \/ Launch \/ Expire \/ TakeResult \/ StopWaiting
        \/ turn \in Checks /\ ((\E i \in Checks : Worker(i)) \/ Change)

Spec == Init /\ [][Next]_vars

-----------------------------------------------------------------------------
Places == {"idle", "run", "lookup", "show", "showing", "store", "done"}

TypeOK ==
    /\ turn \in 1..(Last + 1)
    /\ ctx \in [Checks -> {"live", "ended"}]
    /\ results \in [Checks -> [verdict : AllVerdicts, on : Observation \union {Nothing}]
                              \union {Nothing}]
    /\ at \in [Checks -> Places]
    /\ seen \in [Checks -> Observation \union {Nothing}]
    /\ hasCommand \in BOOLEAN
    /\ cache \in Observation \union {Nothing}
    /\ shows \subseteq Checks
    /\ unit \in Units
    /\ version \in 0..MaxChanges

Evaluated(i) == results[i] # Nothing /\ results[i].verdict \in {"PASS", "FAIL"}

(***************************************************************************)
(* Whatever deadlines fire and however the unit changes meanwhile, all the *)
(* checks of a service that pass or fail are judged on one snapshot of it. *)
(***************************************************************************)
OneSnapshot ==
    \A i, j \in Checks : Evaluated(i) /\ Evaluated(j) => results[i].on = results[j].on

(***************************************************************************)
(* systemctl is started for a service once at most, by its state check: a  *)
(* check that times out is never asked again on behalf of another.         *)
(***************************************************************************)
OneShow == shows \subseteq {State}

(***************************************************************************)
(* What is cached for a service stays as it is, although nothing in store  *)
(* looks at what it overwrites.                                            *)
(***************************************************************************)
CacheWrittenOnce == [][cache # Nothing => UNCHANGED cache]_vars

(***************************************************************************)
(* A check other than the state is reported as timed out only if its own   *)
(* deadline fired: no error of the state check's context is handed down.   *)
(***************************************************************************)
TimeoutIsOwn ==
    \A i \in Checks : results[i] # Nothing /\ results[i].verdict = "ERROR/TIMEOUT" =>
      ctx[i] = "ended"

-----------------------------------------------------------------------------
(***************************************************************************)
(* The contract and systemctl name capabilities in different orders and    *)
(* spellings.  A capabilities check passes only on the very set the        *)
(* contract declares, and fails on it only if one of the lists repeats a   *)
(* name.                                                                   *)
(***************************************************************************)
CapabilitiesAreSets ==
    \A i \in Checks : Evaluated(i) /\ Kind[i] = "capabilities" =>
      LET tokens == results[i].on.properties["AmbientCapabilities"]
          names == [k \in DOMAIN tokens |-> CanonicalizeToken(tokens[k])]
      IN /\ results[i].verdict = "PASS" => NamesOn(names) = NamesOn(Declared[i])
         /\ /\ NamesOn(names) = NamesOn(Declared[i])
            /\ RepeatsNothing(names) /\ RepeatsNothing(Declared[i])
            => results[i].verdict = "PASS"

(***************************************************************************)
(* Why it is so, as an inductive invariant.  Only the state check ever     *)
(* stores, because the others start after it has passed, which it does on  *)
(* what it stored.                                                         *)
(***************************************************************************)
TurnInv ==
    \A i \in Checks : /\ results[i] # Nothing => i < turn
                      /\ at[i] # "idle" => i <= turn

StateInv ==
    /\ cache # Nothing => at[State] = "done"
    /\ at[State] = "done" /\ seen[State].err # "ctx" => cache = seen[State]
    /\ Passed(State) => at[State] = "done" /\ cache # Nothing /\ cache.err = "none"

SiblingInv ==
    \A i \in Checks \ {State} :
      /\ at[i] \in {"idle", "run", "lookup", "done"}
      /\ at[i] # "idle" => Passed(State)
      /\ at[i] = "done" => seen[i] \in {cache, Failed("ctx")}

AnswerInv ==
    \A i \in Checks :
      /\ at[i] \in {"store", "done"} => seen[i] # Nothing
      /\ seen[i] # Nothing /\ seen[i].err = "ctx" => ctx[i] = "ended"
      /\ Evaluated(i) => /\ at[i] = "done" /\ cache # Nothing /\ results[i].on = cache
                         /\ results[i].verdict = Verdict(i, cache)

CoreInv == /\ TypeOK /\ TurnInv /\ StateInv /\ SiblingInv /\ AnswerInv
           /\ OneShow /\ TimeoutIsOwn

ReaderInv == CoreInv /\ CapabilitiesAreSets
=============================================================================
