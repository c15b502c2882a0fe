--------------------------- MODULE IdentityObserver ---------------------------
(***************************************************************************)
(* The identity checks of one service (src/internal/collectors/identity.go)*)
(* under the engine.  The checks of a service share two caches: that of    *)
(* serviceMainPIDReader, what systemctl said, and that of                  *)
(* runtimeIdentityObserver, what was then read under /proc.  Each is       *)
(* looked up and stored in a critical section of its own, and nothing is   *)
(* held in between, so a check the engine gave up on works on beside the   *)
(* ones that follow it, and both fill the caches.                          *)
(*                                                                         *)
(* The checks of the service are 1..Siblings in the order they run; each   *)
(* compares one field of the status file.  The host is external: processes *)
(* start, exit, change credentials, PIDs are reused.                       *)
(***************************************************************************)
EXTENDS ProcessStatus, Systemctl

CONSTANTS
    Siblings,      \* how many checks the contract asks of the service
    Kind,          \* what each compares
    Declared,      \* what the contract says of it
    Pids,          \* the process IDs of the host
    Credentials,   \* what a process may run as
    OtherStatus,   \* what the kernel may show of it instead
    StatusFile,    \* the status file of each of these
    OtherCgroups,  \* and for a cgroup file
    OtherAnswers,  \* what systemctl show may answer instead of the service's process
    StartFailures, \* how systemctl may fail to start
    ProcFailures,  \* how reading a file of a live process may fail
    MaxChanges,    \* bound: how often the host changes
    MaxEvents      \* bound: how often it changes or a deadline fires

Checks == 1..Siblings
NoPid == 0
Errs == {"none", "ctx", "command", "notfound", "namespace", "permission", "parse",
         "mainpid", "process", "provenance", "gone", "other"}

ASSUME SiblingsAssumption == Siblings \in Nat \ {0}
ASSUME PidsAssumption == Pids \subseteq Nat \ {NoPid}
ASSUME KindAssumption == DOMAIN Kind = Checks /\ DOMAIN Declared = Checks
\* What is not the service's process is taken for none.
ASSUME AnswersAssumption ==
    \A a \in OtherAnswers : /\ a.texts \subseteq Texts /\ a.exit \in {"zero", "nonzero"}
                             /\ ReadError(a, ParseSystemctlMainPID(a)) # "none"
ASSUME FailuresAssumption ==
    /\ StartFailures \subseteq {"gone", "permission", "other"}
    /\ ProcFailures \subseteq {"permission", "other"}
ASSUME CredentialsAssumption ==
    /\ DOMAIN StatusFile = Credentials \union OtherStatus
    /\ \A as \in Credentials : ParsesProcessStatus(StatusFile[as])
ASSUME MaxChangesAssumption == MaxChanges \in Nat
ASSUME MaxEventsAssumption == MaxEvents \in Nat

VARIABLES
    turn,       \* the check the engine is settling; Siblings + 1 after the last
    ctx,        \* "live" or "ended": the context of each check
    at,         \* where each check's goroutine is
    hasCommand, \* an allowed systemctl was found when the checks were built
    seen,       \* its copy of the observation, the PID lookup included
    pidCache,   \* the lookup cached for the service, or Nothing
    cache,      \* the observation cached for the service, or Nothing
    results,    \* what the engine recorded for each check, or Nothing
    worked,     \* history: the checks that ran systemctl or opened /proc themselves
    host,       \* external: the process of each PID, or Nothing
    mainPid,    \* external: the service's main process
    changes     \* how often the host has changed

engineVars == <<turn, ctx, results>>
workerVars == <<at, seen, pidCache, cache, worked>>
hostVars == <<host, mainPid, changes>>
vars == <<engineVars, workerVars, hostVars, hasCommand>>

Nothing == [none |-> TRUE]

OwnGroup == "own"
OtherGroup == "other"

\* What the kernel may show of another process is not the service's group.
ASSUME CgroupsAssumption ==
    \A paths \in OtherCgroups : ParsesProcessCgroups(paths) => OwnGroup \notin NamesOn(paths)

\* A process: whether it is in the service's control group, its credentials,
\* and (history) which of the processes that ever had its PID it is.
Process == [unit : BOOLEAN, as : Credentials \union OtherStatus, birth : 0..MaxChanges]

CgroupFile(p) == IF p.unit THEN <<OtherGroup, OwnGroup>> ELSE <<OtherGroup>>

\* serviceMainPIDResult.  The exit status is "killed" when the context ended
\* first: exec reports -1 then; "unrun" stands for no exit status at all.
Exits == {"unrun", "zero", "nonzero", "killed"}
Lookup == {l \in [pid : Pids \union {NoPid}, exit : Exits, err : Errs] :
             /\ l.err = "none" <=> l.pid \in Pids
             /\ l.err = "none" => l.exit = "zero"}

\* runtimeIdentityObservation: the lookup, the process the status file was read
\* from and the one the cgroup file was read from.
Observation == [lookup : Lookup, status : Process \union {Nothing},
                cgroup : Process \union {Nothing}, err : Errs]

Failed(err, exit) == [pid |-> NoPid, exit |-> exit, err |-> err]
Seen(l, status, cgroup, err) ==
    [lookup |-> l, status |-> status, cgroup |-> cgroup, err |-> err]

\* The field of a status file that a check of each kind looks at.
Field(kind) ==
    CASE kind = "uid" -> "Uid"
      [] kind = "gid" -> "Gid"
      [] kind = "capabilities.effective" -> "CapEff"
      [] kind = "capabilities.permitted" -> "CapPrm"
      [] kind = "capabilities.inheritable" -> "CapInh"
      [] kind = "capabilities.bounding" -> "CapBnd"
      [] kind = "capabilities.ambient" -> "CapAmb"

\* runUID, runGID and runCapabilities: the check's field is what the contract declares.
Matches(i, file) ==
    LET value == file[Field(Kind[i])]
    IN IF Kind[i] \in {"uid", "gid"}
       THEN ParseEffectiveID(value) = Declared[i]
       ELSE SortCanonical(Declared[i]) = ParseCapabilityMask(value)

\* Slip: what Run has no case for passes for a timeout.
VerdictDefaultsToTimeout(i, o) ==
    CASE o.err = "none" -> IF Matches(i, StatusFile[o.status.as]) THEN "PASS" ELSE "FAIL"
      [] o.err = "namespace" -> "ERROR/NAMESPACE_ISOLATION"
      [] o.err = "permission" -> "ERROR/PERMISSION_DENIED"
      [] o.err = "command" -> "ERROR"
      [] o.err \in {"mainpid", "process"} -> "INSUFFICIENT_DATA/PARSE_ERROR"
      [] o.err \in {"provenance", "gone"} -> "INSUFFICIENT_DATA"
      [] o.err \in {"ctx", "parse", "notfound", "other"} -> "ERROR/TIMEOUT"

\* identityCheck.Run: what check i answers to an observation.
Verdict(i, o) ==
    CASE o.err = "none" -> IF Matches(i, StatusFile[o.status.as]) THEN "PASS" ELSE "FAIL"
      [] o.err = "ctx" -> "ERROR/TIMEOUT"
      [] o.err = "namespace" -> "ERROR/NAMESPACE_ISOLATION"
      [] o.err = "permission" -> "ERROR/PERMISSION_DENIED"
      [] o.err = "command" -> "ERROR"
      [] o.err \in {"mainpid", "process"} -> "INSUFFICIENT_DATA/PARSE_ERROR"
      [] o.err \in {"provenance", "gone"} -> "INSUFFICIENT_DATA"
      [] o.err \in {"parse", "notfound", "other"} -> "ERROR/PARSE_ERROR"

\* Slip: the observation is accepted whatever control group the process is in.
CheckedNever(l, status, cgroup, paths) ==
    IF ~ParsesProcessStatus(StatusFile[status.as]) \/ ~ParsesProcessCgroups(paths)
    THEN Seen(l, Nothing, Nothing, "process")
    ELSE Seen(l, status, cgroup, "none")

\* What is made of both files: the parsers, then the service's own control group.
Checked(l, status, cgroup, paths) ==
    IF ~ParsesProcessStatus(StatusFile[status.as]) \/ ~ParsesProcessCgroups(paths)
    THEN Seen(l, Nothing, Nothing, "process")
    ELSE Seen(l, status, cgroup,
              IF CgroupsContain(paths, OwnGroup) THEN "none" ELSE "provenance")

-----------------------------------------------------------------------------
Init ==
    /\ hasCommand \in BOOLEAN
    /\ turn = 1
    /\ ctx = [i \in Checks |-> "live"]
    /\ at = [i \in Checks |-> "idle"]
    /\ seen = [i \in Checks |-> Nothing]
    /\ pidCache = Nothing
    /\ cache = Nothing
    /\ results = [i \in Checks |-> Nothing]
    /\ worked = {}
    /\ \E p \in Pids :
         /\ mainPid = p
         /\ \E as \in Credentials :
              host = [q \in Pids |-> IF q = p THEN [unit |-> TRUE, as |-> as, birth |-> 0]
                                              ELSE Nothing]
    /\ changes = 0

\* engine.runCheck starts the goroutine of the next check.
Launch ==
    /\ turn \in Checks
    /\ at[turn] = "idle"
    /\ at' = [at EXCEPT ![turn] = "run"]
    /\ UNCHANGED <<engineVars, seen, pidCache, cache, worked, hostVars, hasCommand>>

\* A bound, and no rule of the program: what happens to the checks from outside.
MayHappen == changes + Cardinality({i \in Checks : ctx[i] = "ended"}) < MaxEvents

\* The collector timeout of the check in progress fires.
Expire ==
    /\ MayHappen
    /\ turn \in Checks
    /\ ctx[turn] = "live"
    /\ ctx' = [ctx EXCEPT ![turn] = "ended"]
    /\ UNCHANGED <<turn, results, workerVars, hostVars, hasCommand>>

Record(verdict, by, on) ==
    /\ results' = [results EXCEPT ![turn] = [verdict |-> verdict, by |-> by, on |-> on]]
    /\ turn' = turn + 1
    /\ UNCHANGED <<ctx, workerVars, hostVars, hasCommand>>

TakeResult ==
    /\ turn \in Checks
    /\ at[turn] = "done"
    /\ Record(Verdict(turn, seen[turn]), "check", seen[turn])

StopWaiting ==
    /\ turn \in Checks
    /\ at[turn] # "idle"
    /\ ctx[turn] = "ended"
    /\ Record("ERROR/TIMEOUT", "engine", Nothing)

-----------------------------------------------------------------------------
Go(i, where) == at' = [at EXCEPT ![i] = where]
See(i, o) == seen' = [seen EXCEPT ![i] = o]

\* What the PID lookup alone makes of an observation.
Look(i, l) == See(i, Seen(l, Nothing, Nothing, l.err))

\* identityCheck.Run's first test, then the observer's cache.
Begin(i) ==
    /\ at[i] = "run"
    /\ IF ctx[i] = "ended"
       THEN Go(i, "done") /\ Look(i, Failed("ctx", "unrun"))
       ELSE Go(i, "lookup") /\ UNCHANGED seen
    /\ UNCHANGED <<engineVars, pidCache, cache, worked, hostVars, hasCommand>>

\* Slip: every check observes for itself.
LookInCacheNever(i) ==
    /\ at[i] = "lookup"
    /\ Go(i, "pidLookup")
    /\ UNCHANGED <<engineVars, seen, pidCache, cache, worked, hostVars, hasCommand>>

\* runtimeIdentityObserver.Read up to the first Unlock.
LookInCache(i) ==
    /\ at[i] = "lookup"
    /\ IF cache # Nothing THEN Go(i, "done") /\ See(i, cache)
                          ELSE Go(i, "pidLookup") /\ UNCHANGED seen
    /\ UNCHANGED <<engineVars, pidCache, cache, worked, hostVars, hasCommand>>

\* What follows a lookup: /proc is read, or the lookup's error is the observation's.
Use(i, l) ==
    /\ Look(i, l)
    /\ Go(i, IF l.err = "none" THEN "status" ELSE "store")

\* serviceMainPIDReader.Read up to the call of the runner.
LookInPidCache(i) ==
    /\ at[i] = "pidLookup"
    /\ \/ pidCache # Nothing /\ Use(i, pidCache)
       \/ pidCache = Nothing /\ hasCommand /\ Go(i, "show") /\ UNCHANGED seen
       \/ /\ pidCache = Nothing /\ ~hasCommand
          /\ Go(i, "storePid") /\ Look(i, Failed("command", "unrun"))
    /\ UNCHANGED <<engineVars, pidCache, cache, worked, hostVars, hasCommand>>

\* exec.Cmd.Start refuses when the context has ended already, or fails.
StartShow(i) ==
    /\ at[i] = "show"
    /\ \/ /\ ctx[i] = "ended"
          /\ Go(i, "storePid") /\ Look(i, Failed("ctx", "unrun")) /\ UNCHANGED worked
       \/ /\ ctx[i] = "live"
          /\ worked' = worked \union {i}
          /\ \/ Go(i, "showing") /\ UNCHANGED seen
             \/ \E e \in StartFailures : Go(i, "storePid") /\ Look(i, Failed(e, "unrun"))
    /\ UNCHANGED <<engineVars, pidCache, cache, hostVars, hasCommand>>

\* What systemctl says of the service: without a main process MainPID is 0.
ServiceAnswer(exit) ==
    Answer(exit, [LoadState |-> "loaded", MainPID |-> mainPid,
                  ControlGroup |-> IF mainPid = NoPid THEN "" ELSE OwnGroup])

\* What Read makes of an answer.
Looked(a) ==
    LET err == ReadError(a, ParseSystemctlMainPID(a))
    IN IF err = "none" THEN [pid |-> a.properties["MainPID"], exit |-> "zero", err |-> "none"]
                       ELSE Failed(err, a.exit)

\* systemctl answers with the service as it is, or otherwise.
EndShow(i) ==
    /\ at[i] = "showing"
    /\ Go(i, "storePid")
    /\ \E a \in {ServiceAnswer("zero")} \union OtherAnswers : Look(i, Looked(a))
    /\ UNCHANGED <<engineVars, pidCache, cache, worked, hostVars, hasCommand>>

\* The context ends first and systemctl is killed.  exec then reports the exit
\* status of the killed process, or the context's own error if it was about to
\* end well.
KillShow(i) ==
    /\ at[i] = "showing"
    /\ ctx[i] = "ended"
    /\ Go(i, "storePid")
    /\ \/ \E a \in {Silent, ServiceAnswer("killed")} : Look(i, Looked(a))
       \/ Look(i, Failed("ctx", "zero"))
    /\ UNCHANGED <<engineVars, pidCache, cache, worked, hostVars, hasCommand>>

\* serviceMainPIDReader.store: the last writer wins.
StorePid(i) ==
    /\ at[i] = "storePid"
    /\ pidCache' = seen[i].lookup
    /\ Use(i, seen[i].lookup)
    /\ UNCHANGED <<engineVars, cache, worked, hostVars, hasCommand>>

Unread(i, err) == Go(i, "store") /\ See(i, Seen(seen[i].lookup, Nothing, Nothing, err))

\* OSProcessReader.ReadStatus: the context, then the status file.
ReadStatus(i) ==
    /\ at[i] = "status"
    /\ worked' = IF ctx[i] = "live" THEN worked \union {i} ELSE worked
    /\ LET process == host[seen[i].lookup.pid] IN
       \/ ctx[i] = "ended" /\ Unread(i, "ctx")
       \/ ctx[i] = "live" /\ process = Nothing /\ Unread(i, "gone")
       \/ /\ ctx[i] = "live" /\ process # Nothing
          /\ \/ \E e \in ProcFailures : Unread(i, e)
             \/ \E as \in {process.as} \union OtherStatus :
                  /\ Go(i, "cgroup")
                  /\ See(i, Seen(seen[i].lookup, [process EXCEPT !.as = as], Nothing, "none"))
    /\ UNCHANGED <<engineVars, pidCache, cache, hostVars, hasCommand>>

\* Then the cgroup file, of whatever process has the PID by now, and the parsers.
ReadCgroup(i) ==
    /\ at[i] = "cgroup"
    /\ LET process == host[seen[i].lookup.pid] IN
       \/ process = Nothing /\ Unread(i, "gone")
       \/ /\ process # Nothing
          /\ \/ \E e \in ProcFailures : Unread(i, e)
             \/ \E paths \in {CgroupFile(process)} \union OtherCgroups :
                  /\ Go(i, "store")
                  /\ See(i, Checked(seen[i].lookup, seen[i].status, process, paths))
    /\ UNCHANGED <<engineVars, pidCache, cache, worked, hostVars, hasCommand>>

\* Slip: failures are not cached.
StoreOnlyGood(i) ==
    /\ at[i] = "store"
    /\ cache' = IF seen[i].err = "none" THEN seen[i] ELSE cache
    /\ Go(i, "done")
    /\ UNCHANGED <<engineVars, seen, pidCache, worked, hostVars, hasCommand>>

\* runtimeIdentityObserver.store, and Run returns.
Store(i) ==
    /\ at[i] = "store"
    /\ cache' = seen[i]
    /\ Go(i, "done")
    /\ UNCHANGED <<engineVars, seen, pidCache, worked, hostVars, hasCommand>>

Worker(i) == \/ Begin(i) \/ LookInCache(i) \/ LookInPidCache(i) \/ StartShow(i)
             \/ EndShow(i) \/ KillShow(i) \/ StorePid(i) \/ ReadStatus(i)
             \/ ReadCgroup(i) \/ Store(i)

-----------------------------------------------------------------------------
\* External: the host goes on while it is observed.
Change == MayHappen /\ changes < MaxChanges /\ changes' = changes + 1
          /\ UNCHANGED <<engineVars, workerVars, hasCommand>>

Exit(p) ==
    /\ host[p] # Nothing
    /\ host' = [host EXCEPT ![p] = Nothing]
    /\ mainPid' = IF mainPid = p THEN NoPid ELSE mainPid
    /\ Change

\* A process gets a free PID; systemd starts the service, or anyone else.
Spawn(p) ==
    /\ host[p] = Nothing
    /\ \E unit \in BOOLEAN, as \in Credentials :
         /\ unit => mainPid = NoPid
         /\ host' = [host EXCEPT ![p] = [unit |-> unit, as |-> as, birth |-> changes + 1]]
         /\ mainPid' = IF unit THEN p ELSE mainPid
    /\ Change

SetCredentials(p) ==
    /\ host[p] # Nothing
    /\ \E as \in Credentials \ {host[p].as} : host' = [host EXCEPT ![p].as = as]
    /\ UNCHANGED mainPid
    /\ Change

Host == \E p \in Pids : Exit(p) \/ Spawn(p) \/ SetCredentials(p)

\* Once the last check is settled nothing the goroutines do is seen any more.
Next == \/ Launch \/ Expire \/ TakeResult \/ StopWaiting
        \/ turn \in Checks /\ ((\E i \in Checks : Worker(i)) \/ Host)

Spec == Init /\ [][Next]_vars

-----------------------------------------------------------------------------
Verdicts == {"PASS", "FAIL", "ERROR", "ERROR/TIMEOUT", "ERROR/NAMESPACE_ISOLATION",
             "ERROR/PERMISSION_DENIED", "ERROR/PARSE_ERROR", "INSUFFICIENT_DATA",
             "INSUFFICIENT_DATA/PARSE_ERROR"}
Places == {"idle", "run", "lookup", "pidLookup", "show", "showing", "storePid",
           "status", "cgroup", "store", "done"}

TypeOK ==
    /\ hasCommand \in BOOLEAN
    /\ turn \in 1..(Siblings + 1)
    /\ ctx \in [Checks -> {"live", "ended"}]
    /\ at \in [Checks -> Places]
    /\ seen \in [Checks -> Observation \union {Nothing}]
    /\ pidCache \in Lookup \union {Nothing}
    /\ cache \in Observation \union {Nothing}
    /\ results \in [Checks -> [verdict : Verdicts, by : {"check", "engine"},
                                on : Observation \union {Nothing}] \union {Nothing}]
    /\ worked \subseteq Checks
    /\ host \in [Pids -> Process \union {Nothing}]
    /\ mainPid \in Pids \union {NoPid}
    /\ changes \in 0..MaxChanges

Settled(i) == results[i] # Nothing
Answered(i) == Settled(i) /\ results[i].by = "check"
Abandoned(i) == Settled(i) /\ results[i].by = "engine"
NoTimeout == \A i \in Checks : ctx[i] = "live"

\* What the contract asks of check i, of the process whose status file it is:
\* its effective id, or the very set of capabilities.
HasCredential(i, file) ==
    LET value == file[Field(Kind[i])]
    IN IF Kind[i] \in {"uid", "gid"} THEN value[2] = Declared[i]
       ELSE NamesOn(Declared[i]) = {LinuxCapabilityName(b) : b \in value}

(***************************************************************************)
(* A check passes or fails only on a process that was in the service's     *)
(* control group when its cgroup file was read; its credentials are those  *)
(* of that process, unless the PID changed hands between the two files,    *)
(* which nothing in the code can see.  It passes only if the process has   *)
(* the credential, and fails on one that has it only if the contract names *)
(* a capability twice.                                                     *)
(***************************************************************************)
VerdictIsGrounded ==
    \A i \in Checks : Settled(i) /\ results[i].verdict \in {"PASS", "FAIL"} =>
      LET o == results[i].on
          has == HasCredential(i, StatusFile[o.status.as])
      IN /\ o.lookup.err = "none" /\ o.lookup.exit = "zero"
         /\ o.cgroup.unit
         /\ o.status.birth = o.cgroup.birth => o.status.unit
         /\ results[i].verdict = "PASS" => has
         /\ has /\ (Kind[i] \in {"uid", "gid"} \/ RepeatsNothing(Declared[i])) =>
              results[i].verdict = "PASS"

(***************************************************************************)
(* Of the checks the engine took an answer from, or is still waiting for,  *)
(* at most one ran systemctl or read /proc: the others were answered from  *)
(* the caches.  (identity_test.go counts one call of each.)                *)
(***************************************************************************)
WorkIsShared ==
    \A i, j \in worked : ~Abandoned(i) /\ ~Abandoned(j) => i = j

(***************************************************************************)
(* As long as no deadline fires, every check of the service is judged on   *)
(* one and the same observation, a failed one included.                    *)
(***************************************************************************)
OneObservation ==
    NoTimeout => \A i, j \in Checks :
                   Answered(i) /\ Answered(j) => results[i].on = results[j].on

(***************************************************************************)
(* A check is reported as timed out only if a deadline did fire, its own   *)
(* or that of a check before it.                                           *)
(***************************************************************************)
TimeoutHasACause ==
    \A i \in Checks : Settled(i) /\ results[i].verdict = "ERROR/TIMEOUT" =>
      \E j \in 1..i : ctx[j] = "ended"

(***************************************************************************)
(* Why these hold, as an inductive invariant.  What is on record was seen  *)
(* by a check that is over; what is seen, stored and cached is grounded;   *)
(* a check that starts after another one has worked and answered finds the *)
(* cache filled; and without a timeout one check at a time is at work.     *)
(***************************************************************************)
TurnInv ==
    \A i \in Checks :
      /\ Settled(i) <=> i < turn
      /\ at[i] # "idle" \/ ctx[i] = "ended" => i <= turn
      /\ Answered(i) => /\ at[i] = "done" /\ results[i].on = seen[i]
                        /\ results[i].verdict = Verdict(i, seen[i])
      /\ Abandoned(i) => ctx[i] = "ended" /\ results[i].verdict = "ERROR/TIMEOUT"

Grounded(o) == /\ o.lookup.err = "none" /\ o.status # Nothing
               /\ o.cgroup # Nothing /\ o.cgroup.unit
               /\ o.status.birth = o.cgroup.birth => o.status.unit

\* Whatever process has the PID by now, if it is the one seen it is of the same group.
SameProcess(o) ==
    LET process == host[o.lookup.pid] IN
      /\ o.lookup.err = "none" /\ o.status # Nothing /\ o.status.birth <= changes
      /\ process # Nothing /\ process.birth = o.status.birth => process.unit = o.status.unit

PlaceInv ==
    /\ \A p \in Pids : host[p] # Nothing => host[p].birth <= changes
    /\ cache # Nothing /\ cache.err = "none" => Grounded(cache)
    /\ \A i \in Checks :
         /\ at[i] \in {"storePid", "status", "cgroup", "store", "done"} => seen[i] # Nothing
         /\ at[i] = "status" => seen[i].lookup.err = "none"
         /\ at[i] = "cgroup" => SameProcess(seen[i])
         /\ at[i] \in {"store", "done"} /\ seen[i].err = "none" => Grounded(seen[i])

SharingInv ==
    /\ \A i \in worked :
         /\ at[i] \in {"showing", "storePid", "status", "cgroup", "store", "done"}
         /\ at[i] = "done" => cache # Nothing
    /\ \A i, j \in Checks : i \in worked /\ ~Abandoned(i) /\ i < j =>
         j \notin worked /\ at[j] \in {"idle", "run", "lookup", "done"}

OfContext(o) == o # Nothing /\ "ctx" \in {o.err, o.lookup.err}

TimelyInv ==
    NoTimeout =>
      /\ ~OfContext(cache) /\ (pidCache # Nothing => pidCache.err # "ctx")
      /\ \A i \in Checks :
           /\ ~OfContext(seen[i])
           /\ at[i] = "done" => cache # Nothing /\ seen[i] = cache
           /\ at[i] \notin {"idle", "run", "lookup", "done"} => cache = Nothing

ObserverInv ==
    /\ TypeOK /\ TurnInv /\ PlaceInv /\ SharingInv /\ TimelyInv /\ TimeoutHasACause

(***************************************************************************)
(* savk-blueprint.md, of TIMEOUT: the collector went past the deadline of  *)
(* its context.  The error of a context is cached with the observation,    *)
(* and answers the checks that come after it.                              *)
(***************************************************************************)
TimeoutIsOwn ==
    \A i \in Checks : Settled(i) /\ results[i].verdict = "ERROR/TIMEOUT" =>
      ctx[i] = "ended"

(***************************************************************************)
(* savk-blueprint.md, of PARSE_ERROR: the system's output could not be     *)
(* interpreted.  A systemctl killed at the deadline of one check has given *)
(* none, and yet answers the checks after it, whose own deadline never     *)
(* fired.                                                                  *)
(***************************************************************************)
ParseErrorHasOutput ==
    \A i \in Checks :
      Settled(i) /\ ctx[i] = "live" /\ results[i].verdict \in {"ERROR/PARSE_ERROR",
                                            "INSUFFICIENT_DATA/PARSE_ERROR"} =>
        results[i].on.lookup.exit \in {"zero", "nonzero"}
=============================================================================
