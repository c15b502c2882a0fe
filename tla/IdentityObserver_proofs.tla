------------------------ MODULE IdentityObserver_proofs ------------------------
(***************************************************************************)
(* IdentityObserver for every number of checks, every host and every       *)
(* amount of change: what verdicts rest on, who does the work, and what a  *)
(* timeout comes from.                                                     *)
(***************************************************************************)
EXTENDS IdentityObserver, FiniteSetTheorems, TLAPS

\* A list that repeats nothing is, sorted, the set of its names, each there once.
LEMMA OnceEach ==
  ASSUME NEW list, RepeatsNothing(list)
  PROVE  SortCanonical(list) = [name \in NamesOn(list) |-> 1]
<1> SUFFICES ASSUME NEW name \in NamesOn(list) PROVE Times(list, name) = 1
  BY DEF SortCanonical
<1>1. PICK k \in DOMAIN list : list[k] = name
  BY DEF NamesOn
<1>2. {j \in DOMAIN list : list[j] = name} = {k}
  BY <1>1 DEF RepeatsNothing
<1> QED
  BY <1>2, FS_Singleton DEF Times

\* The parts of the invariant, and that what is seen and read is not Nothing.
LEMMA Basics ==
  /\ Nothing \notin Observation /\ Nothing \notin Lookup /\ Nothing \notin Process
  /\ Checks \subseteq Nat /\ 1 \in Checks
<1>1. DOMAIN Nothing = {"none"}
  BY DEF Nothing
<1>2. ASSUME Nothing \in Observation PROVE FALSE
  <2>1. "err" \in DOMAIN Nothing
    BY <1>2 DEF Observation
  <2> QED
    BY <1>1, <2>1
<1>3. ASSUME Nothing \in Lookup PROVE FALSE
  <2>1. "pid" \in DOMAIN Nothing
    BY <1>3 DEF Lookup
  <2> QED
    BY <1>1, <2>1
<1>4. ASSUME Nothing \in Process PROVE FALSE
  <2>1. "unit" \in DOMAIN Nothing
    BY <1>4 DEF Process
  <2> QED
    BY <1>1, <2>1
<1> QED
  BY <1>2, <1>3, <1>4, SiblingsAssumption DEF Checks

\* What an observation is answered with.
LEMMA VerdictFacts ==
  ASSUME NEW i \in Checks, NEW o \in Observation
  PROVE  /\ Verdict(i, o) \in Verdicts
         /\ Verdict(i, o) \in {"PASS", "FAIL"} =>
              /\ o.err = "none"
              /\ Verdict(i, o) = "PASS" <=> Matches(i, StatusFile[o.status.as])
         /\ Verdict(i, o) = "ERROR/TIMEOUT" => o.err = "ctx"
<1>1. o.err \in Errs
  BY DEF Observation
<1>2. CASE o.err = "none"
  BY <1>2 DEF Verdict, Verdicts
<1>3. CASE o.err = "ctx"
  BY <1>3 DEF Verdict, Verdicts
<1>4. CASE o.err \in {"namespace", "permission", "command"}
  BY <1>4 DEF Verdict, Verdicts
<1>5. CASE o.err \in {"mainpid", "process"}
  BY <1>5 DEF Verdict, Verdicts
<1>6. CASE o.err \in {"provenance", "gone"}
  BY <1>6 DEF Verdict, Verdicts
<1>7. CASE o.err \in {"parse", "notfound", "other"}
  BY <1>7 DEF Verdict, Verdicts
<1> QED
  BY <1>1, <1>2, <1>3, <1>4, <1>5, <1>6, <1>7 DEF Errs

\* A lookup alone makes an observation of the same error.
LEMMA SeenFacts ==
  ASSUME NEW l \in Lookup, NEW err \in Errs
  PROVE  LET o == Seen(l, Nothing, Nothing, err) IN
           /\ o \in Observation /\ o.lookup = l /\ o.err = err /\ o # Nothing
           /\ l.err \in Errs
<1>1. l.err \in Errs
  BY DEF Lookup
<1>2. Seen(l, Nothing, Nothing, err) \in Observation
  BY DEF Seen, Observation
<1> QED
  BY <1>1, <1>2, Basics DEF Seen

\* What the two files come to.
LEMMA CheckedFacts ==
  ASSUME NEW l, NEW status, NEW cgroup, NEW paths
  PROVE  LET o == Checked(l, status, cgroup, paths)
             parsed == ParsesProcessStatus(StatusFile[status.as]) /\ ParsesProcessCgroups(paths)
         IN  /\ ~parsed => o = Seen(l, Nothing, Nothing, "process")
             /\ parsed /\ CgroupsContain(paths, OwnGroup) => o = Seen(l, status, cgroup, "none")
             /\ parsed /\ ~CgroupsContain(paths, OwnGroup) =>
                  o = Seen(l, status, cgroup, "provenance")
BY DEF Checked

LEMMA FailedFacts ==
  ASSUME NEW e \in Errs \ {"none"}, NEW exit \in Exits
  PROVE  Failed(e, exit) \in Lookup /\ Failed(e, exit).err = e
<1>1. NoPid \notin Pids
  BY PidsAssumption
<1> QED
  BY <1>1 DEF Failed, Lookup

\* An answer is either that of the service's process or a failure.
LEMMA LookedFacts ==
  ASSUME TypeOK,
         NEW a \in {ServiceAnswer("zero"), ServiceAnswer("killed"), Silent} \union OtherAnswers
  PROVE  Looked(a) \in Lookup /\ Looked(a).err # "ctx"
<1> DEFINE err == ReadError(a, ParseSystemctlMainPID(a))
<1>1. err \in Errs \ {"ctx"}
  <2>1. MapSystemctlFailure(a) \in Errs \ {"ctx"}
    BY DEF MapSystemctlFailure, Errs
  <2>2. ParseSystemctlMainPID(a) \in Errs \ {"ctx"}
    BY DEF ParseSystemctlMainPID, Errs
  <2> QED
    BY <2>1, <2>2 DEF ReadError
<1>2. /\ ServiceAnswer("zero").exit = "zero" /\ ServiceAnswer("killed").exit = "killed"
      /\ Silent.exit = "killed" /\ a.exit \in Exits
  <2>1. \A exit, properties : Answer(exit, properties).exit = exit
    BY DEF Answer
  <2>2. ServiceAnswer("zero").exit = "zero" /\ ServiceAnswer("killed").exit = "killed"
    BY <2>1 DEF ServiceAnswer
  <2>3. Silent.exit = "killed"
    BY <2>1 DEF Silent
  <2> QED
    BY <2>2, <2>3, AnswersAssumption DEF Exits
<1>3. CASE err # "none"
  <2>1. Looked(a) = Failed(err, a.exit)
    BY <1>3 DEF Looked
  <2> HIDE DEF err
  <2> QED
    BY <1>1, <1>2, <1>3, <2>1, FailedFacts
<1>4. CASE err = "none"
  <2>1. a.exit = "zero" /\ ParseSystemctlMainPID(a) = "none"
    <3>1. MapSystemctlFailure(a) # "none"
      BY DEF MapSystemctlFailure
    <3> QED
      BY <1>4, <3>1 DEF ReadError
  <2>2. a = ServiceAnswer("zero")
    BY <1>2, <1>4, <2>1, AnswersAssumption
  <2>3. a.properties["MainPID"] = mainPid
    BY <2>2 DEF ServiceAnswer, Answer
  <2>4. mainPid \in Pids
    <3>1. ASSUME mainPid = 0 PROVE FALSE
      <4>1. a.properties["MainPID"] <= 0
        BY <2>3, <3>1
      <4> QED
        BY <2>1, <4>1, Zenon DEF ParseSystemctlMainPID
    <3> QED
      BY <3>1 DEF TypeOK, NoPid
  <2>5. Looked(a) = [pid |-> mainPid, exit |-> "zero", err |-> "none"]
    BY <1>4, <2>3 DEF Looked
  <2> QED
    BY <2>4, <2>5 DEF Lookup, Errs, Exits
<1> QED
  BY <1>3, <1>4

-----------------------------------------------------------------------------
\* A step of the goroutine of check i before it stores what it has seen.
LEMMA WorkInv ==
  ASSUME ObserverInv, NEW i \in Checks, NEW p \in Places \ {"idle"},
         NEW o \in Observation \union {Nothing},
         at[i] \notin {"idle", "done"},
         UNCHANGED <<turn, results, ctx, cache, hostVars, hasCommand>>,
         at' = [at EXCEPT ![i] = p],
         seen' = [seen EXCEPT ![i] = o],
         pidCache' \in Lookup \union {Nothing},
         worked' \in {worked, worked \union {i}},
         p \in {"storePid", "status", "cgroup", "store", "done"} => o # Nothing,
         p = "status" => o.lookup.err = "none",
         p = "cgroup" => SameProcess(o),
         p \in {"store", "done"} /\ o.err = "none" => Grounded(o),
         i \in worked' => p \in {"showing", "storePid", "status", "cgroup", "store"},
         at[i] \in {"run", "lookup"} => worked' = worked,
         at[i] = "run" => p \in {"lookup", "done"},
         at[i] = "lookup" => p = "done" \/ (p = "pidLookup" /\ cache = Nothing),
         NoTimeout => /\ ~OfContext(o) /\ (pidCache' # Nothing => pidCache'.err # "ctx")
                      /\ p = "done" => o = cache /\ cache # Nothing
  PROVE  ObserverInv'
<1> USE Basics
<1>1. /\ TypeOK /\ TurnInv /\ PlaceInv /\ SharingInv /\ TimelyInv /\ TimeoutHasACause
      /\ UNCHANGED <<host, mainPid, changes>>
  BY DEF ObserverInv, hostVars
<1>2. /\ at'[i] = p /\ seen'[i] = o
      /\ \A j \in Checks \ {i} : at'[j] = at[j] /\ seen'[j] = seen[j]
  BY <1>1 DEF TypeOK
<1>3. /\ \A j \in Checks : (Settled(j)' <=> Settled(j)) /\ (Answered(j)' <=> Answered(j))
                            /\ (Abandoned(j)' <=> Abandoned(j))
      /\ NoTimeout' <=> NoTimeout
  BY DEF Settled, Answered, Abandoned, NoTimeout
<1>4. TypeOK'
  BY <1>1 DEF TypeOK
<1>5. TurnInv'
  <2> SUFFICES ASSUME NEW j \in Checks
      PROVE  /\ Settled(j) <=> j < turn
             /\ at'[j] # "idle" \/ ctx[j] = "ended" => j <= turn
             /\ Answered(j) => /\ at'[j] = "done" /\ results[j].on = seen'[j]
                               /\ results[j].verdict = Verdict(j, seen'[j])
             /\ Abandoned(j) => ctx[j] = "ended" /\ results[j].verdict = "ERROR/TIMEOUT"
    BY <1>3 DEF TurnInv
  <2>1. CASE j = i
    BY <1>1, <2>1 DEF TurnInv
  <2>2. CASE j # i
    BY <1>1, <1>2, <2>2 DEF TurnInv
  <2> QED
    BY <2>1, <2>2
<1>6. PlaceInv'
  <2>1. \A x : SameProcess(x) => SameProcess(x)'
    BY <1>1 DEF SameProcess
  <2> SUFFICES ASSUME NEW j \in Checks
      PROVE  /\ at'[j] \in {"storePid", "status", "cgroup", "store", "done"} => seen'[j] # Nothing
             /\ at'[j] = "status" => seen'[j].lookup.err = "none"
             /\ at'[j] = "cgroup" => SameProcess(seen'[j])
             /\ at'[j] \in {"store", "done"} /\ seen'[j].err = "none" => Grounded(seen'[j])
    BY <1>1, <2>1 DEF PlaceInv, SameProcess, Grounded
  <2>2. CASE j = i
    BY <1>2, <2>2
  <2>3. CASE j # i
    BY <1>1, <1>2, <2>3 DEF PlaceInv
  <2> QED
    BY <2>2, <2>3
\* Whoever worked before check i did keeps it from working too.
<1>7. SharingInv'
  <2>1. ASSUME NEW j \in worked'
        PROVE  /\ at'[j] \in {"showing", "storePid", "status", "cgroup", "store", "done"}
               /\ at'[j] = "done" => cache # Nothing
    <3>1. CASE j = i
      BY <1>2, <2>1, <3>1
    <3>2. CASE j # i
      BY <1>1, <1>2, <2>1, <3>2 DEF SharingInv, TypeOK
    <3> QED
      BY <3>1, <3>2
  <2>2. ASSUME NEW j \in Checks, NEW k \in Checks, j \in worked', ~Abandoned(j), j < k
        PROVE  k \notin worked' /\ at'[k] \in {"idle", "run", "lookup", "done"}
    <3>1. CASE j \in worked
      <4>1. k \notin worked /\ at[k] \in {"idle", "run", "lookup", "done"}
        BY <1>1, <2>2, <3>1 DEF SharingInv
      <4>2. CASE k # i
        BY <1>2, <4>1, <4>2
      <4>3. CASE k = i
        <5>1. j < turn
          BY <1>1, <2>2, <4>3 DEF TurnInv, TypeOK
        <5>2. Answered(j)
          BY <1>1, <2>2, <5>1 DEF TurnInv, Settled, Answered, Abandoned, TypeOK
        <5>3. cache # Nothing
          BY <1>1, <3>1, <5>2 DEF SharingInv, TurnInv
        <5> QED
          BY <1>2, <4>1, <4>3, <5>3
      <4> QED
        BY <4>2, <4>3
    <3>2. CASE j \notin worked
      <4>1. j = i /\ at[j] \notin {"idle", "done"}
        BY <2>2, <3>2
      <4>2. ~(j < turn)
        BY <1>1, <2>2, <4>1 DEF TurnInv, Settled, Answered, Abandoned, TypeOK
      <4>3. at[k] = "idle"
        BY <1>1, <2>2, <4>2 DEF TurnInv, TypeOK
      <4> QED
        BY <1>1, <1>2, <2>2, <4>1, <4>3 DEF SharingInv
    <3> QED
      BY <3>1, <3>2
  <2> QED
    BY <1>3, <1>4, <2>1, <2>2 DEF SharingInv, TypeOK
<1>8. TimelyInv'
  <2> SUFFICES ASSUME NoTimeout, NEW j \in Checks
      PROVE  /\ ~OfContext(cache) /\ (pidCache' # Nothing => pidCache'.err # "ctx")
             /\ ~OfContext(seen'[j])
             /\ at'[j] = "done" => cache # Nothing /\ seen'[j] = cache
             /\ at'[j] \notin {"idle", "run", "lookup", "done"} => cache = Nothing
    BY <1>3 DEF TimelyInv, OfContext
  <2>1. CASE j = i
    BY <1>1, <1>2, <2>1 DEF TimelyInv, TypeOK, Places
  <2>2. CASE j # i
    BY <1>1, <1>2, <2>2 DEF TimelyInv
  <2> QED
    BY <2>1, <2>2
<1>9. TimeoutHasACause'
  BY <1>1, <1>3 DEF TimeoutHasACause
<1> QED
  BY <1>4, <1>5, <1>6, <1>7, <1>8, <1>9 DEF ObserverInv

\* Whatever a goroutine meets before it asks systemctl.
LEMMA LookingInv ==
  ASSUME ObserverInv, NEW i \in Checks, Begin(i) \/ LookInCache(i)
  PROVE  ObserverInv'
<1> USE Basics
<1>1. /\ TypeOK /\ TurnInv /\ PlaceInv /\ SharingInv /\ TimelyInv
      /\ at \in [Checks -> Places] /\ seen \in [Checks -> Observation \union {Nothing}]
      /\ cache \in Observation \union {Nothing} /\ pidCache \in Lookup \union {Nothing}
      /\ ctx \in [Checks -> {"live", "ended"}]
  BY DEF ObserverInv, TypeOK
<1>2. /\ UNCHANGED <<turn, results, ctx, cache, hostVars, hasCommand, pidCache, worked>>
      /\ at[i] \in {"run", "lookup"} /\ i \notin worked
  BY <1>1 DEF Begin, LookInCache, engineVars, SharingInv
<1>3. NoTimeout => ~OfContext(seen[i]) /\ (pidCache # Nothing => pidCache.err # "ctx")
                   /\ ~OfContext(cache)
  BY <1>1 DEF TimelyInv
<1>4. CASE at[i] = "run" /\ ctx[i] = "ended"
  <2> DEFINE l == Failed("ctx", "unrun")
             o == Seen(l, Nothing, Nothing, l.err)
  <2>1. l \in Lookup /\ l.err = "ctx"
    BY FailedFacts DEF Errs, Exits
  <2>2. o \in Observation /\ o # Nothing /\ o.err = "ctx"
    BY <2>1, SeenFacts DEF Errs
  <2>3. at' = [at EXCEPT ![i] = "done"] /\ seen' = [seen EXCEPT ![i] = o]
    BY <1>2, <1>4 DEF Begin, LookInCache, Go, Look, See
  <2>4. ~NoTimeout
    BY <1>4 DEF NoTimeout
  <2> HIDE DEF o
  <2> QED
    BY <1>1, <1>2, <1>4, <2>2, <2>3, <2>4, WorkInv DEF Places
<1>5. CASE at[i] = "run" /\ ctx[i] # "ended"
  <2>1. at' = [at EXCEPT ![i] = "lookup"] /\ seen' = [seen EXCEPT ![i] = seen[i]]
    BY <1>1, <1>2, <1>5 DEF Begin, LookInCache, Go
  <2> QED
    BY <1>1, <1>2, <1>3, <1>5, <2>1, WorkInv DEF Places
<1>6. CASE at[i] = "lookup" /\ cache # Nothing
  <2>1. PICK o \in Observation : o = cache
    BY <1>1, <1>6
  <2>2. at' = [at EXCEPT ![i] = "done"] /\ seen' = [seen EXCEPT ![i] = o]
    BY <1>2, <1>6, <2>1 DEF Begin, LookInCache, Go, See
  <2>3. o # Nothing /\ (o.err = "none" => Grounded(o))
    BY <1>1, <1>6, <2>1 DEF PlaceInv
  <2>4. NoTimeout => /\ ~OfContext(o) /\ (pidCache' # Nothing => pidCache'.err # "ctx")
                     /\ o = cache /\ cache # Nothing
    BY <1>2, <1>3, <1>6, <2>1
  <2> QED
    BY <1>1, <1>2, <1>6, <2>2, <2>3, <2>4, WorkInv DEF Places
<1>7. CASE at[i] = "lookup" /\ cache = Nothing
  <2>1. at' = [at EXCEPT ![i] = "pidLookup"] /\ seen' = [seen EXCEPT ![i] = seen[i]]
    BY <1>1, <1>2, <1>7 DEF Begin, LookInCache, Go
  <2> QED
    BY <1>1, <1>2, <1>3, <1>7, <2>1, WorkInv DEF Places
<1> QED
  BY <1>2, <1>4, <1>5, <1>6, <1>7

\* A step that ends in what the lookup l alone makes of an observation.
LEMMA LookInv ==
  ASSUME ObserverInv, NEW i \in Checks, NEW p \in {"storePid", "status", "store"},
         NEW l \in Lookup,
         at[i] \in {"pidLookup", "show", "showing", "storePid"},
         UNCHANGED <<turn, results, ctx, cache, hostVars, hasCommand>>,
         Go(i, p), Look(i, l),
         pidCache' \in {pidCache, l},
         worked' \in {worked, worked \union {i}},
         p = "status" => l.err = "none",
         p = "store" => l.err # "none",
         l.err = "ctx" => ~NoTimeout
  PROVE  ObserverInv'
<1> USE Basics
<1>1. /\ at \in [Checks -> Places] /\ pidCache \in Lookup \union {Nothing}
      /\ NoTimeout => (pidCache # Nothing => pidCache.err # "ctx")
  BY DEF ObserverInv, TypeOK, TimelyInv
<1> DEFINE o == Seen(l, Nothing, Nothing, l.err)
<1>2. /\ o \in Observation /\ o.lookup = l /\ o.err = l.err /\ o # Nothing
  <2>1. l.err \in Errs
    BY DEF Lookup
  <2> QED
    BY <2>1, SeenFacts
<1>3. at' = [at EXCEPT ![i] = p] /\ seen' = [seen EXCEPT ![i] = o]
  BY DEF Go, Look, See
<1> HIDE DEF o
<1>4. NoTimeout => ~OfContext(o) /\ (pidCache' # Nothing => pidCache'.err # "ctx")
  BY <1>1, <1>2 DEF OfContext
<1> QED
  BY <1>1, <1>2, <1>3, <1>4, WorkInv DEF Places

\* From the lookup to its result.
LEMMA LookupStepsInv ==
  ASSUME ObserverInv, NEW i \in Checks,
         LookInPidCache(i) \/ StartShow(i) \/ EndShow(i) \/ KillShow(i) \/ StorePid(i)
  PROVE  ObserverInv'
<1> USE Basics
<1>1. /\ TypeOK /\ TurnInv /\ PlaceInv /\ SharingInv /\ TimelyInv
      /\ at \in [Checks -> Places] /\ seen \in [Checks -> Observation \union {Nothing}]
      /\ cache \in Observation \union {Nothing} /\ pidCache \in Lookup \union {Nothing}
      /\ ctx \in [Checks -> {"live", "ended"}]
  BY DEF ObserverInv, TypeOK
<1>2. UNCHANGED <<turn, results, ctx, cache, hostVars, hasCommand>>
  BY DEF LookInPidCache, StartShow, EndShow, KillShow, StorePid, engineVars
<1>3. NoTimeout => ~OfContext(seen[i]) /\ (pidCache # Nothing => pidCache.err # "ctx")
  BY <1>1 DEF TimelyInv
<1>4. ctx[i] = "ended" => ~NoTimeout
  BY DEF NoTimeout
<1>5. CASE LookInPidCache(i)
  <2>0. at[i] = "pidLookup" /\ i \notin worked /\ UNCHANGED <<pidCache, worked>>
    BY <1>1, <1>5 DEF LookInPidCache, SharingInv
  <2>1. CASE pidCache # Nothing /\ Use(i, pidCache)
    <3>1. PICK p \in {"status", "store"} :
            Go(i, p) /\ (p = "status" <=> pidCache.err = "none") /\ Look(i, pidCache)
      BY <2>1 DEF Use
    <3> QED
      BY <1>1, <1>2, <1>3, <2>0, <2>1, <3>1, LookInv
  <2>2. CASE pidCache = Nothing /\ hasCommand /\ Go(i, "show") /\ UNCHANGED seen
    <3>1. at' = [at EXCEPT ![i] = "show"] /\ seen' = [seen EXCEPT ![i] = seen[i]]
      BY <1>1, <2>2 DEF Go
    <3> QED
      BY <1>1, <1>2, <1>3, <2>0, <3>1, WorkInv DEF Places
  <2>3. CASE Go(i, "storePid") /\ Look(i, Failed("command", "unrun"))
    <3> DEFINE l == Failed("command", "unrun")
    <3>1. l \in Lookup /\ l.err = "command"
      BY FailedFacts DEF Errs, Exits
    <3> HIDE DEF l
    <3>2. Look(i, l)
      BY <2>3 DEF l
    <3> QED
      BY <1>1, <1>2, <2>0, <2>3, <3>1, <3>2, LookInv
  <2> QED
    BY <1>5, <2>1, <2>2, <2>3 DEF LookInPidCache
<1>6. CASE StartShow(i)
  <2>0. at[i] = "show" /\ UNCHANGED pidCache
    BY <1>6 DEF StartShow
  <2>1. CASE ctx[i] = "ended" /\ Go(i, "storePid") /\ Look(i, Failed("ctx", "unrun"))
             /\ UNCHANGED worked
    <3> DEFINE l == Failed("ctx", "unrun")
    <3>1. l \in Lookup /\ l.err = "ctx"
      BY FailedFacts DEF Errs, Exits
    <3> HIDE DEF l
    <3>2. Look(i, l)
      BY <2>1 DEF l
    <3> QED
      BY <1>1, <1>2, <1>4, <2>0, <2>1, <3>1, <3>2, LookInv
  <2>2. CASE worked' = worked \union {i} /\ Go(i, "showing") /\ UNCHANGED seen
    <3>1. at' = [at EXCEPT ![i] = "showing"] /\ seen' = [seen EXCEPT ![i] = seen[i]]
      BY <1>1, <2>2 DEF Go
    <3> QED
      BY <1>1, <1>2, <1>3, <2>0, <2>2, <3>1, WorkInv DEF Places
  <2>3. ASSUME NEW e \in StartFailures, worked' = worked \union {i},
               Go(i, "storePid"), Look(i, Failed(e, "unrun"))
        PROVE  ObserverInv'
    <3> DEFINE l == Failed(e, "unrun")
    <3>1. e \in Errs \ {"none", "ctx"}
      BY FailuresAssumption DEF Errs
    <3>2. l \in Lookup /\ l.err # "ctx"
      BY <3>1, FailedFacts DEF Exits
    <3> HIDE DEF l
    <3>3. Look(i, l)
      BY <2>3 DEF l
    <3> QED
      BY <1>1, <1>2, <2>0, <2>3, <3>2, <3>3, LookInv
  <2> QED
    BY <1>6, <2>1, <2>2, <2>3 DEF StartShow
<1>7. CASE EndShow(i)
  <2>1. PICK a \in {ServiceAnswer("zero")} \union OtherAnswers : Look(i, Looked(a))
    BY <1>7 DEF EndShow
  <2>2. Looked(a) \in Lookup /\ Looked(a).err # "ctx"
    BY <1>1, LookedFacts
  <2>3. at[i] = "showing" /\ Go(i, "storePid") /\ UNCHANGED <<pidCache, worked>>
    BY <1>7 DEF EndShow
  <2> QED
    BY <1>1, <1>2, <2>1, <2>2, <2>3, LookInv
<1>8. CASE KillShow(i)
  <2>1. /\ at[i] = "showing" /\ ctx[i] = "ended" /\ Go(i, "storePid")
        /\ UNCHANGED <<pidCache, worked>>
    BY <1>8 DEF KillShow
  <2>2. PICK l \in Lookup : Look(i, l)
    <3>1. Failed("ctx", "zero") \in Lookup
      BY FailedFacts DEF Errs, Exits
    <3>2. Looked(Silent) \in Lookup /\ Looked(ServiceAnswer("killed")) \in Lookup
      BY <1>1, LookedFacts
    <3> QED
      BY <1>8, <3>1, <3>2 DEF KillShow
  <2> QED
    BY <1>1, <1>2, <1>4, <2>1, <2>2, LookInv
<1>9. CASE StorePid(i)
  <2> DEFINE l == seen[i].lookup
  <2>1. /\ at[i] = "storePid" /\ pidCache' = l /\ Use(i, l) /\ UNCHANGED worked
    BY <1>9 DEF StorePid
  <2>2. seen[i] # Nothing /\ seen[i] \in Observation
    BY <1>1, <2>1 DEF PlaceInv
  <2>3. l \in Lookup /\ (l.err = "ctx" => ~NoTimeout)
    BY <1>3, <2>2 DEF Observation, OfContext
  <2>4. PICK p \in {"status", "store"} :
          Go(i, p) /\ (p = "status" <=> l.err = "none") /\ Look(i, l)
    BY <2>1 DEF Use
  <2> HIDE DEF l
  <2> QED
    BY <1>1, <1>2, <2>1, <2>3, <2>4, LookInv
<1> QED
  BY <1>5, <1>6, <1>7, <1>8, <1>9

-----------------------------------------------------------------------------
\* A step that ends in the error err, met while reading /proc.
LEMMA UnreadInv ==
  ASSUME ObserverInv, NEW i \in Checks, NEW err \in Errs \ {"none"},
         at[i] \in {"status", "cgroup"},
         UNCHANGED <<turn, results, ctx, cache, pidCache, hostVars, hasCommand>>,
         Unread(i, err),
         worked' \in {worked, worked \union {i}},
         err = "ctx" => ~NoTimeout
  PROVE  ObserverInv'
<1> USE Basics
<1>1. /\ seen[i] \in Observation /\ pidCache \in Lookup \union {Nothing}
      /\ NoTimeout => ~OfContext(seen[i]) /\ (pidCache # Nothing => pidCache.err # "ctx")
  BY DEF ObserverInv, TypeOK, PlaceInv, TimelyInv
<1> DEFINE o == Seen(seen[i].lookup, Nothing, Nothing, err)
<1>2. /\ o \in Observation /\ o.lookup = seen[i].lookup /\ o.err = err /\ o # Nothing
  <2>1. seen[i].lookup \in Lookup
    BY <1>1 DEF Observation
  <2> QED
    BY <2>1, SeenFacts
<1>3. at' = [at EXCEPT ![i] = "store"] /\ seen' = [seen EXCEPT ![i] = o]
  BY DEF Unread, Go, See
<1> HIDE DEF o
<1>4. NoTimeout => ~OfContext(o)
  BY <1>1, <1>2 DEF OfContext
<1> QED
  BY <1>1, <1>2, <1>3, <1>4, WorkInv DEF Places

LEMMA ReadStatusInv ==
  ASSUME ObserverInv, NEW i \in Checks, ReadStatus(i)
  PROVE  ObserverInv'
<1> USE Basics
<1> DEFINE process == host[seen[i].lookup.pid]
<1>1. /\ at[i] = "status" /\ seen[i] \in Observation /\ seen[i].lookup.err = "none"
      /\ seen[i].lookup.pid \in Pids
      /\ pidCache \in Lookup \union {Nothing} /\ process \in Process \union {Nothing}
      /\ process # Nothing => process.birth <= changes
      /\ NoTimeout => ~OfContext(seen[i]) /\ (pidCache # Nothing => pidCache.err # "ctx")
  <2>1. at[i] = "status" /\ seen[i] \in Observation /\ seen[i].lookup.err = "none"
    BY DEF ReadStatus, ObserverInv, TypeOK, PlaceInv
  <2>2. seen[i].lookup.pid \in Pids
    BY <2>1 DEF Observation, Lookup
  <2> QED
    BY <2>1, <2>2 DEF ObserverInv, TypeOK, PlaceInv, TimelyInv
<1>2. /\ UNCHANGED <<turn, results, ctx, cache, pidCache, hostVars, hasCommand>>
      /\ worked' \in {worked, worked \union {i}}
  BY DEF ReadStatus, engineVars
<1>3. CASE ctx[i] = "ended" /\ Unread(i, "ctx")
  BY <1>1, <1>2, <1>3, UnreadInv DEF NoTimeout, Errs
<1>4. CASE Unread(i, "gone")
  BY <1>1, <1>2, <1>4, UnreadInv DEF Errs
<1>5. ASSUME NEW e \in ProcFailures, Unread(i, e) PROVE ObserverInv'
  <2>1. e \in Errs \ {"none", "ctx"}
    BY FailuresAssumption DEF Errs
  <2> QED
    BY <1>1, <1>2, <1>5, <2>1, UnreadInv
<1>6. ASSUME NEW as \in {process.as} \union OtherStatus, process # Nothing, Go(i, "cgroup"),
             See(i, Seen(seen[i].lookup, [process EXCEPT !.as = as], Nothing, "none"))
      PROVE  ObserverInv'
  <2> DEFINE status == [process EXCEPT !.as = as]
             o == Seen(seen[i].lookup, status, Nothing, "none")
  <2>1. /\ status \in Process /\ status # Nothing
        /\ status.birth = process.birth /\ status.unit = process.unit
    BY <1>1, <1>6 DEF Process
  <2> HIDE DEF status
  <2>2. /\ o \in Observation /\ o # Nothing /\ o.lookup = seen[i].lookup
        /\ o.status = status /\ o.err = "none"
    <3>1. o \in Observation
      BY <1>1, <2>1 DEF Observation, Seen, Errs
    <3> QED
      BY <3>1 DEF Seen
  <2>3. at' = [at EXCEPT ![i] = "cgroup"] /\ seen' = [seen EXCEPT ![i] = o]
    BY <1>6 DEF Go, See, status
  <2> HIDE DEF o
  <2>4. SameProcess(o)
    <3>1. o.status.birth <= changes
      BY <1>1, <1>6, <2>1, <2>2
    <3>2. host[o.lookup.pid].unit = o.status.unit
      BY <2>1, <2>2
    <3> QED
      BY <1>1, <2>1, <2>2, <3>1, <3>2, Zenon DEF SameProcess
  <2>5. NoTimeout => ~OfContext(o)
    BY <1>1, <2>2 DEF OfContext
  <2> QED
    BY <1>1, <1>2, <2>2, <2>3, <2>4, <2>5, WorkInv DEF Places
<1> QED
  BY <1>3, <1>4, <1>5, <1>6 DEF ReadStatus

\* Only the service's own processes have its control group.
LEMMA OwnGroupFacts ==
  ASSUME NEW process \in Process, NEW paths \in {CgroupFile(process)} \union OtherCgroups,
         ParsesProcessCgroups(paths), CgroupsContain(paths, OwnGroup)
  PROVE  process.unit
<1>1. paths = CgroupFile(process)
  BY CgroupsAssumption DEF CgroupsContain
<1>2. ASSUME ~process.unit PROVE FALSE
  <2>1. paths = <<OtherGroup>>
    BY <1>1, <1>2 DEF CgroupFile
  <2>2. OwnGroup # OtherGroup
    BY DEF OwnGroup, OtherGroup
  <2>3. NamesOn(<<OtherGroup>>) = {OtherGroup}
    BY DEF NamesOn
  <2> QED
    BY <2>1, <2>2, <2>3 DEF CgroupsContain
<1> QED
  BY <1>2

LEMMA ReadCgroupInv ==
  ASSUME ObserverInv, NEW i \in Checks, ReadCgroup(i)
  PROVE  ObserverInv'
<1> USE Basics
<1> DEFINE process == host[seen[i].lookup.pid]
           l == seen[i].lookup
           status == seen[i].status
<1>1. /\ at[i] = "cgroup" /\ seen[i] \in Observation /\ SameProcess(seen[i])
      /\ l \in Lookup /\ l.err = "none" /\ l.pid \in Pids
      /\ status \in Process
      /\ pidCache \in Lookup \union {Nothing} /\ process \in Process \union {Nothing}
      /\ NoTimeout => ~OfContext(seen[i]) /\ (pidCache # Nothing => pidCache.err # "ctx")
  <2>1. at[i] = "cgroup" /\ SameProcess(seen[i]) /\ seen[i] \in Observation
    BY DEF ReadCgroup, ObserverInv, TypeOK, PlaceInv
  <2>2. l \in Lookup /\ l.err = "none" /\ status \in Process
    BY <2>1 DEF SameProcess, Observation
  <2>3. l.pid \in Pids
    BY <2>2 DEF Lookup
  <2> QED
    BY <2>1, <2>2, <2>3 DEF ObserverInv, TypeOK, TimelyInv
<1>2. UNCHANGED <<turn, results, ctx, cache, pidCache, worked, hostVars, hasCommand>>
  BY DEF ReadCgroup, engineVars
<1>3. CASE Unread(i, "gone")
  BY <1>1, <1>2, <1>3, UnreadInv DEF Errs
<1>4. ASSUME NEW e \in ProcFailures, Unread(i, e) PROVE ObserverInv'
  <2>1. e \in Errs \ {"none", "ctx"}
    BY FailuresAssumption DEF Errs
  <2> QED
    BY <1>1, <1>2, <1>4, <2>1, UnreadInv
<1>5. ASSUME NEW paths \in {CgroupFile(process)} \union OtherCgroups, process # Nothing,
             Go(i, "store"), See(i, Checked(l, status, process, paths))
      PROVE  ObserverInv'
  <2> DEFINE o == Checked(l, status, process, paths)
  <2>1. /\ o \in Observation /\ o # Nothing /\ o.lookup = l
        /\ o.err \in {"none", "process", "provenance"}
        /\ o.err = "none" => /\ o.status = status /\ o.cgroup = process
                             /\ ParsesProcessCgroups(paths) /\ CgroupsContain(paths, OwnGroup)
    <3>1. ASSUME NEW err \in {"none", "provenance"}, o = Seen(l, status, process, err)
          PROVE  /\ o \in Observation /\ o # Nothing /\ o.lookup = l /\ o.err = err
                 /\ o.status = status /\ o.cgroup = process
      <4>1. o \in Observation
        BY <1>1, <1>5, <3>1 DEF Seen, Observation, Errs
      <4> QED
        BY <3>1, <4>1 DEF Seen
    <3>2. CASE ~ParsesProcessStatus(StatusFile[status.as]) \/ ~ParsesProcessCgroups(paths)
      <4>1. o = Seen(l, Nothing, Nothing, "process")
        BY <3>2, CheckedFacts
      <4> QED
        BY <1>1, <4>1, SeenFacts DEF Errs
    <3>3. CASE /\ ParsesProcessStatus(StatusFile[status.as]) /\ ParsesProcessCgroups(paths)
               /\ CgroupsContain(paths, OwnGroup)
      <4>1. o = Seen(l, status, process, "none")
        BY <3>3, CheckedFacts
      <4> HIDE DEF o
      <4> QED
        BY <3>1, <3>3, <4>1
    <3>4. CASE /\ ParsesProcessStatus(StatusFile[status.as]) /\ ParsesProcessCgroups(paths)
               /\ ~CgroupsContain(paths, OwnGroup)
      <4>1. o = Seen(l, status, process, "provenance")
        BY <3>4, CheckedFacts
      <4> HIDE DEF o
      <4> QED
        BY <3>1, <4>1
    <3> QED
      BY <3>2, <3>3, <3>4
  <2>2. at' = [at EXCEPT ![i] = "store"] /\ seen' = [seen EXCEPT ![i] = o]
    BY <1>5 DEF Go, See
  <2> HIDE DEF o
  <2>3. ASSUME o.err = "none" PROVE Grounded(o)
    <3>1. process \in Process /\ process.unit
      BY <1>1, <1>5, <2>1, <2>3, OwnGroupFacts
    <3> QED
      BY <1>1, <2>1, <2>3, <3>1 DEF Grounded, SameProcess
  <2>4. NoTimeout => ~OfContext(o)
    BY <1>1, <2>1 DEF OfContext
  <2> QED
    BY <1>1, <1>2, <2>1, <2>2, <2>3, <2>4, WorkInv DEF Places
<1> QED
  BY <1>3, <1>4, <1>5 DEF ReadCgroup

\* The last writer wins: what is cached may not be what another check has seen.
LEMMA StoreInv ==
  ASSUME ObserverInv, NEW i \in Checks, Store(i)
  PROVE  ObserverInv'
<1> USE Basics
<1>1. /\ TypeOK /\ TurnInv /\ PlaceInv /\ SharingInv /\ TimelyInv /\ TimeoutHasACause
      /\ at[i] = "store" /\ cache' = seen[i] /\ at' = [at EXCEPT ![i] = "done"]
      /\ UNCHANGED <<turn, ctx, results, seen, pidCache, worked, host, mainPid, changes, hasCommand>>
  BY DEF ObserverInv, Store, Go, engineVars, hostVars
<1>2. /\ at'[i] = "done" /\ \A j \in Checks \ {i} : at'[j] = at[j]
      /\ seen[i] # Nothing /\ (seen[i].err = "none" => Grounded(seen[i]))
  BY <1>1 DEF TypeOK, PlaceInv
<1>3. /\ \A j \in Checks : (Settled(j)' <=> Settled(j)) /\ (Answered(j)' <=> Answered(j))
                            /\ (Abandoned(j)' <=> Abandoned(j))
      /\ NoTimeout' <=> NoTimeout
  BY <1>1 DEF Settled, Answered, Abandoned, NoTimeout
<1>4. TypeOK'
  BY <1>1 DEF TypeOK, Places
<1>5. TurnInv'
  <2> SUFFICES ASSUME NEW j \in Checks
      PROVE  /\ Settled(j) <=> j < turn
             /\ at'[j] # "idle" \/ ctx[j] = "ended" => j <= turn
             /\ Answered(j) => /\ at'[j] = "done" /\ results[j].on = seen[j]
                               /\ results[j].verdict = Verdict(j, seen[j])
             /\ Abandoned(j) => ctx[j] = "ended" /\ results[j].verdict = "ERROR/TIMEOUT"
    BY <1>1, <1>3 DEF TurnInv
  <2>1. CASE j = i
    BY <1>1, <2>1 DEF TurnInv
  <2>2. CASE j # i
    BY <1>1, <1>2, <2>2 DEF TurnInv
  <2> QED
    BY <2>1, <2>2
<1>6. PlaceInv'
  <2>1. \A x : SameProcess(x) => SameProcess(x)'
    BY <1>1 DEF SameProcess
  <2>2. \A x : Grounded(x)' <=> Grounded(x)
    BY DEF Grounded
  <2>3. cache' # Nothing /\ cache'.err = "none" => Grounded(cache')
    BY <1>1, <1>2
  <2> SUFFICES ASSUME NEW j \in Checks
      PROVE  /\ at'[j] \in {"storePid", "status", "cgroup", "store", "done"} => seen[j] # Nothing
             /\ at'[j] = "status" => seen[j].lookup.err = "none"
             /\ at'[j] = "cgroup" => SameProcess(seen[j])
             /\ at'[j] \in {"store", "done"} /\ seen[j].err = "none" => Grounded(seen[j])
    BY <1>1, <2>1, <2>2, <2>3 DEF PlaceInv, SameProcess, Grounded
  <2>4. CASE j = i
    BY <1>1, <1>2, <2>4
  <2>5. CASE j # i
    BY <1>1, <1>2, <2>5 DEF PlaceInv
  <2> QED
    BY <2>4, <2>5
<1>7. SharingInv'
  <2>1. cache' # Nothing
    BY <1>1, <1>2
  <2>2. ASSUME NEW j \in worked
        PROVE  at'[j] \in {"showing", "storePid", "status", "cgroup", "store", "done"}
    BY <1>1, <1>2 DEF SharingInv, TypeOK
  <2>3. ASSUME NEW j \in Checks, NEW k \in Checks, j \in worked, ~Abandoned(j), j < k
        PROVE  k \notin worked /\ at'[k] \in {"idle", "run", "lookup", "done"}
    BY <1>1, <1>2, <2>3 DEF SharingInv
  <2> QED
    BY <1>1, <1>3, <2>1, <2>2, <2>3 DEF SharingInv
\* Without a timeout check i is the only one at work, and none is done.
<1>8. TimelyInv'
  <2> SUFFICES ASSUME NoTimeout, NEW j \in Checks
      PROVE  /\ ~OfContext(cache') /\ (pidCache # Nothing => pidCache.err # "ctx")
             /\ ~OfContext(seen[j])
             /\ at'[j] = "done" => cache' # Nothing /\ seen[j] = cache'
             /\ at'[j] \notin {"idle", "run", "lookup", "done"} => cache' = Nothing
    BY <1>1, <1>3 DEF TimelyInv, OfContext
  <2>1. /\ ~OfContext(seen[i]) /\ ~OfContext(seen[j])
        /\ (pidCache # Nothing => pidCache.err # "ctx") /\ cache = Nothing
    BY <1>1 DEF TimelyInv
  <2>2. at[j] # "done"
    BY <1>1, <2>1 DEF TimelyInv
  <2>3. ASSUME NEW k \in Checks, at[k] \notin {"idle", "done"} PROVE k = turn
    <3>1. k <= turn /\ ~Answered(k) /\ ~Abandoned(k)
      BY <1>1, <2>3 DEF TurnInv, NoTimeout
    <3>2. ~(k < turn)
      BY <1>1, <3>1 DEF TurnInv, Settled, Answered, Abandoned, TypeOK
    <3> QED
      BY <1>1, <3>1, <3>2 DEF TypeOK
  <2>4. CASE j = i
    BY <1>1, <1>2, <2>1, <2>4
  <2>5. CASE j # i
    <3>1. at'[j] = "idle"
      BY <1>1, <1>2, <2>2, <2>3, <2>5
    <3> QED
      BY <1>1, <2>1, <3>1
  <2> QED
    BY <2>4, <2>5
<1>9. TimeoutHasACause'
  BY <1>1, <1>3 DEF TimeoutHasACause
<1> QED
  BY <1>4, <1>5, <1>6, <1>7, <1>8, <1>9 DEF ObserverInv

-----------------------------------------------------------------------------
\* Settling the check whose turn it is, with what it answered or for its deadline.
LEMMA RecordInv ==
  ASSUME ObserverInv, turn \in Checks, at[turn] # "idle",
         NEW v \in Verdicts, NEW by \in {"check", "engine"},
         NEW o \in Observation \union {Nothing}, Record(v, by, o),
         by = "check" => at[turn] = "done" /\ o = seen[turn] /\ v = Verdict(turn, o),
         by = "engine" => ctx[turn] = "ended" /\ v = "ERROR/TIMEOUT",
         v = "ERROR/TIMEOUT" => ~NoTimeout
  PROVE  ObserverInv'
<1> USE Basics
<1>1. /\ TypeOK /\ TurnInv /\ PlaceInv /\ SharingInv /\ TimelyInv /\ TimeoutHasACause
      /\ UNCHANGED <<ctx, at, seen, pidCache, cache, worked, host, mainPid, changes, hasCommand>>
      /\ turn' = turn + 1 /\ turn \in Nat
      /\ results' = [results EXCEPT ![turn] = [verdict |-> v, by |-> by, on |-> o]]
  BY DEF ObserverInv, Record, workerVars, hostVars
<1>2. /\ results'[turn] = [verdict |-> v, by |-> by, on |-> o] /\ results[turn] = Nothing
      /\ results'[turn].verdict = v /\ results'[turn].by = by /\ results'[turn].on = o
      /\ results'[turn] # Nothing
      /\ \A j \in Checks \ {turn} : results'[j] = results[j]
  <2>1. results[turn] = Nothing
    BY <1>1 DEF TurnInv, Settled
  <2>2. results'[turn] = [verdict |-> v, by |-> by, on |-> o]
    BY <1>1 DEF TypeOK
  <2>3. results'[turn] # Nothing
    <3>1. "verdict" \in DOMAIN results'[turn] /\ DOMAIN Nothing = {"none"}
      BY <2>2 DEF Nothing
    <3> QED
      BY <3>1
  <2> QED
    BY <1>1, <2>1, <2>2, <2>3 DEF TypeOK
<1>3. NoTimeout' <=> NoTimeout
  BY <1>1 DEF NoTimeout
<1>4. /\ \A j \in Checks \ {turn} :
           (Settled(j)' <=> Settled(j)) /\ (Answered(j)' <=> Answered(j))
           /\ (Abandoned(j)' <=> Abandoned(j))
      /\ \A j \in {turn} :
           /\ Settled(j)' /\ (Answered(j)' <=> by = "check") /\ (Abandoned(j)' <=> by = "engine")
           /\ ~Abandoned(j)
  BY <1>2 DEF Settled, Answered, Abandoned
<1>5. TypeOK'
  <2>1. turn' \in 1..(Siblings + 1)
    BY <1>1, SiblingsAssumption DEF Checks
  <2>2. results' \in [Checks -> [verdict : Verdicts, by : {"check", "engine"},
                                 on : Observation \union {Nothing}] \union {Nothing}]
    BY <1>1 DEF TypeOK
  <2> QED
    BY <1>1, <2>1, <2>2 DEF TypeOK
<1>6. TurnInv'
  <2> SUFFICES ASSUME NEW j \in Checks
      PROVE  /\ Settled(j)' <=> j < turn'
             /\ at[j] # "idle" \/ ctx[j] = "ended" => j <= turn'
             /\ Answered(j)' => /\ at[j] = "done" /\ results'[j].on = seen[j]
                                /\ results'[j].verdict = Verdict(j, seen[j])
             /\ Abandoned(j)' => ctx[j] = "ended" /\ results'[j].verdict = "ERROR/TIMEOUT"
    BY <1>1 DEF TurnInv
  <2>1. CASE j = turn
    BY <1>1, <1>2, <1>4, <2>1
  <2>2. CASE j # turn
    <3>1. j \in Nat
      OBVIOUS
    <3>2. Settled(j)' <=> j < turn'
      BY <1>1, <1>4, <2>2, <3>1 DEF TurnInv
    <3>3. at[j] # "idle" \/ ctx[j] = "ended" => j <= turn'
      BY <1>1, <3>1 DEF TurnInv
    <3>4. /\ Answered(j) => /\ at[j] = "done" /\ results[j].on = seen[j]
                            /\ results[j].verdict = Verdict(j, seen[j])
          /\ Abandoned(j) => ctx[j] = "ended" /\ results[j].verdict = "ERROR/TIMEOUT"
      BY <1>1 DEF TurnInv
    <3>5. results'[j] = results[j] /\ (Answered(j)' <=> Answered(j))
          /\ (Abandoned(j)' <=> Abandoned(j))
      BY <1>2, <1>4, <2>2
    <3> QED
      BY <3>2, <3>3, <3>4, <3>5
  <2> QED
    BY <2>1, <2>2
<1>7. PlaceInv' /\ TimelyInv'
  BY <1>1, <1>3 DEF PlaceInv, TimelyInv, SameProcess, Grounded, OfContext
<1>8. SharingInv'
  <2>1. \A j \in Checks : Abandoned(j) => Abandoned(j)'
    BY <1>4
  <2> QED
    BY <1>1, <2>1 DEF SharingInv
<1>9. TimeoutHasACause'
  <2>1. ASSUME v = "ERROR/TIMEOUT" PROVE \E j \in 1..turn : ctx[j] = "ended"
    <3>1. PICK j \in Checks : ctx[j] = "ended"
      BY <1>1, <2>1 DEF NoTimeout, TypeOK
    <3>2. j \in 1..turn
      BY <1>1, <3>1 DEF TurnInv, Checks
    <3> QED
      BY <3>1, <3>2
  <2> SUFFICES ASSUME NEW j \in Checks, Settled(j)', results'[j].verdict = "ERROR/TIMEOUT"
               PROVE  \E k \in 1..j : ctx[k] = "ended"
    BY <1>1 DEF TimeoutHasACause
  <2>2. CASE j = turn
    BY <1>2, <2>1, <2>2
  <2>3. CASE j # turn
    BY <1>1, <1>2, <1>4, <2>3 DEF TimeoutHasACause
  <2> QED
    BY <2>2, <2>3
<1> QED
  BY <1>5, <1>6, <1>7, <1>8, <1>9 DEF ObserverInv

LEMMA SettleInv == ASSUME ObserverInv, TakeResult \/ StopWaiting PROVE ObserverInv'
<1>1. CASE StopWaiting
  <2>1. turn \in Checks /\ at[turn] # "idle" /\ ctx[turn] = "ended" /\ ~NoTimeout
        /\ Record("ERROR/TIMEOUT", "engine", Nothing)
    BY <1>1 DEF StopWaiting, NoTimeout
  <2> QED
    BY <2>1, RecordInv DEF Verdicts
<1>2. CASE TakeResult
  <2> DEFINE o == seen[turn]
             v == Verdict(turn, o)
  <2>1. turn \in Checks /\ at[turn] = "done" /\ Record(v, "check", o)
    BY <1>2 DEF TakeResult
  <2>2. o \in Observation
    BY <2>1 DEF ObserverInv, TypeOK, PlaceInv
  <2>3. v \in Verdicts /\ (v = "ERROR/TIMEOUT" => o.err = "ctx")
    BY <2>1, <2>2, VerdictFacts
  <2>4. o.err = "ctx" => ~NoTimeout
    BY <2>1, <2>2, Basics DEF ObserverInv, TimelyInv, OfContext
  <2> HIDE DEF v
  <2>5. v = Verdict(turn, o)
    BY DEF v
  <2> HIDE DEF o
  <2>6. o = seen[turn]
    BY DEF o
  <2> QED
    BY <2>1, <2>2, <2>3, <2>4, <2>5, <2>6, RecordInv
<1> QED
  BY <1>1, <1>2

LEMMA LaunchInv == ASSUME ObserverInv, Launch PROVE ObserverInv'
<1> USE Basics
<1>1. /\ TypeOK /\ TurnInv /\ PlaceInv /\ SharingInv /\ TimelyInv /\ TimeoutHasACause
      /\ turn \in Checks /\ at[turn] = "idle" /\ at' = [at EXCEPT ![turn] = "run"]
      /\ UNCHANGED <<turn, ctx, results, seen, pidCache, cache, worked, host, mainPid, changes,
                     hasCommand>>
  BY DEF ObserverInv, Launch, engineVars, hostVars
<1>2. at'[turn] = "run" /\ \A j \in Checks \ {turn} : at'[j] = at[j]
  BY <1>1 DEF TypeOK
<1>3. /\ \A j \in Checks : (Settled(j)' <=> Settled(j)) /\ (Answered(j)' <=> Answered(j))
                            /\ (Abandoned(j)' <=> Abandoned(j))
      /\ NoTimeout' <=> NoTimeout
  BY <1>1 DEF Settled, Answered, Abandoned, NoTimeout
<1>4. TypeOK'
  BY <1>1 DEF TypeOK, Places
<1>5. TurnInv'
  <2> SUFFICES ASSUME NEW j \in Checks
      PROVE  /\ Settled(j) <=> j < turn
             /\ at'[j] # "idle" \/ ctx[j] = "ended" => j <= turn
             /\ Answered(j) => /\ at'[j] = "done" /\ results[j].on = seen[j]
                               /\ results[j].verdict = Verdict(j, seen[j])
             /\ Abandoned(j) => ctx[j] = "ended" /\ results[j].verdict = "ERROR/TIMEOUT"
    BY <1>1, <1>3 DEF TurnInv
  <2>1. CASE j = turn
    <3>1. turn \in Nat /\ ~Answered(j)
      BY <1>1, <2>1 DEF TurnInv
    <3> QED
      BY <1>1, <2>1, <3>1 DEF TurnInv
  <2>2. CASE j # turn
    BY <1>1, <1>2, <2>2 DEF TurnInv
  <2> QED
    BY <2>1, <2>2
<1>6. PlaceInv' /\ TimelyInv'
  BY <1>1, <1>2, <1>3 DEF PlaceInv, TimelyInv, SameProcess, Grounded, OfContext
<1>7. SharingInv'
  BY <1>1, <1>2, <1>3 DEF SharingInv, TypeOK
<1>8. TimeoutHasACause'
  BY <1>1, <1>3 DEF TimeoutHasACause
<1> QED
  BY <1>4, <1>5, <1>6, <1>7, <1>8 DEF ObserverInv

LEMMA ExpireInv == ASSUME ObserverInv, Expire PROVE ObserverInv'
<1> USE Basics
<1>1. /\ TypeOK /\ TurnInv /\ PlaceInv /\ SharingInv /\ TimelyInv /\ TimeoutHasACause
      /\ turn \in Checks /\ ctx' = [ctx EXCEPT ![turn] = "ended"]
      /\ UNCHANGED <<turn, results, at, seen, pidCache, cache, worked, host, mainPid, changes,
                     hasCommand>>
  BY DEF ObserverInv, Expire, workerVars, hostVars
<1>2. ctx'[turn] = "ended" /\ \A j \in Checks \ {turn} : ctx'[j] = ctx[j]
  BY <1>1 DEF TypeOK
<1>3. \A j \in Checks : (Settled(j)' <=> Settled(j)) /\ (Answered(j)' <=> Answered(j))
                         /\ (Abandoned(j)' <=> Abandoned(j))
  BY <1>1 DEF Settled, Answered, Abandoned
<1>4. ~NoTimeout'
  BY <1>1, <1>2 DEF NoTimeout
<1>5. TypeOK'
  BY <1>1 DEF TypeOK
<1>6. TurnInv'
  BY <1>1, <1>2, <1>3 DEF TurnInv
<1>7. PlaceInv' /\ SharingInv'
  BY <1>1, <1>3 DEF PlaceInv, SharingInv, SameProcess, Grounded
<1>8. TimelyInv'
  BY <1>4 DEF TimelyInv
<1>9. TimeoutHasACause'
  BY <1>1, <1>2, <1>3 DEF TimeoutHasACause, Checks
<1> QED
  BY <1>5, <1>6, <1>7, <1>8, <1>9 DEF ObserverInv

\* A process that comes is a new one; one that stays stays in its group.
LEMMA HostSteps ==
  ASSUME ObserverInv, Host, NEW q \in Pids
  PROVE  /\ changes' = changes + 1 /\ changes' \in 0..MaxChanges
         /\ mainPid' \in Pids \union {NoPid}
         /\ host' = [r \in Pids |-> host'[r]]
         /\ \/ host'[q] = Nothing
            \/ host'[q] \in Process /\ host'[q].birth = changes'
            \/ /\ host[q] # Nothing /\ host'[q] \in Process
               /\ host'[q].birth = host[q].birth /\ host'[q].unit = host[q].unit
<1> USE Basics
<1>1. /\ host \in [Pids -> Process \union {Nothing}] /\ mainPid \in Pids \union {NoPid}
      /\ changes \in 0..MaxChanges /\ MaxChanges \in Nat
  BY MaxChangesAssumption DEF ObserverInv, TypeOK
<1>2. changes' = changes + 1 /\ changes < MaxChanges
  BY DEF Host, Exit, Spawn, SetCredentials, Change
<1>3. changes' \in 0..MaxChanges
  BY <1>1, <1>2
<1>4. host[q] # Nothing => host[q] \in Process
  BY <1>1
<1>5. ASSUME NEW p \in Pids, Exit(p)
      PROVE  /\ host' = [host EXCEPT ![p] = Nothing] /\ mainPid' \in Pids \union {NoPid}
  BY <1>1, <1>5 DEF Exit
<1>6. ASSUME NEW p \in Pids, Spawn(p)
      PROVE  /\ \E x \in Process : host' = [host EXCEPT ![p] = x] /\ x.birth = changes'
             /\ mainPid' \in Pids \union {NoPid}
  <2>1. PICK unit \in BOOLEAN, as \in Credentials :
          /\ host' = [host EXCEPT ![p] = [unit |-> unit, as |-> as, birth |-> changes + 1]]
          /\ mainPid' = IF unit THEN p ELSE mainPid
    BY <1>6 DEF Spawn
  <2> DEFINE x == [unit |-> unit, as |-> as, birth |-> changes']
  <2>2. x \in Process /\ x.birth = changes'
    BY <1>3 DEF Process
  <2>3. host' = [host EXCEPT ![p] = x]
    BY <1>2, <2>1
  <2>4. mainPid' \in Pids \union {NoPid}
    BY <1>1, <2>1
  <2> QED
    BY <2>2, <2>3, <2>4
<1>7. ASSUME NEW p \in Pids, SetCredentials(p)
      PROVE  /\ host[p] # Nothing /\ mainPid' \in Pids \union {NoPid}
             /\ \E x \in Process : /\ host' = [host EXCEPT ![p] = x]
                                  /\ x.birth = host[p].birth /\ x.unit = host[p].unit
  <2>1. PICK as \in Credentials : host' = [host EXCEPT ![p].as = as]
    BY <1>7 DEF SetCredentials
  <2>2. host[p] # Nothing /\ host[p] \in Process /\ UNCHANGED mainPid
    BY <1>1, <1>7 DEF SetCredentials
  <2> DEFINE x == [host[p] EXCEPT !.as = as]
  <2>3. x \in Process /\ x.birth = host[p].birth /\ x.unit = host[p].unit
    BY <2>2 DEF Process
  <2>4. host' = [host EXCEPT ![p] = x]
    BY <2>1
  <2> HIDE DEF x
  <2> QED
    BY <1>1, <2>2, <2>3, <2>4
<1>8. PICK p \in Pids : Exit(p) \/ Spawn(p) \/ SetCredentials(p)
  BY DEF Host
<1>9. CASE Exit(p)
  BY <1>1, <1>2, <1>3, <1>4, <1>5, <1>9
<1>10. CASE Spawn(p)
  <2>1. PICK x \in Process : host' = [host EXCEPT ![p] = x] /\ x.birth = changes'
    BY <1>6, <1>10
  <2>2. mainPid' \in Pids \union {NoPid}
    BY <1>6, <1>10
  <2> QED
    BY <1>1, <1>2, <1>3, <1>4, <2>1, <2>2
<1>11. CASE SetCredentials(p)
  <2>1. PICK x \in Process : /\ host' = [host EXCEPT ![p] = x]
                             /\ x.birth = host[p].birth /\ x.unit = host[p].unit
    BY <1>7, <1>11
  <2>2. host[p] # Nothing /\ mainPid' \in Pids \union {NoPid}
    BY <1>7, <1>11
  <2> QED
    BY <1>1, <1>2, <1>3, <1>4, <2>1, <2>2
<1> QED
  BY <1>8, <1>9, <1>10, <1>11

LEMMA HostInv == ASSUME ObserverInv, Host PROVE ObserverInv'
<1> USE Basics
<1>1. /\ TypeOK /\ TurnInv /\ PlaceInv /\ SharingInv /\ TimelyInv /\ TimeoutHasACause
      /\ UNCHANGED <<turn, ctx, results, at, seen, pidCache, cache, worked, hasCommand>>
  BY DEF ObserverInv, Host, Exit, Spawn, SetCredentials, Change, engineVars, workerVars
<1>2. \E q \in Pids : TRUE
  BY DEF Host
<1>3. changes' = changes + 1 /\ changes' \in 0..MaxChanges /\ mainPid' \in Pids \union {NoPid}
  BY <1>2, HostSteps
<1>4. host' \in [Pids -> Process \union {Nothing}]
  <2>1. \A q \in Pids : host'[q] \in Process \union {Nothing}
    BY HostSteps
  <2>2. host' = [q \in Pids |-> host'[q]]
    BY <1>2, HostSteps
  <2> QED
    BY <2>1, <2>2
<1>5. TypeOK'
  BY <1>1, <1>3, <1>4 DEF TypeOK
<1>6. TurnInv' /\ SharingInv' /\ TimelyInv' /\ TimeoutHasACause'
  BY <1>1 DEF TurnInv, SharingInv, TimelyInv, TimeoutHasACause, OfContext, NoTimeout,
              Settled, Answered, Abandoned
<1>7. changes \in Nat /\ changes' \in Nat
  BY <1>1, <1>3, MaxChangesAssumption DEF TypeOK
<1>8. ASSUME NEW p \in Pids, host'[p] # Nothing PROVE host'[p].birth <= changes'
  <2>1. CASE host'[p].birth = changes'
    BY <1>7, <2>1
  <2>2. CASE host[p] # Nothing /\ host'[p].birth = host[p].birth
    <3>1. host[p].birth \in Nat /\ host[p].birth <= changes
      BY <1>1, <2>2, MaxChangesAssumption DEF TypeOK, PlaceInv, Process
    <3> QED
      BY <1>3, <1>7, <2>2, <3>1
  <2> QED
    BY <1>8, <2>1, <2>2, HostSteps
<1>9. ASSUME NEW i \in Checks, at[i] = "cgroup" PROVE SameProcess(seen[i])'
  <2> DEFINE o == seen[i]
             p == o.lookup.pid
  <2>1. SameProcess(o) /\ o \in Observation /\ o.lookup.err = "none" /\ o.status # Nothing
    BY <1>1, <1>9 DEF PlaceInv, TypeOK, SameProcess
  <2>2. p \in Pids /\ o.status \in Process
    BY <2>1 DEF Observation, Lookup
  <2>3. o.status.birth \in Nat /\ o.status.birth <= changes
    BY <2>1, <2>2, MaxChangesAssumption DEF Process, SameProcess
  <2>4. o.status.birth <= changes' /\ o.status.birth # changes'
    BY <1>3, <1>7, <2>3
  <2>5. ASSUME host'[p] # Nothing, host'[p].birth = o.status.birth
        PROVE  host'[p].unit = o.status.unit
    <3>1. /\ host[p] # Nothing
          /\ host'[p].birth = host[p].birth /\ host'[p].unit = host[p].unit
      BY <2>2, <2>4, <2>5, HostSteps
    <3> QED
      BY <2>1, <2>5, <3>1 DEF SameProcess
  <2> QED
    BY <1>1, <2>1, <2>4, <2>5 DEF SameProcess
<1>10. PlaceInv'
  BY <1>1, <1>8, <1>9 DEF PlaceInv, Grounded
<1> QED
  BY <1>5, <1>6, <1>10 DEF ObserverInv

LEMMA StutterInv == ASSUME ObserverInv, UNCHANGED vars PROVE ObserverInv'
<1>1. UNCHANGED <<turn, ctx, results, at, seen, pidCache, cache, worked, hasCommand,
                  host, mainPid, changes>>
  BY DEF vars, engineVars, workerVars, hostVars
<1> QED
  BY <1>1 DEF ObserverInv, TypeOK, TurnInv, PlaceInv, SharingInv, TimelyInv, TimeoutHasACause,
              SameProcess, Grounded, OfContext, NoTimeout, Settled, Answered, Abandoned

LEMMA InitInv == Init => ObserverInv
<1> USE Basics
<1> SUFFICES ASSUME Init PROVE ObserverInv
  OBVIOUS
<1>1. PICK p \in Pids, as \in Credentials :
        /\ mainPid = p
        /\ host = [q \in Pids |-> IF q = p THEN [unit |-> TRUE, as |-> as, birth |-> 0]
                                           ELSE Nothing]
  BY DEF Init
<1>2. 0 \in 0..MaxChanges /\ TRUE \in BOOLEAN
  BY MaxChangesAssumption
<1>3. ASSUME NEW unit \in BOOLEAN
      PROVE  LET x == [unit |-> unit, as |-> as, birth |-> 0] IN x \in Process /\ x.birth = 0
  BY <1>2 DEF Process
<1> DEFINE process == [unit |-> TRUE, as |-> as, birth |-> 0]
<1>4. process \in Process /\ process.birth = 0
  BY <1>2, <1>3, Zenon
<1> HIDE DEF process
<1>5. /\ host \in [Pids -> Process \union {Nothing}]
      /\ \A q \in Pids : host[q] # Nothing => host[q].birth = 0
  BY <1>1, <1>4 DEF process
<1>6. TypeOK
  <2>1. turn \in 1..(Siblings + 1) /\ changes \in 0..MaxChanges
    BY <1>2, SiblingsAssumption DEF Init
  <2> QED
    BY <1>1, <1>5, <2>1 DEF Init, TypeOK, Places
<1>7. PlaceInv
  BY <1>5, MaxChangesAssumption DEF Init, PlaceInv
<1>8. TurnInv /\ SharingInv /\ TimelyInv /\ TimeoutHasACause
  BY DEF Init, TurnInv, SharingInv, TimelyInv, TimeoutHasACause, OfContext, Settled, Answered,
         Abandoned, Checks
<1> QED
  BY <1>6, <1>7, <1>8 DEF ObserverInv

-----------------------------------------------------------------------------
\* What a check makes of the field it looks at, in terms of sets.
LEMMA MatchesFacts ==
  ASSUME NEW i \in Checks, NEW file
  PROVE  /\ Matches(i, file) => HasCredential(i, file)
         /\ HasCredential(i, file)
            /\ (Kind[i] \in {"uid", "gid"} \/ RepeatsNothing(Declared[i])) => Matches(i, file)
<1> DEFINE value == file[Field(Kind[i])]
           names == {LinuxCapabilityName(b) : b \in value}
<1>1. CASE Kind[i] \in {"uid", "gid"}
  <2>1. Matches(i, file) <=> value[2] = Declared[i]
    BY <1>1 DEF Matches, ParseEffectiveID
  <2>2. HasCredential(i, file) <=> value[2] = Declared[i]
    BY <1>1 DEF HasCredential
  <2> QED
    BY <2>1, <2>2
<1>2. CASE Kind[i] \notin {"uid", "gid"}
  <2>1. Matches(i, file) <=> SortCanonical(Declared[i]) = [name \in names |-> 1]
    BY <1>2 DEF Matches, ParseCapabilityMask
  <2>2. HasCredential(i, file) <=> NamesOn(Declared[i]) = names
    BY <1>2 DEF HasCredential
  <2> HIDE DEF names
  <2>3. DOMAIN SortCanonical(Declared[i]) = NamesOn(Declared[i])
    BY DEF SortCanonical
  <2>4. SortCanonical(Declared[i]) = [name \in names |-> 1] => NamesOn(Declared[i]) = names
    BY <2>3
  <2>5. ASSUME NamesOn(Declared[i]) = names, RepeatsNothing(Declared[i])
        PROVE  SortCanonical(Declared[i]) = [name \in names |-> 1]
    BY <2>5, OnceEach
  <2> QED
    BY <1>2, <2>1, <2>2, <2>4, <2>5
<1> QED
  BY <1>1, <1>2

(***************************************************************************)
(* The invariant holds throughout, for any number of checks and any host.  *)
(***************************************************************************)
THEOREM ObserverInvariant == Spec => []ObserverInv
<1>1. ASSUME ObserverInv, [Next]_vars PROVE ObserverInv'
  <2>1. ASSUME NEW i \in Checks, Worker(i) PROVE ObserverInv'
    BY <1>1, <2>1, LookingInv, LookupStepsInv, ReadStatusInv, ReadCgroupInv, StoreInv DEF Worker
  <2> QED
    BY <1>1, <2>1, SettleInv, LaunchInv, ExpireInv, HostInv, StutterInv DEF Next
<1> QED
  BY InitInv, <1>1, PTL DEF Spec

(***************************************************************************)
(* Whatever answers, dies and changes hands meanwhile, a check passes or   *)
(* fails only on a process seen in the service's control group, and        *)
(* passes only on the credential the contract asks for.                    *)
(***************************************************************************)
THEOREM VerdictsAreGrounded == Spec => []VerdictIsGrounded
<1>1. ASSUME ObserverInv PROVE VerdictIsGrounded
  <2> SUFFICES ASSUME NEW i \in Checks, Settled(i), results[i].verdict \in {"PASS", "FAIL"}
      PROVE LET o == results[i].on
                has == HasCredential(i, StatusFile[o.status.as])
            IN /\ o.lookup.err = "none" /\ o.lookup.exit = "zero"
               /\ o.cgroup.unit
               /\ o.status.birth = o.cgroup.birth => o.status.unit
               /\ results[i].verdict = "PASS" => has
               /\ has /\ (Kind[i] \in {"uid", "gid"} \/ RepeatsNothing(Declared[i])) =>
                    results[i].verdict = "PASS"
    BY DEF VerdictIsGrounded
  <2> DEFINE o == results[i].on
             file == StatusFile[o.status.as]
  <2>1. Answered(i)
    BY <1>1 DEF ObserverInv, TurnInv, TypeOK, Settled, Answered, Abandoned
  <2>2. /\ at[i] = "done" /\ o = seen[i] /\ o \in Observation
        /\ results[i].verdict = Verdict(i, o)
    BY <1>1, <2>1 DEF ObserverInv, TurnInv, PlaceInv, TypeOK
  <2>3. o.err = "none" /\ (Verdict(i, o) = "PASS" <=> Matches(i, file))
    BY <2>2, VerdictFacts
  <2>4. Grounded(o) /\ o.lookup.err = "none"
    BY <1>1, <2>2, <2>3 DEF ObserverInv, PlaceInv, Grounded
  <2>5. o.lookup.exit = "zero"
    BY <2>2, <2>4 DEF Observation, Lookup
  <2> QED
    BY <2>2, <2>3, <2>4, <2>5, MatchesFacts DEF Grounded
<1> QED
  BY ObserverInvariant, <1>1, PTL

(***************************************************************************)
(* Of the checks the engine took an answer from, or still waits for, one   *)
(* at most ran systemctl or read /proc, however many deadlines fire.       *)
(***************************************************************************)
THEOREM OneCheckWorks == Spec => []WorkIsShared
<1>1. ObserverInv => WorkIsShared
  <2> SUFFICES ASSUME ObserverInv, NEW i \in worked, NEW j \in worked,
                      ~Abandoned(i), ~Abandoned(j)
               PROVE  i = j
    BY DEF WorkIsShared
  <2>1. i \in Checks /\ j \in Checks /\ i \in Nat /\ j \in Nat
    BY Basics DEF ObserverInv, TypeOK
  <2>2. ~(i < j) /\ ~(j < i)
    BY <2>1 DEF ObserverInv, SharingInv
  <2> QED
    BY <2>1, <2>2
<1> QED
  BY ObserverInvariant, <1>1, PTL

(***************************************************************************)
(* Without a timeout all checks of a service are judged on one observation.*)
(***************************************************************************)
THEOREM AnswersAreOne == Spec => []OneObservation
<1>1. ObserverInv => OneObservation
  BY DEF ObserverInv, TimelyInv, TurnInv, OneObservation
<1> QED
  BY ObserverInvariant, <1>1, PTL

(***************************************************************************)
(* A timeout is only reported when a deadline has fired, the check's own   *)
(* or that of a check before it.                                           *)
(***************************************************************************)
THEOREM TimeoutsHaveCauses == Spec => []TimeoutHasACause
<1>1. ObserverInv => TimeoutHasACause
  BY DEF ObserverInv
<1> QED
  BY ObserverInvariant, <1>1, PTL
=============================================================================
