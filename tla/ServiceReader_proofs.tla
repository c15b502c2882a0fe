------------------------- MODULE ServiceReader_proofs -------------------------
(***************************************************************************)
(* ServiceReader for every number of checks, every set of failures and any *)
(* amount of change: all verdicts on a service come from one snapshot, and *)
(* systemctl is started for it once at most.                               *)
(***************************************************************************)
EXTENDS ServiceReader, FiniteSetTheorems, TLAPS

\* A list that repeats nothing is, sorted, the set of its names, each there once.
LEMMA OnceEach ==
  ASSUME NEW list, RepeatsNothing(list)
  PROVE  SortCanonical(list) = [name \in NamesOn(list) |-> 1]
<1> SUFFICES ASSUME NEW name \in NamesOn(list) PROVE Times(list, name) = 1
  BY DEF SortCanonical
<1>1. PICK k \in DOMAIN list : list[k] = name
  BY DEF NamesOn
<1>2. {j \in DOMAIN list : list[j] = name} = {k}
  BY <1>1 DEF RepeatsNothing
<1> QED
  BY <1>2, FS_Singleton DEF Times

\* Two lists that are the same when sorted have the same names.
LEMMA SameNames ==
  ASSUME NEW one, NEW other, SortCanonical(one) = SortCanonical(other)
  PROVE  NamesOn(one) = NamesOn(other)
<1>1. \A list : DOMAIN SortCanonical(list) = NamesOn(list)
  BY DEF SortCanonical
<1> QED
  BY <1>1

\* The state check is one of the checks, and no observation is Nothing.
LEMMA Basics ==
  /\ State \in Checks
  /\ Nothing \notin Observation
  /\ \A e \in Errs \ {"none"} : Failed(e) \in Observation /\ Failed(e).err = e
<1>1. State \in Checks
  BY LastAssumption DEF State, Checks
<1>2. ASSUME Nothing \in Observation PROVE FALSE
  <2>1. DOMAIN Nothing = {"none"}
    BY DEF Nothing
  <2>2. "err" \in DOMAIN Nothing
    BY <1>2 DEF Observation
  <2> QED
    BY <2>1, <2>2
<1>3. ASSUME NEW e \in Errs \ {"none"} PROVE Failed(e) \in Observation /\ Failed(e).err = e
  BY <1>3 DEF Failed, Observation
<1> QED
  BY <1>1, <1>2, <1>3

\* What the checks make of a unit's properties.
LEMMA JudgementFacts ==
  ASSUME NEW i \in Checks, NEW p
  PROVE  Judgement(i, p) \in {"PASS", "FAIL", "INSUFFICIENT_DATA/PARSE_ERROR"}
<1>1. Kind[i] \in Kinds
  BY KindAssumption
<1>2. \A same : PassIf(same) \in {"PASS", "FAIL"}
  BY DEF PassIf
<1>3. CASE Kind[i] = "state"
  BY <1>2, <1>3 DEF Judgement
<1>4. CASE Kind[i] = "restart"
  BY <1>2, <1>4 DEF Judgement
<1>5. CASE Kind[i] = "capabilities"
  BY <1>2, <1>5 DEF Judgement
<1>6. CASE Kind[i] \in {"run_as.user", "run_as.group"}
  BY <1>2, <1>6 DEF Judgement
<1> QED
  BY <1>1, <1>3, <1>4, <1>5, <1>6 DEF Kinds

\* What an observation is answered with.
LEMMA VerdictFacts ==
  ASSUME NEW i \in Checks, NEW o \in Observation
  PROVE  /\ Verdict(i, o) \in AllVerdicts
         /\ Verdict(i, o) \in {"PASS", "FAIL"} => o.err = "none"
         /\ Verdict(i, o) = "ERROR/TIMEOUT" => o.err = "ctx"
<1>1. o.err \in Errs
  BY DEF Observation, Errs
<1>2. CASE o.err = "none"
  <2>1. Verdict(i, o) = Judgement(i, o.properties)
    BY <1>2 DEF Verdict
  <2> QED
    BY <1>2, <2>1, JudgementFacts DEF AllVerdicts
<1>3. CASE o.err = "ctx"
  BY <1>3 DEF Verdict, AllVerdicts
<1>4. CASE o.err = "notfound"
  BY <1>4 DEF Verdict, AllVerdicts
<1>5. CASE o.err = "namespace"
  BY <1>5 DEF Verdict, AllVerdicts
<1>6. CASE o.err = "permission"
  BY <1>6 DEF Verdict, AllVerdicts
<1>7. CASE o.err = "command"
  BY <1>7 DEF Verdict, AllVerdicts
<1>8. CASE o.err \in {"parse", "other"}
  BY <1>8 DEF Verdict, AllVerdicts
<1> QED
  BY <1>1, <1>2, <1>3, <1>4, <1>5, <1>6, <1>7, <1>8 DEF Errs

\* Whatever systemctl answers, the reader keeps an observation of it.
LEMMA InspectedFacts ==
  ASSUME TypeOK, NEW a \in {Answer("zero", unit)} \union OtherAnswers
  PROVE  Inspected(a) \in Observation /\ Inspected(a).err # "ctx"
<1> DEFINE err == ReadError(a, ParseSystemctlShow(a))
<1>1. err \in Errs \ {"ctx"}
  BY DEF ReadError, ParseSystemctlShow, MapSystemctlFailure, Errs
<1>2. a.properties \in Printed
  BY DEF TypeOK, Printed, Answer
<1>3. CASE err = "none"
  BY <1>2, <1>3 DEF Inspected, Observation, TypeOK
<1>4. CASE err # "none"
  BY <1>1, <1>4, Basics DEF Inspected
<1> QED
  BY <1>3, <1>4

LEMMA InitInv == Init => CoreInv
<1> SUFFICES ASSUME Init PROVE CoreInv
  OBVIOUS
<1>1. TypeOK
  BY LastAssumption, MaxChangesAssumption DEF Init, TypeOK, Places
<1>2. TurnInv /\ StateInv /\ SiblingInv /\ AnswerInv /\ OneShow /\ TimeoutIsOwn
  BY Basics DEF Init, TurnInv, StateInv, SiblingInv, AnswerInv, OneShow, TimeoutIsOwn,
                Passed, Evaluated
<1> QED
  BY <1>1, <1>2 DEF CoreInv

-----------------------------------------------------------------------------
\* Settling the check whose turn it is: v is on record for it, about o.
LEMMA RecordInv ==
  ASSUME CoreInv, turn \in Checks, NEW v \in AllVerdicts,
         NEW o \in Observation \union {Nothing}, Record(v, o),
         v \in {"PASS", "FAIL"} =>
           /\ at[turn] = "done" /\ o = seen[turn] /\ o # Nothing /\ o.err = "none"
           /\ v = Verdict(turn, o),
         v = "ERROR/TIMEOUT" => ctx[turn] = "ended"
  PROVE  CoreInv'
<1> USE Basics
<1>1. /\ TypeOK /\ TurnInv /\ StateInv /\ SiblingInv /\ AnswerInv /\ OneShow /\ TimeoutIsOwn
  BY DEF CoreInv
<1>2. /\ UNCHANGED <<ctx, at, seen, cache, shows, unitVars>>
      /\ turn' = turn + 1 /\ turn \in Nat
      /\ results' = [results EXCEPT ![turn] = [verdict |-> v, on |-> o]]
  BY <1>1 DEF Record, TypeOK
<1>3. /\ results'[turn] = [verdict |-> v, on |-> o] /\ results[turn] = Nothing
      /\ results'[turn].verdict = v /\ results'[turn].on = o
      /\ \A i \in Checks \ {turn} : results'[i] = results[i]
  BY <1>1, <1>2 DEF TypeOK, TurnInv, Checks
<1>4. TypeOK'
  <2>1. turn' \in 1..(Last + 1)
    BY <1>2, LastAssumption DEF Checks
  <2>2. results' \in [Checks -> [verdict : AllVerdicts, on : Observation \union {Nothing}]
                                \union {Nothing}]
    BY <1>1, <1>2 DEF TypeOK
  <2> QED
    BY <1>1, <1>2, <2>1, <2>2 DEF TypeOK, unitVars
<1>5. TurnInv'
  <2> SUFFICES ASSUME NEW i \in Checks
               PROVE  (results'[i] # Nothing => i < turn') /\ (at'[i] # "idle" => i <= turn')
    BY DEF TurnInv
  <2>1. i \in Nat /\ turn < turn' /\ turn' \in Nat
    BY <1>2, LastAssumption DEF Checks
  <2>2. (results[i] # Nothing => i < turn) /\ (at[i] # "idle" => i <= turn)
    BY <1>1 DEF TurnInv
  <2>3. CASE i = turn
    BY <1>2, <2>1, <2>2, <2>3
  <2>4. CASE i # turn
    BY <1>2, <1>3, <2>1, <2>2, <2>4
  <2> QED
    BY <2>3, <2>4
\* A verdict rests on what is cached.
<1>6. v \in {"PASS", "FAIL"} => cache # Nothing /\ cache.err = "none" /\ o = cache
  <2>1. CASE turn = State
    BY <1>1, <2>1 DEF StateInv
  <2>2. CASE turn # State
    <3>1. Failed("ctx").err # "none"
      BY DEF Failed
    <3> QED
      BY <1>1, <2>2, <3>1 DEF StateInv, SiblingInv
  <2> QED
    BY <2>1, <2>2
<1>7. Passed(State)' => at[State] = "done" /\ cache # Nothing /\ cache.err = "none"
  BY <1>1, <1>3, <1>6 DEF Passed, StateInv
<1>8. StateInv'
  BY <1>1, <1>2, <1>7 DEF StateInv
<1>9. Passed(State) => Passed(State)'
  BY <1>3 DEF Passed
<1>10. SiblingInv'
  BY <1>1, <1>2, <1>9 DEF SiblingInv, Failed
<1>11. \A i \in Checks : Evaluated(i)' => at[i] = "done" /\ cache # Nothing
                                          /\ results'[i].on = cache
                                          /\ results'[i].verdict = Verdict(i, cache)
  BY <1>1, <1>3, <1>6 DEF Evaluated, AnswerInv
<1>12. AnswerInv'
  BY <1>1, <1>2, <1>11 DEF AnswerInv
<1>13. OneShow'
  BY <1>1, <1>2 DEF OneShow
<1>14. TimeoutIsOwn'
  BY <1>1, <1>2, <1>3 DEF TimeoutIsOwn
<1> QED
  BY <1>4, <1>5, <1>8, <1>10, <1>12, <1>13, <1>14 DEF CoreInv

\* A step of the goroutine of check i that leaves results, caches and clocks alone.
LEMMA WorkInv ==
  ASSUME CoreInv, NEW i \in Checks, NEW p \in Places,
         NEW o \in Observation \union {Nothing},
         at[i] # "done", at[i] # "idle", p # "idle",
         UNCHANGED <<turn, results, ctx, cache, unitVars>>,
         at' = [at EXCEPT ![i] = p],
         seen' = [seen EXCEPT ![i] = o],
         shows' \subseteq {State},
         i # State => p \in {"run", "lookup", "done"},
         p = "done" => o \in {cache, Failed("ctx")},
         p = "done" /\ i = State => o = Failed("ctx"),
         p \in {"store", "done"} => o # Nothing,
         o # Nothing /\ o.err = "ctx" => ctx[i] = "ended"
  PROVE  CoreInv'
<1> USE Basics
<1>1. /\ TypeOK /\ TurnInv /\ StateInv /\ SiblingInv /\ AnswerInv /\ OneShow /\ TimeoutIsOwn
  BY DEF CoreInv
<1>2. /\ at'[i] = p /\ seen'[i] = o
      /\ \A j \in Checks \ {i} : at'[j] = at[j] /\ seen'[j] = seen[j]
  BY <1>1 DEF TypeOK
<1>3. TypeOK'
  BY <1>1 DEF TypeOK, unitVars
<1>4. TurnInv'
  BY <1>1, <1>2 DEF TurnInv
<1>5. StateInv'
  BY <1>1, <1>2 DEF StateInv, Passed, Errs
<1>6. SiblingInv'
  <2> SUFFICES ASSUME NEW j \in Checks \ {State}
               PROVE  /\ at'[j] \in {"idle", "run", "lookup", "done"}
                      /\ at'[j] # "idle" => Passed(State)
                      /\ at'[j] = "done" => seen'[j] \in {cache, Failed("ctx")}
    BY DEF SiblingInv, Passed, Failed
  <2>1. CASE j = i
    BY <1>1, <1>2, <2>1 DEF SiblingInv
  <2>2. CASE j # i
    BY <1>1, <1>2, <2>2 DEF SiblingInv
  <2> QED
    BY <2>1, <2>2
<1>7. AnswerInv'
  BY <1>1, <1>2 DEF AnswerInv, Evaluated
<1>8. OneShow'
  BY DEF OneShow
<1>9. TimeoutIsOwn'
  BY <1>1 DEF TimeoutIsOwn
<1> QED
  BY <1>3, <1>4, <1>5, <1>6, <1>7, <1>8, <1>9 DEF CoreInv

-----------------------------------------------------------------------------
LEMMA WorkerInv == ASSUME CoreInv, NEW i \in Checks, Worker(i) PROVE CoreInv'
<1> USE Basics
<1>1. /\ TypeOK /\ TurnInv /\ StateInv /\ SiblingInv /\ AnswerInv /\ OneShow /\ TimeoutIsOwn
      /\ cache \in Observation \union {Nothing} /\ seen[i] \in Observation \union {Nothing}
      /\ at[i] \in Places /\ at \in [Checks -> Places]
      /\ seen \in [Checks -> Observation \union {Nothing}]
  BY DEF CoreInv, TypeOK
\* Beyond its look into the cache only the state check gets.
<1>2. at[i] \in {"show", "showing", "store"} => i = State /\ cache = Nothing
  BY <1>1 DEF SiblingInv, StateInv
<1>3. i # State /\ at[i] # "idle" => cache # Nothing /\ cache.err = "none"
  BY <1>1 DEF SiblingInv, StateInv
<1>4. i = State /\ at[i] # "done" => cache = Nothing
  BY <1>1 DEF StateInv
<1>5. ASSUME Begin(i) PROVE CoreInv'
  <2>1. CASE ctx[i] = "ended"
    <3> DEFINE o == Failed("ctx")
    <3>1. o \in Observation /\ o.err = "ctx"
      BY DEF Errs
    <3>2. at' = [at EXCEPT ![i] = "done"] /\ seen' = [seen EXCEPT ![i] = o] /\ at[i] = "run"
      BY <1>5, <2>1 DEF Begin, Go, See
    <3>3. UNCHANGED <<turn, results, ctx, cache, unitVars>> /\ shows' = shows
      BY <1>5 DEF Begin, engineVars
    <3> HIDE DEF o
    <3> QED
      BY <1>1, <2>1, <3>1, <3>2, <3>3, WorkInv DEF Places, OneShow, o
  <2>2. CASE ctx[i] # "ended"
    <3>1. at' = [at EXCEPT ![i] = "lookup"] /\ seen' = [seen EXCEPT ![i] = seen[i]]
          /\ at[i] = "run"
      BY <1>1, <1>5, <2>2 DEF Begin, Go
    <3>2. UNCHANGED <<turn, results, ctx, cache, unitVars>> /\ shows' = shows
      BY <1>5 DEF Begin, engineVars
    <3>3. seen[i] # Nothing /\ seen[i].err = "ctx" => ctx[i] = "ended"
      BY <1>1 DEF AnswerInv
    <3> QED
      BY <1>1, <3>1, <3>2, <3>3, WorkInv DEF Places, OneShow
  <2> QED
    BY <2>1, <2>2
<1>6. ASSUME LookInCache(i) PROVE CoreInv'
  <2>0. /\ at[i] = "lookup" /\ UNCHANGED <<turn, results, ctx, cache, unitVars>>
        /\ shows' = shows
    BY <1>6 DEF LookInCache, engineVars
  <2>1. CASE cache # Nothing
    <3>1. at' = [at EXCEPT ![i] = "done"] /\ seen' = [seen EXCEPT ![i] = cache]
      BY <1>6, <2>1 DEF LookInCache, Go, See
    <3>2. i # State /\ cache.err = "none"
      BY <1>3, <1>4, <2>0, <2>1
    <3> QED
      BY <1>1, <2>0, <2>1, <3>1, <3>2, WorkInv DEF Places, OneShow
  <2>2. CASE cache = Nothing /\ hasCommand
    <3>1. at' = [at EXCEPT ![i] = "show"] /\ seen' = [seen EXCEPT ![i] = seen[i]]
      BY <1>1, <1>6, <2>2 DEF LookInCache, Go
    <3>2. i = State
      BY <1>3, <2>0, <2>2
    <3>3. seen[i] # Nothing /\ seen[i].err = "ctx" => ctx[i] = "ended"
      BY <1>1 DEF AnswerInv
    <3> QED
      BY <1>1, <2>0, <3>1, <3>2, <3>3, WorkInv DEF Places, OneShow
  <2>3. CASE cache = Nothing /\ ~hasCommand
    <3> DEFINE o == Failed("command")
    <3>1. o \in Observation /\ o.err = "command"
      BY DEF Errs
    <3>2. at' = [at EXCEPT ![i] = "store"] /\ seen' = [seen EXCEPT ![i] = o]
      BY <1>6, <2>3 DEF LookInCache, Go, See
    <3>3. i = State
      BY <1>3, <2>0, <2>3
    <3> HIDE DEF o
    <3> QED
      BY <1>1, <2>0, <3>1, <3>2, <3>3, WorkInv DEF Places, OneShow
  <2> QED
    BY <2>1, <2>2, <2>3
<1>7. ASSUME StartShow(i) PROVE CoreInv'
  <2>0. at[i] = "show" /\ UNCHANGED <<turn, results, ctx, cache, unitVars>> /\ i = State
    BY <1>2, <1>7 DEF StartShow, engineVars
  <2>1. CASE ctx[i] = "ended" /\ Go(i, "store") /\ See(i, Failed("ctx")) /\ UNCHANGED shows
    <3> DEFINE o == Failed("ctx")
    <3>1. o \in Observation /\ o.err = "ctx"
      BY DEF Errs
    <3>2. at' = [at EXCEPT ![i] = "store"] /\ seen' = [seen EXCEPT ![i] = o] /\ shows' = shows
      BY <2>1 DEF Go, See
    <3> HIDE DEF o
    <3> QED
      BY <1>1, <2>0, <2>1, <3>1, <3>2, WorkInv DEF Places, OneShow
  <2>2. CASE Go(i, "showing") /\ shows' = shows \union {i} /\ UNCHANGED seen
    <3>1. /\ at' = [at EXCEPT ![i] = "showing"] /\ seen' = [seen EXCEPT ![i] = seen[i]]
          /\ shows' = shows \union {i}
      BY <1>1, <2>2 DEF Go, TypeOK
    <3>2. seen[i] # Nothing /\ seen[i].err = "ctx" => ctx[i] = "ended"
      BY <1>1 DEF AnswerInv
    <3> QED
      BY <1>1, <2>0, <3>1, <3>2, WorkInv DEF Places, OneShow
  <2>3. ASSUME NEW e \in StartFailures,
               Go(i, "store") /\ See(i, Failed(e)) /\ UNCHANGED shows
        PROVE  CoreInv'
    <3> DEFINE o == Failed(e)
    <3>1. o \in Observation /\ o.err # "ctx"
      BY StartAssumption DEF Errs
    <3>2. at' = [at EXCEPT ![i] = "store"] /\ seen' = [seen EXCEPT ![i] = o] /\ shows' = shows
      BY <2>3 DEF Go, See
    <3> HIDE DEF o
    <3> QED
      BY <1>1, <2>0, <3>1, <3>2, WorkInv DEF Places, OneShow
  <2> QED
    BY <1>7, <2>1, <2>2, <2>3 DEF StartShow
<1>8. ASSUME EndShow(i) PROVE CoreInv'
  <2>1. PICK o \in Observation : See(i, o) /\ o.err # "ctx"
    BY <1>1, <1>8, InspectedFacts DEF EndShow
  <2>2. /\ at[i] = "showing" /\ UNCHANGED <<turn, results, ctx, cache, unitVars>>
        /\ shows' = shows /\ at' = [at EXCEPT ![i] = "store"]
        /\ seen' = [seen EXCEPT ![i] = o] /\ i = State
    BY <1>2, <1>8, <2>1 DEF EndShow, engineVars, Go, See
  <2> QED
    BY <1>1, <2>1, <2>2, WorkInv DEF Places, OneShow
<1>9. ASSUME KillShow(i) PROVE CoreInv'
  <2>1. PICK o \in Observation : See(i, o)
    <3>1. \A a : MapSystemctlFailure(a) \in Errs \ {"none"}
      BY DEF MapSystemctlFailure, Errs
    <3> QED
      BY <1>9, <3>1 DEF KillShow, Errs
  <2>2. /\ at[i] = "showing" /\ UNCHANGED <<turn, results, ctx, cache, unitVars>>
        /\ shows' = shows /\ at' = [at EXCEPT ![i] = "store"] /\ ctx[i] = "ended"
        /\ seen' = [seen EXCEPT ![i] = o] /\ i = State
    BY <1>2, <1>9, <2>1 DEF KillShow, engineVars, Go, See
  <2> QED
    BY <1>1, <2>1, <2>2, WorkInv DEF Places, OneShow
\* The one store: of the state check, into an empty cache, before any verdict.
<1>10. ASSUME Store(i) PROVE CoreInv'
  <2>1. /\ at[i] = "store" /\ i = State /\ cache = Nothing /\ cache' = seen[State]
        /\ at' = [at EXCEPT ![State] = "done"]
        /\ UNCHANGED <<turn, results, ctx, seen, shows, unitVars>>
    BY <1>2, <1>10 DEF Store, engineVars, Go
  <2>2. /\ at'[State] = "done" /\ seen[State] # Nothing
        /\ \A j \in Checks \ {State} : at'[j] = at[j]
    BY <1>1, <2>1 DEF AnswerInv
  <2>3. ~Passed(State) /\ \A j \in Checks \ {State} : at[j] = "idle"
    BY <1>1, <2>1 DEF StateInv, SiblingInv
  <2>4. \A j \in Checks : ~Evaluated(j)
    BY <1>1, <2>1 DEF AnswerInv
  <2>5. TypeOK'
    BY <1>1, <2>1 DEF TypeOK, unitVars, Places
  <2>6. TurnInv'
    BY <1>1, <2>1, <2>2 DEF TurnInv
  <2>7. StateInv'
    BY <2>1, <2>2, <2>3 DEF StateInv, Passed
  <2>8. SiblingInv'
    BY <2>2, <2>3 DEF SiblingInv
  <2>9. AnswerInv'
    BY <1>1, <2>1, <2>2, <2>4 DEF AnswerInv, Evaluated
  <2>10. OneShow' /\ TimeoutIsOwn'
    BY <1>1, <2>1 DEF OneShow, TimeoutIsOwn
  <2> QED
    BY <2>5, <2>6, <2>7, <2>8, <2>9, <2>10 DEF CoreInv
<1> QED
  BY <1>5, <1>6, <1>7, <1>8, <1>9, <1>10 DEF Worker

LEMMA EngineInv ==
  ASSUME CoreInv, Block \/ Launch \/ Expire \/ TakeResult \/ StopWaiting
  PROVE  CoreInv'
<1> USE Basics
<1>1. /\ TypeOK /\ TurnInv /\ StateInv /\ SiblingInv /\ AnswerInv /\ OneShow /\ TimeoutIsOwn
  BY DEF CoreInv
<1>2. CASE Block
  <2>1. turn \in Checks /\ Record("GATED", Nothing)
    BY <1>2 DEF Block
  <2> QED
    BY <2>1, RecordInv DEF AllVerdicts
<1>3. CASE StopWaiting
  <2>1. turn \in Checks /\ ctx[turn] = "ended" /\ Record("ERROR/TIMEOUT", Nothing)
    BY <1>3 DEF StopWaiting
  <2> QED
    BY <2>1, RecordInv DEF AllVerdicts
<1>4. CASE TakeResult
  <2>1. turn \in Checks /\ at[turn] = "done"
    BY <1>4 DEF TakeResult
  <2> DEFINE v == Verdict(turn, seen[turn])
  <2>2. Record(v, seen[turn])
    BY <1>4 DEF TakeResult
  <2>3. seen[turn] \in Observation
    BY <1>1, <2>1 DEF TypeOK, AnswerInv
  <2>4. seen[turn].err = "ctx" => ctx[turn] = "ended"
    BY <1>1, <2>1, <2>3 DEF AnswerInv
  <2>5. /\ v \in AllVerdicts
        /\ v \in {"PASS", "FAIL"} => seen[turn].err = "none"
        /\ v = "ERROR/TIMEOUT" => seen[turn].err = "ctx"
    BY <2>1, <2>3, VerdictFacts
  <2> QED
    BY <2>1, <2>2, <2>3, <2>4, <2>5, RecordInv
<1>5. CASE Launch
  <2>1. /\ turn \in Checks /\ at[turn] = "idle"
        /\ turn # State => Passed(State)
        /\ at' = [at EXCEPT ![turn] = "run"]
        /\ UNCHANGED <<turn, ctx, results, seen, cache, shows, unitVars>>
    BY <1>5 DEF Launch, Needs, engineVars
  <2>2. at'[turn] = "run" /\ \A j \in Checks \ {turn} : at'[j] = at[j]
    BY <1>1, <2>1 DEF TypeOK
  <2>3. TypeOK'
    BY <1>1, <2>1 DEF TypeOK, unitVars, Places
  <2>4. TurnInv'
    <3> SUFFICES ASSUME NEW j \in Checks
                 PROVE  (results[j] # Nothing => j < turn) /\ (at'[j] # "idle" => j <= turn)
      BY <2>1 DEF TurnInv
    <3>1. CASE j = turn
      BY <1>1, <3>1, LastAssumption DEF TurnInv, Checks
    <3>2. CASE j # turn
      BY <1>1, <2>2, <3>2 DEF TurnInv
    <3> QED
      BY <3>1, <3>2
  <2>5. StateInv'
    BY <1>1, <2>1, <2>2 DEF StateInv, Passed
  <2>6. SiblingInv'
    BY <1>1, <2>1, <2>2 DEF SiblingInv, Passed, Failed
  <2>7. AnswerInv'
    BY <1>1, <2>1, <2>2 DEF AnswerInv, Evaluated
  <2>8. OneShow' /\ TimeoutIsOwn'
    BY <1>1, <2>1 DEF OneShow, TimeoutIsOwn
  <2> QED
    BY <2>3, <2>4, <2>5, <2>6, <2>7, <2>8 DEF CoreInv
<1>6. CASE Expire
  <2>1. /\ ctx' = [ctx EXCEPT ![turn] = "ended"] /\ turn \in Checks
        /\ UNCHANGED <<turn, results, at, seen, cache, shows, unitVars>>
    BY <1>6 DEF Expire
  <2>2. \A j \in Checks : ctx[j] = "ended" => ctx'[j] = "ended"
    BY <1>1, <2>1 DEF TypeOK
  <2>3. TypeOK' /\ TurnInv'
    BY <1>1, <2>1 DEF TypeOK, TurnInv, unitVars
  <2>4. StateInv' /\ SiblingInv'
    BY <1>1, <2>1 DEF StateInv, SiblingInv, Passed, Failed
  <2>5. AnswerInv' /\ OneShow' /\ TimeoutIsOwn'
    BY <1>1, <2>1, <2>2 DEF AnswerInv, OneShow, TimeoutIsOwn, Evaluated
  <2> QED
    BY <2>3, <2>4, <2>5 DEF CoreInv
<1> QED
  BY <1>2, <1>3, <1>4, <1>5, <1>6

\* The unit may change under the checks: no part of the invariant speaks of it.
LEMMA ChangeInv == ASSUME CoreInv, Change \/ UNCHANGED vars PROVE CoreInv'
<1>1. /\ TypeOK /\ TurnInv /\ StateInv /\ SiblingInv /\ AnswerInv /\ OneShow /\ TimeoutIsOwn
  BY DEF CoreInv
<1>2. UNCHANGED <<turn, ctx, results, at, seen, cache, shows, hasCommand>>
  BY DEF Change, vars, engineVars, unitVars
<1>3. unit' \in Units /\ version' \in 0..MaxChanges
  BY <1>1, MaxChangesAssumption DEF Change, vars, unitVars, TypeOK
<1>4. TypeOK'
  BY <1>1, <1>2, <1>3 DEF TypeOK
<1>5. TurnInv' /\ StateInv' /\ SiblingInv' /\ AnswerInv' /\ OneShow' /\ TimeoutIsOwn'
  BY <1>1, <1>2 DEF TurnInv, StateInv, SiblingInv, AnswerInv, OneShow, TimeoutIsOwn,
                    Passed, Evaluated, Failed
<1> QED
  BY <1>4, <1>5 DEF CoreInv

-----------------------------------------------------------------------------
\* What the capabilities check answers, in terms of sets.
LEMMA SetsFollow == ASSUME CoreInv PROVE CapabilitiesAreSets
<1> SUFFICES ASSUME NEW i \in Checks, Evaluated(i), Kind[i] = "capabilities"
    PROVE LET tokens == results[i].on.properties["AmbientCapabilities"]
              names == [k \in DOMAIN tokens |-> CanonicalizeToken(tokens[k])]
          IN /\ results[i].verdict = "PASS" => NamesOn(names) = NamesOn(Declared[i])
             /\ /\ NamesOn(names) = NamesOn(Declared[i])
                /\ RepeatsNothing(names) /\ RepeatsNothing(Declared[i])
                => results[i].verdict = "PASS"
  BY DEF CapabilitiesAreSets
<1> DEFINE tokens == results[i].on.properties["AmbientCapabilities"]
           names == [k \in DOMAIN tokens |-> CanonicalizeToken(tokens[k])]
<1>1. /\ results[i].on \in Observation /\ results[i].on.err = "none"
      /\ results[i].verdict = Verdict(i, results[i].on)
  <2>1. cache \in Observation /\ results[i].on = cache /\ results[i].verdict = Verdict(i, cache)
    BY DEF CoreInv, TypeOK, AnswerInv
  <2>2. cache.err = "none"
    BY <2>1, VerdictFacts DEF Evaluated
  <2> QED
    BY <2>1, <2>2
<1>2. results[i].verdict = PassIf(SortCanonical(Declared[i]) = SortCanonical(names))
  <2>1. Verdict(i, results[i].on) = Judgement(i, results[i].on.properties)
    BY <1>1 DEF Verdict
  <2>2. Judgement(i, results[i].on.properties) = PassIf(SameCapabilities(Declared[i], tokens))
    BY DEF Judgement
  <2>3. NormalizeObserved(tokens) = SortCanonical(names)
    BY DEF NormalizeObserved
  <2> QED
    BY <1>1, <2>1, <2>2, <2>3 DEF SameCapabilities
<1>3. ASSUME results[i].verdict = "PASS" PROVE NamesOn(names) = NamesOn(Declared[i])
  <2>1. SortCanonical(Declared[i]) = SortCanonical(names)
    BY <1>2, <1>3 DEF PassIf
  <2> HIDE DEF names
  <2> QED
    BY <2>1, SameNames
<1>4. ASSUME NamesOn(names) = NamesOn(Declared[i]),
             RepeatsNothing(names), RepeatsNothing(Declared[i])
      PROVE  results[i].verdict = "PASS"
  <2> HIDE DEF names
  <2>1. SortCanonical(names) = [name \in NamesOn(names) |-> 1]
    BY <1>4, OnceEach
  <2>2. SortCanonical(Declared[i]) = [name \in NamesOn(Declared[i]) |-> 1]
    BY <1>4, OnceEach
  <2> QED
    BY <1>2, <1>4, <2>1, <2>2 DEF PassIf
<1> QED
  BY <1>3, <1>4

-----------------------------------------------------------------------------
(***************************************************************************)
(* The invariant holds throughout, for any number of checks and failures.  *)
(***************************************************************************)
THEOREM ReaderInvariant == Spec => []ReaderInv
<1>1. CoreInv /\ [Next]_vars => CoreInv'
  BY WorkerInv, EngineInv, ChangeInv DEF Next
<1>2. CoreInv => ReaderInv
  BY SetsFollow DEF CoreInv, ReaderInv
<1> QED
  BY InitInv, <1>1, <1>2, PTL DEF Spec

(***************************************************************************)
(* Whatever the order and the spelling systemctl prints capabilities in, a *)
(* capabilities check compares the two sets of names.                      *)
(***************************************************************************)
THEOREM CapabilitiesCompared == Spec => []CapabilitiesAreSets
<1>1. ReaderInv => CapabilitiesAreSets
  BY DEF ReaderInv
<1> QED
  BY ReaderInvariant, <1>1, PTL

(***************************************************************************)
(* All that passes or fails of a service was seen in one snapshot of it.   *)
(***************************************************************************)
THEOREM VerdictsShareSnapshot == Spec => []OneSnapshot
<1>1. ReaderInv => OneSnapshot
  BY DEF ReaderInv, CoreInv, AnswerInv, OneSnapshot
<1> QED
  BY ReaderInvariant, <1>1, PTL

(***************************************************************************)
(* systemctl is started for a service once at most, by its state check.    *)
(***************************************************************************)
THEOREM ShownOnce == Spec => []OneShow
<1>1. ReaderInv => OneShow
  BY DEF ReaderInv, CoreInv
<1> QED
  BY ReaderInvariant, <1>1, PTL

(***************************************************************************)
(* A service check is reported as timed out for its own deadline only.     *)
(***************************************************************************)
THEOREM TimeoutsAreOwn == Spec => []TimeoutIsOwn
<1>1. ReaderInv => TimeoutIsOwn
  BY DEF ReaderInv, CoreInv
<1> QED
  BY ReaderInvariant, <1>1, PTL

(***************************************************************************)
(* Once something is cached for the service, no store overwrites it.       *)
(***************************************************************************)
THEOREM NeverOverwritten == Spec => CacheWrittenOnce
<1>1. ASSUME ReaderInv, [Next]_vars, cache # Nothing PROVE UNCHANGED cache
  <2>1. \A i \in Checks : at[i] # "store"
    BY <1>1 DEF ReaderInv, CoreInv, StateInv, SiblingInv
  <2>2. ASSUME NEW i \in Checks, Worker(i) PROVE UNCHANGED cache
    BY <2>1, <2>2 DEF Worker, Begin, LookInCache, StartShow, EndShow, KillShow, Store
  <2> QED
    BY <1>1, <2>2 DEF Next, vars, Block, Launch, Expire, TakeResult, StopWaiting, Record, Change
<1> QED
  BY ReaderInvariant, <1>1, PTL DEF Spec, CacheWrittenOnce
=============================================================================
