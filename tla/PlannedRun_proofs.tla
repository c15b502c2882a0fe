---------------------------- MODULE PlannedRun_proofs ----------------------------
(***************************************************************************)
(* The plan of a check run, run by the engine: for contracts of any size,  *)
(* every selection and every way the checks may end, the plan is accepted, *)
(* and a host where PID 1 is not systemd is not judged.                    *)
(***************************************************************************)
EXTENDS PlannedRun, Engine_proofs, Planner_proofs

-----------------------------------------------------------------------------
(* The plan as the engine gets it *)

\* Numbered by its places, a plan has the same prerequisites.
LEMMA NumberedFacts ==
  ASSUME NEW plan, plan \in Seq(PlannedType), Distinct(plan), Grounded(plan)
  PROVE  LET slice == AsInput(plan)
             n == Len(plan)
         IN  /\ n \in Nat /\ Len(slice) = n /\ GivenIDs(slice) = 1..n
             /\ \A i \in 1..n : slice[i].id = i
             /\ \A i \in 1..n : \A k \in 1..Len(slice[i].prereqs) : slice[i].prereqs[k] \in 1..n
             /\ \A c, p \in 1..n :
                  DependsOn(slice, c, p) <=> plan[p].id \in ToSet(plan[c].prereqs)
             /\ \A c, p \in 1..n : DependsOn(slice, c, p) => Level(plan[p].id) < Level(plan[c].id)
<1> DEFINE n == Len(plan)
           slice == AsInput(plan)
<1>1. /\ n \in Nat /\ \A i \in 1..n : plan[i] \in PlannedType /\ plan[i] \in ToSet(plan)
      /\ ToSet(plan) = {plan[i] : i \in 1..n}
      /\ \A i, j \in 1..n : plan[i].id = plan[j].id => i = j
  BY MemberOf DEF Distinct
<1>2. \A i \in 1..n : plan[i].prereqs \in Seq(IDType)
  BY <1>1 DEF PlannedType
<1>3. ASSUME NEW i \in 1..n PROVE Place(plan, plan[i].id) = i
  BY <1>1 DEF Place
<1>4. ASSUME NEW i \in 1..n, NEW k \in 1..Len(plan[i].prereqs)
      PROVE  \E p \in 1..n : /\ plan[p].id = plan[i].prereqs[k]
                             /\ Place(plan, plan[i].prereqs[k]) = p
                             /\ Level(plan[p].id) < Level(plan[i].id)
  <2>1. plan[i].prereqs[k] \in ToSet(plan[i].prereqs)
    BY <1>2, MemberOf
  <2> DEFINE c == plan[i]
             q == plan[i].prereqs[k]
  <2>4. c \in ToSet(plan) /\ q \in ToSet(c.prereqs)
    BY <1>1, <2>1
  <2> HIDE DEF c, q
  <2>5. \E r \in ToSet(plan) : r.id = q /\ Level(q) < Level(c.id)
    BY <2>4 DEF Grounded
  <2>2. PICK r \in ToSet(plan) : r.id = plan[i].prereqs[k] /\ Level(r.id) < Level(plan[i].id)
    BY <2>5 DEF c, q
  <2>3. PICK p \in 1..n : plan[p] = r
    BY <1>1
  <2> QED
    BY <1>3, <2>2, <2>3
<1>5. /\ Len(slice) = n
      /\ \A i \in 1..n :
           /\ slice[i].id = Place(plan, plan[i].id)
           /\ slice[i].prereqs =
                [k \in 1..Len(plan[i].prereqs) |-> Place(plan, plan[i].prereqs[k])]
  <2> DEFINE waits(i) == [k \in 1..Len(plan[i].prereqs) |-> Place(plan, plan[i].prereqs[k])]
             numbered(i) == [id |-> Place(plan, plan[i].id), prereqs |-> waits(i)]
  <2>1. slice = [i \in 1..n |-> numbered(i)]
    BY DEF AsInput
  <2>2. \A i \in 1..n : /\ numbered(i).id = Place(plan, plan[i].id)
                         /\ numbered(i).prereqs = waits(i)
    OBVIOUS
  <2> HIDE DEF slice, numbered, n
  <2>3. Len(slice) = n /\ \A i \in 1..n : slice[i] = numbered(i)
    BY <1>1, <2>1
  <2> HIDE DEF waits
  <2>4. \A i \in 1..n : slice[i].id = Place(plan, plan[i].id) /\ slice[i].prereqs = waits(i)
    BY <2>2, <2>3
  <2> QED
    BY <2>3, <2>4 DEF waits
<1> HIDE DEF n, slice
<1>6. \A i \in 1..n : slice[i].id = i
  BY <1>3, <1>5
<1>7. ASSUME NEW i \in 1..n
      PROVE  /\ Len(slice[i].prereqs) = Len(plan[i].prereqs)
             /\ \A k \in 1..Len(plan[i].prereqs) :
                  slice[i].prereqs[k] = Place(plan, plan[i].prereqs[k])
  <2> DEFINE m == Len(plan[i].prereqs)
             waits == [k \in 1..m |-> Place(plan, plan[i].prereqs[k])]
  <2>1. m \in Nat /\ slice[i].prereqs = waits
    BY <1>2, <1>5
  <2> HIDE DEF m
  <2>2. Len(waits) = m /\ \A k \in 1..m : waits[k] = Place(plan, plan[i].prereqs[k])
    BY <2>1
  <2> HIDE DEF waits
  <2> QED
    BY <2>1, <2>2 DEF m
<1>8. GivenIDs(slice) = 1..n
  BY <1>5, <1>6 DEF GivenIDs
<1>9. \A i \in 1..n : \A k \in 1..Len(slice[i].prereqs) : slice[i].prereqs[k] \in 1..n
  BY <1>4, <1>7
<1>10. ASSUME NEW c \in 1..n, NEW p \in 1..n, DependsOn(slice, c, p)
       PROVE  /\ plan[p].id \in ToSet(plan[c].prereqs)
              /\ Level(plan[p].id) < Level(plan[c].id)
  <2>1. PICK i \in 1..Len(slice) : /\ slice[i].id = c
                                   /\ \E k \in 1..Len(slice[i].prereqs) : slice[i].prereqs[k] = p
    BY <1>10 DEF DependsOn
  <2>2. i = c
    BY <1>5, <1>6, <2>1
  <2>3. PICK k \in 1..Len(plan[c].prereqs) : Place(plan, plan[c].prereqs[k]) = p
    BY <1>7, <2>1, <2>2
  <2>4. plan[p].id = plan[c].prereqs[k] /\ Level(plan[p].id) < Level(plan[c].id)
    BY <1>4, <2>3
  <2> QED
    BY <1>2, <2>4, MemberOf
<1>11. ASSUME NEW c \in 1..n, NEW p \in 1..n, plan[p].id \in ToSet(plan[c].prereqs)
       PROVE  DependsOn(slice, c, p)
  <2>1. PICK k \in 1..Len(plan[c].prereqs) : plan[c].prereqs[k] = plan[p].id
    BY <1>2, <1>11, MemberOf
  <2>2. slice[c].prereqs[k] = p /\ k \in 1..Len(slice[c].prereqs)
    BY <1>3, <1>7, <2>1
  <2> QED
    BY <1>5, <1>6, <2>2 DEF DependsOn
<1> QED
  BY <1>1, <1>5, <1>6, <1>8, <1>9, <1>10, <1>11 DEF n, slice

\* The engine has no reason to refuse such a plan.
LEMMA NumberedIsSound ==
  ASSUME NEW plan, plan \in Seq(PlannedType), Distinct(plan), Grounded(plan)
  PROVE  ~Defective(AsInput(plan))
<1> DEFINE n == Len(plan)
           slice == AsInput(plan)
           level(c) == Level(plan[c].id)
<1>1. /\ n \in Nat /\ Len(slice) = n /\ GivenIDs(slice) = 1..n
      /\ \A i \in 1..n : slice[i].id = i
      /\ \A i \in 1..n : \A k \in 1..Len(slice[i].prereqs) : slice[i].prereqs[k] \in 1..n
      /\ \A c, p \in 1..n : DependsOn(slice, c, p) => level(p) < level(c)
  BY NumberedFacts
<1>2. \A c \in 1..n : level(c) \in 0..3
  <2> SUFFICES ASSUME NEW id PROVE Level(id) \in 0..3
    OBVIOUS
  <2> QED
    BY DEF Level
<1> HIDE DEF n, slice, level
<1>3. ~Circular(slice)
  <2> SUFFICES ASSUME NEW S \in SUBSET (1..n), S # {},
                      \A c \in S : \E p \in S : DependsOn(slice, c, p)
               PROVE  FALSE
    BY <1>1 DEF Circular
  <2> DEFINE T == {level(c) : c \in S}
  <2>1. T \in SUBSET Nat /\ T # {}
    BY <1>2
  <2>2. PICK m \in T : \A k \in T : m <= k
    BY <2>1, Least
  <2>3. PICK c \in S : level(c) = m
    OBVIOUS
  <2>4. PICK p \in S : DependsOn(slice, c, p)
    OBVIOUS
  <2>5. level(p) < level(c) /\ m <= level(p)
    BY <1>1, <2>2, <2>4
  <2>6. level(p) \in Nat /\ m \in Nat
    BY <2>1
  <2> QED
    BY <2>3, <2>5, <2>6
<1>4. ~Defective(slice)
  BY <1>1, <1>3 DEF Defective
<1> QED
  BY <1>4 DEF slice

\* Every check but a preflight waits for the preflight of its domain, itself or through
\* one it waits for.
BehindPreflight(slice, ids) ==
    LET needs(c, home) == \E p \in GivenIDs(slice) : DependsOn(slice, c, p) /\ ids[p] = home
    IN \A c \in GivenIDs(slice) :
         LET home == Preflight(Home(ids[c].domain))
         IN \/ ids[c].kind = "namespace"
            \/ needs(c, home)
            \/ \E p \in GivenIDs(slice) : DependsOn(slice, c, p) /\ needs(p, home)

LEMMA NumberedIsGuarded ==
  ASSUME NEW plan, plan \in Seq(PlannedType), Distinct(plan), Grounded(plan),
         GuardedIn(plan, FALSE)
  PROVE  BehindPreflight(AsInput(plan), Numbering(plan))
<1> DEFINE n == Len(plan)
           slice == AsInput(plan)
           ids == Numbering(plan)
           needs(c, home) == \E p \in 1..n : DependsOn(slice, c, p) /\ ids[p] = home
<1>1. /\ n \in Nat /\ GivenIDs(slice) = 1..n
      /\ \A c, p \in 1..n : DependsOn(slice, c, p) <=> plan[p].id \in ToSet(plan[c].prereqs)
  BY NumberedFacts
<1>2. \A i \in 1..n : ids[i] = plan[i].id
  BY DEF Numbering
<1>3. ToSet(plan) = {plan[i] : i \in 1..n}
  BY MemberOf
<1> HIDE DEF n, slice, ids
<1>4. ASSUME NEW c \in 1..n, NEW q \in ToSet(plan[c].prereqs)
      PROVE  \E p \in 1..n : plan[p].id = q /\ ids[p] = q /\ DependsOn(slice, c, p)
  <2>1. plan[c] \in ToSet(plan)
    BY <1>3
  <2>2. PICK r \in ToSet(plan) : r.id = q
    BY <2>1 DEF Grounded
  <2> QED
    BY <1>1, <1>2, <1>3, <2>2
<1>5. ASSUME NEW c \in 1..n, ids[c].kind # "namespace"
      PROVE  LET home == Preflight(Home(ids[c].domain))
             IN  needs(c, home) \/ \E p \in 1..n : DependsOn(slice, c, p) /\ needs(p, home)
  <2> DEFINE home == Preflight(Home(ids[c].domain))
  <2>1. plan[c] \in ToSet(plan) /\ ids[c] = plan[c].id
    BY <1>2, <1>3
  <2>2. WaitsFor(plan, plan[c], home)
    BY <1>5, <2>1 DEF GuardedIn
  <2> HIDE DEF home
  <2>3. CASE home \in ToSet(plan[c].prereqs)
    <3>1. PICK p \in 1..n : ids[p] = home /\ DependsOn(slice, c, p)
      BY <1>4, <2>3
    <3>2. needs(c, home)
      BY <3>1
    <3> HIDE DEF needs
    <3> QED
      BY <3>2 DEF home
  <2>4. CASE \E r \in ToSet(plan) : r.id \in ToSet(plan[c].prereqs) /\ home \in ToSet(r.prereqs)
    <3>1. PICK p \in 1..n : plan[p].id \in ToSet(plan[c].prereqs) /\ home \in ToSet(plan[p].prereqs)
      BY <1>3, <2>4
    <3>2. DependsOn(slice, c, p)
      BY <1>1, <3>1
    <3>3. needs(p, home)
      BY <1>4, <3>1
    <3> HIDE DEF needs
    <3> QED
      BY <3>2, <3>3 DEF home
  <2> HIDE DEF needs
  <2> QED
    BY <2>2, <2>3, <2>4 DEF WaitsFor, home
<1> QED
  BY <1>1, <1>5 DEF BehindPreflight, slice, ids

\* Of every job, the plan is sound.
LEMMA JobFacts ==
  ASSUME NEW job \in Jobs
  PROVE  LET plan == PlanOf(job)
         IN  /\ plan \in Seq(PlannedType) /\ plan # <<>>
             /\ Len(AsInput(plan)) = Len(plan) /\ ~Defective(AsInput(plan))
             /\ ~job.rooted => BehindPreflight(AsInput(plan), Numbering(plan))
<1> DEFINE plan == PlanOf(job)
<1>1. Plannable(job.contract, job.domains, job.rooted)
  BY JobsAssumption DEF Plannable
<1>2. /\ plan \in Seq(PlannedType) /\ Distinct(plan) /\ Grounded(plan)
      /\ GuardedIn(plan, job.rooted)
  BY <1>1, PlansAreSound DEF PlanOf
<1>3. plan # <<>>
  BY JobsAssumption
<1> HIDE DEF plan
<1>4. ~Defective(AsInput(plan)) /\ Len(AsInput(plan)) = Len(plan)
  BY <1>2, NumberedIsSound, NumberedFacts
<1>5. ~job.rooted => BehindPreflight(AsInput(plan), Numbering(plan))
  <2>1. ~job.rooted => GuardedIn(plan, FALSE)
    BY <1>2 DEF GuardedIn
  <2> QED
    BY <1>2, <2>1, NumberedIsGuarded
<1> QED
  BY <1>2, <1>3, <1>4, <1>5 DEF plan

-----------------------------------------------------------------------------
(* The run *)

\* The plan is run by the engine, and what is proved of the engine holds.
LEMMA PlannedIsRun == PlannedSpec => Spec
<1>1. PlannedInit => Init
  BY DEF PlannedInit
<1>2. [PlannedNext]_plannedVars => [Next]_vars
  BY DEF PlannedNext, plannedVars
<1> QED
  BY <1>1, <1>2, PTL DEF PlannedSpec, Spec

LEMMA PlannedInitInv == PlannedInit => PlannedInv
<1> SUFFICES ASSUME PlannedInit PROVE PlannedInv
  OBVIOUS
<1>1. JobInv
  BY DEF PlannedInit, JobInv
<1>2. results = <<>> /\ ended = {} /\ pc = "validate"
  BY DEF PlannedInit, Init
<1>3. Recorded = {}
  BY <1>2 DEF Recorded
<1> QED
  BY <1>1, <1>2, <1>3 DEF PlannedInv, PreflightInv, UnansweredInv, ReturnedInv

\* The job is chosen once.
LEMMA JobKept == JobInv /\ [PlannedNext]_plannedVars => JobInv'
<1> SUFFICES ASSUME JobInv, [PlannedNext]_plannedVars PROVE JobInv'
  OBVIOUS
<1>1. UNCHANGED <<names, rooted>> /\ [Next]_vars
  BY DEF PlannedNext, plannedVars
<1>2. input' = input
  <2>1. CASE UNCHANGED vars
    BY <2>1 DEF vars, graphVars
  <2>2. CASE Validate
    BY <2>2 DEF Validate, GraphNext, Register, Resolve, CycleRoot, CyclePrereq, CycleReturn,
                NoCycle, OrderRoot, OrderPrereq, OrderReturn, Validated
  <2>3. CASE Next /\ ~Validate
    <3>1. UNCHANGED graphVars
      BY <2>3 DEF Next, EngineStep, Enter, Block, Start, FailEarly, Launch, TakeResult,
                  StopWaiting, Finish, EndSync, Expire, ParentExpires, ParentCancels,
                  ParentEnds, End
    <3> QED
      BY <3>1 DEF graphVars
  <2> QED
    BY <1>1, <2>1, <2>2, <2>3
<1> QED
  BY <1>1, <1>2 DEF JobInv

\* What a preflight ends with is what it found, or that it was too late to look.
LEMMA PreflightKept == PreflightInv /\ [PlannedNext]_plannedVars => PreflightInv'
<1> SUFFICES ASSUME PreflightInv, [PlannedNext]_plannedVars, pid1' # "systemd",
                    NEW e \in ended', IsPreflight(e[1])'
             PROVE  e[2] = "ERROR"
  BY DEF PreflightInv
<1>1. pid1' = pid1 /\ (IsPreflight(e[1])' <=> IsPreflight(e[1]))
  BY DEF PlannedNext, plannedVars, IsPreflight
<1>2. CASE e \in ended
  BY <1>1, <1>2 DEF PreflightInv
<1>3. CASE e \notin ended
  <2>1. PlannedNext
    BY <1>3 DEF plannedVars, vars, runVars
  <2>2. e[2] \in PreflightStatuses(e[1])
    BY <1>1, <1>3, <2>1 DEF PlannedNext
  <2>3. NamespaceStatus(pid1) = "ERROR"
    BY <1>1 DEF NamespaceStatus
  <2> QED
    BY <2>2, <2>3 DEF PreflightStatuses
<1> QED
  BY <1>2, <1>3

\* A result that is not a check's answer is a gated one, or an ERROR.
LEMMA UnansweredKept == RunInv /\ UnansweredInv /\ [Next]_vars => UnansweredInv'
<1> SUFFICES ASSUME RunInv, UnansweredInv, [Next]_vars PROVE UnansweredInv'
  OBVIOUS
<1> DEFINE Fair(r) == r.origin \in {"panic", "timeout", "context"} => r.status = "ERROR"
<1>1. CASE UNCHANGED results
  BY <1>1 DEF UnansweredInv, Recorded
<1>2. ASSUME NEW r, Settle(r), Fair(r) PROVE UnansweredInv'
  <2>1. Recorded' = Recorded \union {r}
    BY <1>2, RecordedGrows DEF Settle
  <2> QED
    BY <1>2, <2>1 DEF UnansweredInv
<1>3. CASE Block
  <2>1. PICK r : Settle([id |-> Current, status |-> Propagated(r.status),
                         origin |-> "prerequisite"])
    BY <1>3 DEF Block
  <2> QED
    BY <1>2, <2>1
<1>4. CASE FailEarly \/ StopWaiting
  BY <1>2, <1>4 DEF FailEarly, StopWaiting, ContextFailure
<1>5. CASE TakeResult \/ EndSync
  <2>1. PICK outcome : Settle(Answer(Current, outcome))
    BY <1>5 DEF TakeResult, EndSync
  <2> QED
    BY <1>2, <2>1 DEF Answer
<1>6. CASE QuietStep \/ UNCHANGED vars
  BY <1>1, <1>6, QuietKept DEF vars, runVars
<1> QED
  BY <1>3, <1>4, <1>5, <1>6, StepKinds

\* The plan is not empty, so neither is what the loop leaves behind.
LEMMA ReturnedKept == EngineInv /\ JobInv /\ ReturnedInv /\ [Next]_vars => ReturnedInv'
<1> SUFFICES ASSUME EngineInv, JobInv, ReturnedInv, [Next]_vars, pc' = "returned"
             PROVE  results' # <<>>
  BY DEF ReturnedInv
<1>1. CASE Finish
  <2>1. pc = "next" /\ Len(results) = Len(ordered) /\ results' = results
    BY <1>1 DEF Finish
  <2>2. RunInv /\ GraphInv /\ SliceInv /\ phase = "ordered"
    BY <2>1 DEF EngineInv, RunInv, SliceInv, PrefixInv
  <2>3. registered = Len(input)
    BY <2>2 DEF EngineInv, RefusedInv
  <2>4. GivenIDs(input) = IDs
    BY <2>2, <2>3, SliceFacts
  <2>5. input \in Seq(Check) /\ input # <<>>
    <3>1. PICK job \in Jobs : input = AsInput(PlanOf(job))
      BY DEF JobInv
    <3>2. Len(input) = Len(PlanOf(job)) /\ PlanOf(job) \in Seq(PlannedType) /\ PlanOf(job) # <<>>
      BY <3>1, JobFacts
    <3>3. Len(PlanOf(job)) # 0
      BY <3>2
    <3> QED
      BY <2>2, <3>2, <3>3 DEF GraphInv, GraphTypeOK
  <2>6. 1 \in 1..Len(input)
    BY <2>5
  <2>7. input[1].id \in IDs
    BY <2>4, <2>6 DEF GivenIDs
  <2>8. \E i \in 1..Len(ordered) : ordered[i] = input[1].id
    BY <2>2, <2>7 DEF GraphInv, Topological
  <2>9. results \in Seq(Result) /\ Len(results) # 0
    BY <2>1, <2>2, <2>8 DEF RunInv, TypeOK
  <2> QED
    BY <2>1, <2>9
<1>2. CASE QuietStep /\ ~Finish
  <2>1. results' = results
    BY <1>2, QuietKept
  <2>2. pc = "returned"
    BY <1>2 DEF QuietStep, Validate, runVars, Enter, Start, Launch, Expire, ParentExpires,
                ParentCancels, ParentEnds, End
  <2> QED
    BY <2>1, <2>2 DEF ReturnedInv
<1>3. CASE Block \/ FailEarly \/ TakeResult \/ StopWaiting \/ EndSync
  BY <1>3 DEF Block, FailEarly, TakeResult, StopWaiting, EndSync, Settle
<1>4. CASE UNCHANGED vars
  BY <1>4 DEF vars, runVars, ReturnedInv
<1> QED
  BY <1>1, <1>2, <1>3, <1>4, StepKinds

(***************************************************************************)
(* What the engine's invariant leaves to show of a planned run: the job,   *)
(* what a preflight can have found, and what else is on record.            *)
(***************************************************************************)
THEOREM PlannedInvariant == PlannedSpec => [](EngineInv /\ PlannedInv)
<1>1. PlannedSpec => []EngineInv
  BY PlannedIsRun, EngineInvariant, PTL
<1>2. PlannedInit => PlannedInv
  BY PlannedInitInv
<1>3. EngineInv /\ PlannedInv /\ [PlannedNext]_plannedVars => PlannedInv'
  <2>1. [PlannedNext]_plannedVars => [Next]_vars
    BY DEF PlannedNext, plannedVars
  <2> QED
    BY <2>1, JobKept, PreflightKept, UnansweredKept, ReturnedKept DEF PlannedInv, EngineInv
<1> QED
  BY <1>1, <1>2, <1>3, PTL DEF PlannedSpec

(***************************************************************************)
(* buildChecksForDomains and validateChecks agree: of a contract of any    *)
(* size that is accepted, and of every selection, the engine never refuses *)
(* the plan.                                                               *)
(***************************************************************************)
THEOREM PlansAreNotRefused == PlannedSpec => []PlansAreAccepted
<1>1. EngineInv /\ PlannedInv => PlansAreAccepted
  <2> SUFFICES ASSUME EngineInv, PlannedInv, phase = "rejected" PROVE FALSE
    BY DEF PlansAreAccepted
  <2>1. Defective(input)
    BY AcceptsSound DEF EngineInv, RunInv, SliceInv, AcceptsExactlyDAGs
  <2>2. ~Defective(input)
    BY JobFacts DEF PlannedInv, JobInv
  <2> QED
    BY <2>1, <2>2
<1> QED
  BY <1>1, PlannedInvariant, PTL

-----------------------------------------------------------------------------
(* Nothing is judged elsewhere *)

LEMMA OriginIsKnown == ASSUME RunInv, NEW r \in Recorded PROVE r.origin \in Origins
<1>1. PICK i \in 1..Len(results) : r = results[i]
  BY DEF Recorded
<1>2. results \in Seq(Result)
  BY DEF RunInv, TypeOK
<1>3. r \in Result
  BY <1>1, <1>2
<1> QED
  BY <1>3 DEF Result

\* A check that passed ran, and ended with that answer.
LEMMA PassedRan ==
  ASSUME RunInv, UnansweredInv, NEW r \in Recorded, r.status = "PASS"
  PROVE  <<r.id, "PASS">> \in ended /\ r.id \in launched
<1>1. r.origin \in Origins
  BY OriginIsKnown
<1>2. r.origin = "check"
  BY <1>1 DEF Origins, UnansweredInv, RunInv, GatedInv
<1>3. <<r.id, "PASS">> \in ended
  BY <1>2 DEF RunInv, AnswersAreOwn
<1> QED
  BY <1>3 DEF RunInv, TypeOK

\* What has been launched waited for all it depends on.
LEMMA LaunchedFacts ==
  ASSUME EngineInv, NEW c \in launched
  PROVE  /\ c \in GivenIDs(input)
         /\ \A p : DependsOn(input, c, p) => \E r \in Recorded : r.id = p /\ r.status = "PASS"
<1>1. RunInv /\ GraphInv /\ SliceInv /\ phase = "ordered" /\ c \in IDs
  BY DEF EngineInv, RunInv, SliceInv, PrefixInv, TypeOK
<1>2. registered = Len(input)
  BY <1>1 DEF EngineInv, RefusedInv
<1>3. GivenIDs(input) = IDs /\ \A p : DependsOn(input, c, p) <=> p \in Prereqs(c)
  BY <1>1, <1>2, SliceFacts
<1> QED
  BY <1>1, <1>3 DEF RunInv, LaunchInv, PassedPrereqs

\* Without a host root, the preflight of a check's domain passed before it was launched.
LEMMA PreflightFirst ==
  ASSUME EngineInv, PlannedInv, ~rooted, NEW c \in launched, ~IsPreflight(c)
  PROVE  \E r \in Recorded : /\ names[r.id] = Preflight(Home(names[c].domain))
                             /\ r.status = "PASS"
<1> DEFINE home == Preflight(Home(names[c].domain))
           Needs(d) == \E p \in GivenIDs(input) : DependsOn(input, d, p) /\ names[p] = home
<1>1. BehindPreflight(input, names)
  <2>1. PICK job \in Jobs : /\ input = AsInput(PlanOf(job)) /\ names = Numbering(PlanOf(job))
                            /\ ~job.rooted
    BY DEF PlannedInv, JobInv
  <2> QED
    BY <2>1, JobFacts
<1>2. c \in GivenIDs(input)
  BY LaunchedFacts
<1>3. \/ Needs(c)
      \/ \E p \in GivenIDs(input) : DependsOn(input, c, p) /\ Needs(p)
  BY <1>1, <1>2 DEF BehindPreflight, IsPreflight
<1>4. ASSUME NEW d \in launched, Needs(d)
      PROVE  \E r \in Recorded : names[r.id] = home /\ r.status = "PASS"
  <2>1. PICK p \in GivenIDs(input) : DependsOn(input, d, p) /\ names[p] = home
    BY <1>4
  <2>2. PICK r \in Recorded : r.id = p /\ r.status = "PASS"
    BY <2>1, LaunchedFacts
  <2> QED
    BY <2>1, <2>2
<1>5. ASSUME NEW p \in GivenIDs(input), DependsOn(input, c, p) PROVE p \in launched
  <2>1. PICK r \in Recorded : r.id = p /\ r.status = "PASS"
    BY <1>5, LaunchedFacts
  <2> QED
    BY <2>1, PassedRan DEF EngineInv, PlannedInv
<1> HIDE DEF Needs
<1> QED
  BY <1>3, <1>4, <1>5

\* On another kind of host, nothing but preflights ran, and they ended in an ERROR.
LEMMA OnlyErrors ==
  ASSUME EngineInv, PlannedInv, ~rooted, pid1 # "systemd",
         NEW r \in Recorded, r.origin # "prerequisite"
  PROVE  r.status = "ERROR"
<1>1. RunInv /\ PreflightInv /\ UnansweredInv
  BY DEF EngineInv, PlannedInv
<1>2. ASSUME NEW c \in launched PROVE IsPreflight(c)
  <2> SUFFICES ASSUME ~IsPreflight(c) PROVE FALSE
    OBVIOUS
  <2>1. PICK s \in Recorded : /\ names[s.id] = Preflight(Home(names[c].domain))
                              /\ s.status = "PASS"
    BY PreflightFirst
  <2>2. IsPreflight(s.id)
    BY <2>1 DEF IsPreflight, Preflight, ID
  <2>3. <<s.id, "PASS">> \in ended
    BY <1>1, <2>1, PassedRan
  <2> QED
    BY <1>1, <2>2, <2>3 DEF PreflightInv
<1>3. r.origin \in Origins
  BY <1>1, OriginIsKnown
<1>4. CASE r.origin = "check"
  <2>1. <<r.id, r.status>> \in ended
    BY <1>1, <1>4 DEF RunInv, AnswersAreOwn
  <2>2. r.id \in launched
    BY <1>1, <2>1 DEF RunInv, TypeOK
  <2> QED
    BY <1>1, <1>2, <2>1, <2>2 DEF PreflightInv
<1>5. CASE r.origin \in {"panic", "timeout", "context"}
  BY <1>1, <1>5 DEF UnansweredInv
<1> QED
  BY <1>3, <1>4, <1>5 DEF Origins

(***************************************************************************)
(* README.md: if PID 1 is not systemd, the preflight blocks the checks     *)
(* that depend on it.  For contracts of any size and every selection: no   *)
(* check is called before the preflight of its domain has passed, and on   *)
(* another kind of host every result, gated ones included, is an ERROR or  *)
(* INSUFFICIENT_DATA, and the exit code 2.                                 *)
(***************************************************************************)
THEOREM ElsewhereNothingIsJudged == PlannedSpec => []NothingIsJudgedElsewhere
<1>1. EngineInv /\ PlannedInv => NothingIsJudgedElsewhere
  <2> SUFFICES ASSUME EngineInv, PlannedInv, ~rooted
               PROVE  /\ \A c \in launched :
                           \/ IsPreflight(c)
                           \/ \E r \in Recorded :
                                /\ names[r.id] = Preflight(Home(names[c].domain))
                                /\ r.status = "PASS"
                      /\ pid1 # "systemd" =>
                           /\ \A r \in Recorded : r.status \in {"ERROR", "INSUFFICIENT_DATA"}
                           /\ pc = "returned" => ExitCode(Recorded) = 2
    BY DEF NothingIsJudgedElsewhere
  <2>1. \A c \in launched :
           \/ IsPreflight(c)
           \/ \E r \in Recorded : /\ names[r.id] = Preflight(Home(names[c].domain))
                                  /\ r.status = "PASS"
    BY PreflightFirst
  <2>2. ASSUME pid1 # "systemd", NEW r \in Recorded
        PROVE  r.status \in {"ERROR", "INSUFFICIENT_DATA"}
    <3>1. CASE r.origin = "prerequisite"
      <4>1. PICK s \in Executed : Propagated(s.status) = r.status
        BY <3>1 DEF EngineInv, GatedForCause
      <4>2. s.status = "ERROR"
        BY <2>2, <4>1, OnlyErrors DEF Executed
      <4> QED
        BY <4>1, <4>2 DEF Propagated
    <3>2. CASE r.origin # "prerequisite"
      BY <2>2, <3>2, OnlyErrors
    <3> QED
      BY <3>1, <3>2
  <2>3. ASSUME pid1 # "systemd", pc = "returned" PROVE ExitCode(Recorded) = 2
    <3>1. results \in Seq(Result) /\ results # <<>>
      BY <2>3 DEF EngineInv, RunInv, TypeOK, PlannedInv, ReturnedInv
    <3>2. 1 \in 1..Len(results)
      BY <3>1
    <3>3. results[1] \in Recorded
      BY <3>2 DEF Recorded
    <3> QED
      BY <2>2, <2>3, <3>3 DEF ExitCode
  <2> QED
    BY <2>1, <2>2, <2>3
<1> QED
  BY <1>1, PlannedInvariant, PTL
=============================================================================
