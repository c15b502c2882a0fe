# SAVK in TLA+

SAVK reads a contract (what paths, sockets, services and process identities of
a Linux host should look like), plans a set of checks from it, runs them one
after the other under a timeout each, and reports the results with an exit
code. This directory models that program, from the text of the contract and the
command line to the exit code, as far as a model checker reaches; it checks the models on small
instances with TLC and proves, with TLAPS and for every instance, their safety
properties.

Every definition is translated from the code. `PROJECT.json` gives, for each,
the lines it stands for.

## 1. Inventory

| Component | Source | State it keeps | Operations | Talks to |
|---|---|---|---|---|
| prerequisite graph | `internal/engine/engine.go` `validateChecks`, `detectCycles` | byID, colours, stack, visited, ordered | register, resolve, search cycles, order | calls `Check.Prerequisites` |
| run loop | `internal/engine/engine.go`, `evaluator.go` | results so far, context of the check in progress, goroutines not yet over | block, start, launch, take result, stop waiting, run synchronously | calls `Check.Run`, contexts, timers |
| service checks and unit reader | `internal/collectors/services.go` | one cache shared by all service checks of a Build call | `Read`, `store`, `Run` of five kinds of check | `systemctl show`, account resolver |
| identity checks, observer, PID reader | `internal/collectors/identity.go` | two caches, each with its own mutex | `Read`, `store` of both, `ReadStatus`, `Run` | `systemctl show`, `/proc` |
| path and socket checks | `paths.go`, `sockets.go`, `filesystem.go` | none | `Run` of nine kinds | `Lstat`, account resolver |
| account resolver | `accounts.go` | passwd and group tables, read once each under a `sync.Once` | load, lookups by id and by name, numeric values | `/etc/passwd`, `/etc/group` |
| namespace preflights | `service_preflight.go` | none | `Run` | `/proc/1/comm` |
| plan | `cmd/savk/main.go`, `contract/semantic.go`, the Build functions | none | `selectedDomains`, `ValidateSemantics`, `buildChecksForDomains` | hands checks to the engine |
| check command | `cmd/savk/main.go` `runCheck` | where it is, the exit code | one pass from flags to exit code | parser, plan, engine, reporters |
| reporters | `internal/reporters` | none | summary, exit code, sort, redact, truncate, render | |
| contract parser | `internal/contract/parser.go`, `schema.go` | none that outlives a call | parse a YAML subset, validate it | |
| capability names | `internal/capabilities` | none | canonical order, decoding of masks | |
| validate, version, usage | `cmd/savk/main.go` | none | print | |

How they interact. The plan decides which checks exist and names their
prerequisites; the engine turns that into an order and runs along it. Service
and identity checks of one Build call share caches, and the engine, which stops
waiting for a check but cannot stop the check, lets several of them use a cache
at once. Identity checks wait for a state check that may belong to the services
section or be synthesized for them; both are behind the namespace preflight.

What is hard here:

* **order**: a prerequisite without a result counts as passed
  (`findBlockingPrerequisite`), so gating is only as good as the order that two
  depth-first searches and a sort produce;
* **abandoned goroutines**: after a timeout a check runs on beside its
  successors, fills caches and sends its result to nobody;
* **check-then-act caches**: looked up and stored in separate critical
  sections, with a process and two file reads in between;
* **cached errors**: the error of one check's context answers others;
* **a host that moves**: units are restarted, processes exit, PIDs are reused
  between the reads that are combined into one observation;
* **protocols across packages**: the engine must not refuse any plan, and
  identity checks must always wait for an active service;
* **a parser written by hand**: four scans that must agree on quotes, and a
  descent that hands one index to and fro;
* **redaction and truncation**, where the order matters and a cut may fall anywhere;
* **failure late in the run**: panics, contexts that end anywhere, a report
  that cannot be written.

What makes each component correct:

* graph: ends; refuses exactly the slices that are not acyclic sets of distinct
  checks; a topological order that does not depend on the input's order;
* run loop: nothing runs ungated; one result per check, which is its own; ends
  whatever the checks do; gating does not change the exit code;
* unit reader: one observation per service, made once; capabilities compared as sets;
* identity observer: verdicts rest on the service's own process; work is shared;
  timeouts have a cause;
* plan: exactly what the contract and the selection ask for, accepted by the
  engine, everything behind its preflight, and nothing looked at before it passed;
* parser: the tree the lines draw, quoted texts as they were meant, every field asked;
* command: an exit code that the results justify, and evidence shown without
  credentials, within its limit.

The hazards are listed line by line in `PROJECT.json`, each with the properties
that watch it.

## 2. Modules

| Module | Models | Kind |
|---|---|---|
| `CheckSlice` | which slices of checks are sound, without saying how that is found out | operators; extended by `CheckGraph` and `RunContract` |
| `CheckGraph` | `validateChecks` and `detectCycles` | state machine, one action per loop turn, call and return |
| `Engine` | `Run`, `runCheck`, `runCheckSync` and contexts | state machine; EXTENDS `CheckGraph`, whose steps are the engine's `Validate` |
| `RunContract` | what a run promises its caller | abstract specification, implemented by `Engine` |
| `Systemctl` | what `systemctl show` answers and what both collectors make of it | operators |
| `Capabilities` | lists of capability names, canonical and compared | operators |
| `ProcessStatus` | the status and cgroup files of a process | operators; EXTENDS `Capabilities` |
| `ServiceReader` | the checks of one service and their reader, under the engine | state machine; EXTENDS `Accounts`, `Systemctl`, `Capabilities` |
| `IdentityObserver` | the identity checks of one service, under the engine | state machine; EXTENDS `ProcessStatus`, `Systemctl` |
| `Planner` | from contract and selection to the slice of checks | operators |
| `PlannedRun` | the plan, run by the engine, with preflights that look at PID 1 | composition of `Engine` and `Planner` |
| `Evidence` | redaction and truncation of a report's evidence | operators |
| `CheckCommand` | `runCheck` | state machine; EXTENDS `Planner`, `Evidence` |
| `ContractText` | one line of a contract: scans, quotes, keys, scalars | operators |
| `ContractDecode` | `decodeContract`: which trees are contracts, and what they ask | operators; EXTENDS `ContractText`, `Planner` |
| `ContractParser` | `ParseBytes` | state machine; EXTENDS `ContractDecode` |
| `QuotedLines` | no code: a writer of quoted texts, and that the parser reads what it writes | a property; EXTENDS `ContractParser` |
| `Accounts` | the tables made of passwd and group, the questions they answer, and what the files alone say | operators |
| `HostFiles` | path or socket checks and the account resolver they share, under the engine | state machine; EXTENDS `Accounts` |
| the modules whose names begin with `MC` | instances | constants and reference definitions for TLC |
| `Engine_proofs`, `ServiceReader_proofs`, `IdentityObserver_proofs`, `HostFiles_proofs` | theorems about the state machines; those of `CheckGraph` open `Engine_proofs` | proofs |
| `Planner_proofs` | lemmas about the operators of `Planner`, and what a plan is | proofs |
| `PlannedRun_proofs` | plans as the engine runs them; EXTENDS `Engine_proofs` and `Planner_proofs` | proofs |
| `CheckCommand_proofs` | the check command; EXTENDS `Planner_proofs` | proofs |
| `ContractParser_proofs` | the descent, the decoder, quoted texts, and that `Planner` is given what it expects; EXTENDS `QuotedLines` and `Planner_proofs` | proofs |

### How the models correspond to the code

**CheckGraph.** `checks` is byID; `frames` is the Go call stack of the recursive
`visit` closures, a frame being the ID visited and the index of the loop over
its prerequisites. `state` holds the colours, `visited` and `ordered` are the
variables of that name. A check ID is a number, its rank in the order of
`sort.Strings`; 0 is the empty string. `rank` and `clock` are history variables,
read by nothing but properties. The loop that looks for missing prerequisites is
one step: its turns change nothing, and which error it picks is not observed.

**Engine.** `pc` is where `Run` is; `ctxErr` is `Err()` of the context of the
check in progress and `parentErr` that of the caller's. `started` lies between
deriving the context and looking at it; in `select` the engine waits. `running`
are the checks whose goroutine is not over, `ended` what was sent on their
channels. When both the context and the result are there, either branch of the
`select` may be taken. A result is its check, its status and where it comes
from. `Prerequisites()` is asked once per check; the code asks again, of
immutable values. `setup` says how `Run` was called: with a collector timeout or
not, under a context with a deadline, one that may be cancelled, or neither.

**ServiceReader** and **IdentityObserver** model one service, because the caches
are keyed by service and nothing else relates two services. `at[i]` is where the
goroutine of check `i` is: between two critical sections, before and after
`systemctl`, and between the two files under `/proc`. The engine's part (`Launch`,
`Expire`, `TakeResult`, `StopWaiting`, `Block`) is that of `Engine` for these
checks. A context that ends is either dead before the command is started, or
kills it (`KillShow`); `exec` then reports an exit status of -1 in an
`ExitError`, which `OSCommandRunner` turns into a result without an error, or
the context's error if the command had ended well. A systemctl that starts
answers with an exit status, properties and texts (`Systemctl`): those of the
unit as it is, or any of `OtherAnswers`, which are garbled, incomplete or say
why it failed. Every kind of check is there with what the contract declares:
accounts go through the resolver's tables, capability lists keep their
repetitions, a status file is the fields that can be read (`ProcessStatus`) and
a mask the set of its bits. To keep states small a process carries a label, and
`StatusFile` gives the file. The unit and the host are external: they
change in any way, `MaxChanges` times. `MaxEvents` of `IdentityObserver` bounds
deadlines and changes together, which only keeps TLC's instance small: the
theorems hold for every value of it. In that module the prerequisite on
the state check is left out: it only decides whether the identity checks run at
all, and by the time they do the service may be in any state again.

**Accounts** and **HostFiles**. A table is the four maps of a file, total
functions with `Missing` where Go has no key. A line is an entry or unreadable;
a file that cannot be opened has an unreadable line at its start, one that
cannot be read on has it where reading stops: the three ways leave the same
state behind. Names are opaque, except that some are numerals with a number;
which of these fit 32 bits without a sign is membership in `Ids`. `resolver[t]`
is the Once of table `t` (new, busy, done), the file as it was opened, how many
of its lines are in the table, and the error kept. A load is as many steps as
the file has lines, and the check that runs it may have been given up on. A
replaced passwd or group is a new file under the old name, as the account tools
make it, so what is open does not change. A section is one list of checks with
one resolver, as one call of `BuildPathChecks` or `BuildSocketChecks` makes it.
The ownership metadata of `Lstat` are there on every Linux, so the branch for
its absence has no action. `formatFileMode` is the number of digits and the
value.

**Planner.** A contract is the set of its entries and what each asks for. IDs are
triples of domain, name and kind; the module says why no two triples print the
same string. Names are numbers in the order of `sort.Strings`.

**PlannedRun.** A job is a contract, the domains selected of it and whether
there is a host root; what `runCheck` would have refused before is none
(`JobsAssumption`). The number of an ID is its place in the plan, and the
engine's own actions run the numbered plan; the order of the IDs would only
change in which order independent checks run. `pid1` is what `/proc/1/comm`
holds, which restricts what a preflight may answer. A preflight whose context is
over, or that was given up on, may also answer with an error.

**ContractText, ContractDecode, ContractParser.** A text is a sequence of
characters, where a word no rule looks into ("state", "true") counts as one
character. `Scanned` is the state of the loop that `hasUnsupportedInlineComment`
and `keyValueDelimiter` have in common. The call stack of `parseBlock`,
`parseMap` and `parseList` is `frames`; `index` is the index they return to each
other. The decoder stops at the first error, the model says whether there is
one. `Decoded` is the contract that `Planner` plans for. `validQuotedString`
and the two decoders walk over the same text one after the other; `Unquoted` is
one turn of such a loop, for both kinds of quotes: a pair is a doubled
apostrophe, or a backslash and what it introduces. `QuotedLines` adds the other
direction, which the code does not have: `Writes` puts a text between quotes as
`docs/spec/contract-v1.md` says it is to be written, `Texts` are the texts.

**Evidence.** A text is a sequence of pieces with a size in bytes: characters,
credentials, stray bytes. Which texts the redaction patterns match is the
pieces' kind. The limit of 4096 bytes is a constant.

**CheckCommand.** One action per early return. The engine's run is a set of
statuses; that a plan is never refused by the engine is what `planned_run`
checks, so `runCheck`'s error return after `Run` has no action.

## 3. Runs

`CHECK_DEADLOCK FALSE` is set everywhere: every one of these programs stops.

| Run | Question | Instance |
|---|---|---|
| `check_graph` | does validation accept exactly the DAGs, order them, and end? | all slices of 3 checks with up to 2 prerequisites each, in any order and with repetitions, one ID of them unregistered; all orders of registration with empty and repeated IDs over a few graphs; all slices of 4 checks with ascending prerequisites |
| `engine` | gating, answers, overlap, termination, contract | service chain with siblings, diamond, join, unrelated checks, and refused slices; all five statuses and panics; four ways to call `Run`, with and without a collector timeout, under contexts that end by deadline, by cancellation or never |
| `service_reader` | one observation per service, rightly compared? | one check of each of the five kinds; units with users by name and by number and with capabilities in other orders and spellings; seven answers that are no unit; two changes of the unit |
| `identity_observer` | what do identity verdicts rest on? | three checks, so that two can be given up on and still be at work when the third starts; one PID that is freed and taken again; status files with other ids, an unknown capability or a field missing, a cgroup file that is none; up to two changes of the host, and up to `MaxEvents` of changes and deadlines together |
| `host_files` | do owner verdicts rest on whole account files, and do loads end? | two paths whose owner checks share a table, one path with type and mode, one socket with owner and group; account files with a numeral for a name, with entries that differ in one field, with an unreadable line; one change of the host |
| `check_command` | plan and exit code | contracts with up to two services, two labels, one path, one socket; eight filters, with unknown and empty parts; with and without host root; evidence of up to four pieces under a limit of 8 bytes (`RawLimit`), for runs of up to `MaxShown` checks, since it does not depend on them |
| `planned_run` | does the engine accept every plan, and is nothing judged on a foreign host? | contracts with up to two services, two labels, a path and a socket, every selection, with nothing in the sections that are not looked at; plans of up to `MaxRun` checks are run, on four kinds of host |
| `contract_parser` | does the parser read what is written? | every value of up to `MaxValue` characters and every key of one more, over those the scans look for; every text of up to three characters, quoted either way; every outline of up to `MaxLines` lines over four shapes and three indentations; a whole contract with lines removed, moved, repeated, renamed or given other values |
| `identity_timeout`, `identity_parse`, `exit_three`, `contract_colon` | do the documents hold? | smallest instances; each finds a counterexample (section 5) |

Why these bounds are enough. The cycle search can go wrong on self loops,
two-cycles, cycles reachable only from a later root, diamonds and repeated
prerequisites: all are among the slices of up to four checks. Gating relates a
check to its prerequisites and theirs: a chain of three and a diamond contain
every case. The caches have at most one writer per check, and a lost update
needs two writers and a reader: three checks. PID reuse needs an exit and a
start: two changes. `MaxEvents` of 3 admits both with one deadline, one of them
with two checks given up on, or a deadline of every check.
An account file shows its hazards with two entries of an id or a name, or an
entry before an unreadable line; one more change of it than `MaxChanges = 1`
finds it open or loaded already. Quotes go wrong on a quote, a backslash and what
follows: four characters hold two escapes. An outline of four lines has a block in
a block, left by one, two or three levels at once. `RawLimit` of 8 against a mark
of 3 lets redaction cross the limit in either direction, and four pieces put a
four-byte character on either side of the cut. `MaxRun` of 5 admits a preflight,
two states and two identity checks, or two domains with a preflight each. The plan's functions treat entries independently except
where labels share a service and where a service is declared as well: two
labels and two services. The theorems of section 4 lift the bounds of all safety properties.

What the properties say, in short: `Topological`, `CycleIsReal`,
`AcceptsExactlyDAGs` (against `Defective`, which knows no search), `SortedUnlessRequired`
(the order is a function of the graph); `GateHolds`, `GatingKeepsExitCode`,
`GatedForCause` (a gated status can be traced to an evaluated check),
`AnswersAreOwn`, `OnlyAbandonedOverlap`, `ResultsOnlyGrow`, `RunEnds`,
`KeepsContract` (refinement of `RunContract`: state functions `outcome` and
`verdicts`); `OneSnapshot`, `OneShow`, `CacheWrittenOnce`, `TimeoutIsOwn`;
`VerdictIsGrounded`, `WorkIsShared`, `OneObservation`, `TimeoutHasACause`;
`OwnershipIsGrounded`, `AnswersAreForced` (against what the entries of a file
say without any table), `LoadsEnd`; `EverythingIsGuarded`, `IdentityNeedsActive`, `PlanIsExact`,
`ExitCodeIsEarned`, `EvidenceIsSafe`, `PlansAreAccepted`,
`NothingIsJudgedElsewhere`; `ParsesOutlines` (against a definition that reads the
lines in no order), `QuotesAreExact` (against a writer), `EveryFieldIsAsked`. Each has a comment in its module.
`ValidationInv`, `EngineInv`, `ReaderInv`, `ObserverInv` and `ResolverInv` are
inductive invariants of the proofs and contain the type invariants. `ParserInv`,
that of the parser, contains `ParsesOutlines`. It takes TLC long to evaluate, so
it is in no run: TLC agrees with it on the single lines and the outlines of
`contract_parser` and on the whole contract with a line removed or indented
otherwise.

Each module keeps, beside some definitions, a "slip": the same definition with a
plausible mistake. Nothing uses a slip; putting it in the place of the
definition must make a property fail, which `PROJECT.json` lists per property.

### Fairness

* `GraphSpec`: weak fairness of the only step there is; validation is
  sequential code that waits for nothing.
* `FairSpec` of `Engine`: weak fairness of `EngineStep`, what the engine's
  goroutine does of itself; of `Expire` and `ParentExpires`, timers of the runtime;
  and of `EndSync`: without a deadline the engine calls the check on its own
  goroutine, and then nothing but the check's own end can make the run go on.
  There is **no** fairness for checks on goroutines of their own: with a deadline
  the run has to end although collectors may hang. Nor is there any for
  cancelling, which does not help a check that runs synchronously; that is why
  `runCheck` of `main.go` always sets a timeout.
* `HostFiles`: weak fairness of each goroutine's next step. Here it is assumed of
  the collectors too: the question is not whether a hanging disk stops a load,
  which it does, but whether anything in the resolver can.

## 4. Theorems

All hold for every value of the constants that meets the assumptions named in
the modules; TLC evaluates these on the instances of section 3. They say what
the code is given: slices of checks (`InputsAssumption`), statuses
(`StatusAssumption`), ways to call `Run` (`SetupsAssumption`), contracts as the
parser returns them (`ContractsAssumption`, with `WellFormed`) and that were not
refused (`JobsAssumption`), evidence of pieces that are not empty
(`RawsAssumption`, with a suffix that fits the limit, `LimitAssumption`), account files of entries and unreadable lines
(`AccountFilesAssumption`), documents of lines with an indentation and a text
(`DocumentsAssumption`), texts of characters (`TextsAssumption`), and the like in `ServiceReader` and
`IdentityObserver`. `KindsAreDotted` is no assumption on a constant: it spells out
a concatenation of literals, which TLC computes and the provers do not. Two are about the system outside: systemctl names no process
but the service's own as its main process (`AnswersAssumption` of
`IdentityObserver`), and the kernel shows the service's control group of its own
processes alone (`CgroupsAssumption`).

Each theorem `Spec => []Inv` follows from an inductive invariant, one lemma per
action, and is closed by PTL.

| Invariant | Holds | Gives |
|---|---|---|
| `ValidationInv` | `GraphInvariant` | `OrderIsTopological`, `CyclesAreReal`, `RefusedExactlyWhenDefective`, `OrderIsSorted` |
| `RunInv`, and `EngineInv` on top of it | `RunInvariant`, `EngineInvariant` | `NoUngatedCheck`, `ExitCodeUnmoved`, `NoBorrowedAnswer`, `OverlapOnlyAbandoned`, `GatedHasCause`, `RunKeepsContract` |
| `ReaderInv` | `ReaderInvariant` | `VerdictsShareSnapshot`, `ShownOnce`, `TimeoutsAreOwn`, `CapabilitiesCompared`; `NeverOverwritten` is an action property |
| `ObserverInv` | `ObserverInvariant` | `VerdictsAreGrounded`, `OneCheckWorks`, `AnswersAreOne`, `TimeoutsHaveCauses` |
| `ResolverInv` | `ResolverInvariant` | `OwnersAreGrounded`, `ForcedAnswers` |
| `PlannedInv` beside `EngineInv` | `PlannedInvariant` | `PlansAreNotRefused`, `ElsewhereNothingIsJudged` |
| `CommandInv` | `CommandInvariant` | `NothingIsUnguarded`, `IdentityWaitsForActive`, `NothingIsMissing`, `ExitCodeIsOfResults`, `EvidenceIsSanitized` |
| `ParserInv` | `ParserInvariant` | `ParserParsesOutlines`, `ParserAsksEveryField`, `ParserFeedsPlanner`; with `LinesInv`, `QuotedTextsAreExact` |

**Engine_proofs**, of `CheckGraph`. That the ordering search is right is not visible in the
search: it skips every visited prerequisite, also one still on its own stack. The
invariant therefore carries over what the cycle search found: it finishes each
check after its prerequisites, so `rank` decreases along every prerequisite
(`RankInv`), hence along the ordering search's stack (`OrderInv`), so a
prerequisite on the stack would have a smaller rank than itself. `StackInv` says
the stack is a chain of prerequisites without repetition, which also makes a
reported cycle real; `ColourInv` ties colours to the stack. Both searches push,
skip and pop in the same way, which the lemmas `CallPush`, `CallSkip` and
`ReturnPop` state once.

What is refused (`RefusedExactlyWhenDefective`): `ByIDInv` says of byID what the
slice says itself, so each error names a defect of the slice. A quoted cycle is
the set `Circular` asks for. In the other direction, a set in which each check
needs another one would have a member that comes first in the order
(`OrderedIsAcyclic`, by `Least`), and that one's prerequisite would come before
it. What is sorted (`OrderIsSorted`): `SortInv` gives each visited check a root
it was visited under, of which it is an ancestor or which it is, and which is not
greater than any check it is ahead of. `Ancestors` is what every set has that is
closed under prerequisites, so that it can be reasoned about without induction.

**Engine_proofs**, of `Engine`. The results are those of a prefix of the order
(`PrefixInv`); by `Topological` the prerequisites of the next check all lie in
it; so finding none that is not PASS means that all passed (`LaunchInv`).
`GatedInv` says that a gated INSUFFICIENT_DATA goes back to an evaluated result
of exit code 2, which keeps the exit code in place. `GatedForCause` is inductive
by itself: the prerequisite a check is blocked by was evaluated, or has a cause,
and ancestors of a prerequisite are ancestors (`CauseBlock`).

`RunKeepsContract` is the refinement, step by step. The steps of validation and
those that record nothing are stutters of `RunContract` (`RefinesQuiet`);
`Enter` accepts a slice that is not defective and `Finish` ends the run or
refuses a defective one, which is what `ByIDInv` and `RefusedInv` are needed
for; each of the five ways to an answer settles the current check after all its
prerequisites passed (`RefinesAnswer`), and `Block` settles it with the
propagated status of one that did not (`RefinesBlock`).

**ServiceReader_proofs.** The reader's own code does not
ensure any of it: two checks could miss and store. What does is that all others
wait for the state check to pass, which it does on what it has already stored;
so they find the cache filled (`StateInv`, `SiblingInv`) and never reach
`systemctl`. `CoreInv` is the inductive part; `CapabilitiesCompared` follows from
what it says of a verdict, namely that it is `Verdict` of what is cached, and a
lemma on lists (`OnceEach`): two lists without repetitions have the same
occurrences exactly if they have the same names.

**IdentityObserver_proofs.** Here nothing like the state check keeps a second one
from storing; what holds is
weaker and rests on the order of the run. A check that has worked and was not
given up on has stored before its successor starts, and a filled cache is never
emptied, so the successor finds something there, though not always what its
predecessor saw (`SharingInv`). Without a timeout no check is given up on, so one
at a time is at work and what it stores is what all are answered with
(`TimelyInv`). That a verdict is grounded needs an invariant of the time between
the two files: as long as the PID has not changed hands, which `birth` tells, the
process in it stays in its control group (`SameProcess`, `PlaceInv`).

**HostFiles_proofs.** First the tables, without any state: `Tells` says that the
four maps and the two ambiguity marks hold what some lines say, the empty table
tells of no lines, and `Added` tells of one line more (`AddedTells`). A table
that tells of all lines answers every question as `AnswersAreForced` reads it
off the lines (`NameOfForced`, `UserForced`, `GroupForced`). Then the resolver:
at most one check is in the Once of a table and nobody gets past it before it is
done (`OnceInv`, `LoaderInv`), so the table tells of the lines read so far at
any time (`TableInv`) and of the whole file, or up to its unreadable line, when
it is first asked. It never changes afterwards, so an answer given is the answer
still (`AnswerInv`), also one computed by a check the engine has given up on.

**Planner_proofs.** `PlansAreSound` says of `Plan(c, domains, rooted)`, for
every contract and selection past `runCheck`'s refusals: no ID twice
(`Distinct`), every prerequisite there and of a lower `Level` (`Grounded`),
everything behind its preflight (`GuardedIn`), an active service in front of
every identity check (`ActiveFirst`), and besides preflights exactly the IDs
asked for. The proof follows the code outwards. `FlattenFacts` says what
FlattenSeq returns, `KeysFacts` that `Keys` is each key once, in order, and
`FlattenedFacts` that the concatenation over the keys has all entries' checks and
nothing twice if no two entries share an ID. A list of the collectors is a
`Section`: its checks wait for nothing or for another one of it
(`PathSection`, `SocketSection`, `ServiceSection`, `StatesSection`). A preflight
in front makes a section guarded (`GuardedFacts`), sections of different domains
do not meet (`Apart`), and the two lists of service checks do not because a
state is synthesized exactly for services that the other list leaves out
(`ServiceChecksFacts`).

**PlannedRun_proofs.** Numbering the IDs by place keeps all of this
(`NumberedFacts`), and a slice without repetition whose prerequisites are there
and of a lower level is not `Defective`: in a circular set one of the lowest
level would need a lower one (`NumberedIsSound`). With
`RefusedExactlyWhenDefective`, the engine cannot refuse it. For
`ElsewhereNothingIsJudged`: a check that was launched had its prerequisites
passed (`RunInv`), and so on up to its preflight (`PreflightFirst`); on another
kind of host no preflight passes (`PreflightInv`); so what was evaluated is a
preflight, whose result is an ERROR, and every gated result propagates from one
(`GatedForCause`, `OnlyErrors`).

**CheckCommand_proofs.** `CommandInv` says that what was built is the plan of a
contract and a selection past all refusals, so `PlansAreSound` applies, that an
exit code below 3 is that of the statuses, and that what is shown is what
`Sanitize` makes of what was found (`ShownInv`). The rest is about texts of any
length. `Ends` is where each piece of a text ends (`EndsFacts`, `EndsAscend`), so
a prefix is never longer than its cut (`PrefixFits`) and a cut between two pieces
tears none (`WholePrefix`). `truncateUTF8` stops at the first rune that does not
fit; since places ascend, without stray bytes that is the last place within the
limit (`CutIsBetween`), and the next character would have crossed it
(`TruncateFacts`). Redaction leaves no credential and changes exactly the texts
that have one (`RedactFacts`).

**ContractParser_proofs.** The outline is read off the indentations: the lines
below a line are those that have it as their nearest less deep line above, and a
document is an outline if the lines below each one make one block: all items, or
all entries, equally deep and of different keys. The descent knows no such thing;
it compares the next line with the frame on top of its stack. `FrameInv` ties the
two together: a frame's `Opener` is the nearest less deep line above the line
being read, the frame stands for the block below it, and the callers are less
deep and wait at the entries that opened these blocks. So each line the descent
takes joins the block it is below, and the lines up to it make blocks
(`ReadInv`). A line that is too deep is the exception: it stands below one that
cannot be opened, and is met only after that one was taken. That no reading of
what follows mends this is the second part of `ReadInv` (`TooDeep`). `TakenInv`
says that a frame has collected the nodes of the lines of its block, without the
one that is still open; when it returns, these are all of them, so the node it
returns is the outline's (`CallNode`), and at the root it is the tree. `Outline`
refers to itself at later lines only (`BelowFacts`), so that its equation is
proved from the end (`OutlineFacts`).

`ParserAsksEveryField` then looks at an accepted tree: each section's decoder lets
only its own fields through and drops none (`FieldsAre`). `ParserFeedsPlanner`
closes the gap between the parser and the plan: with its names numbered in any
way, an accepted contract meets `WellFormed` and `SemanticallyValid`, so what
`Planner_proofs`, `CheckCommand_proofs` and `PlannedRun_proofs` assume of contracts
is what `ParseBytes` ensures; that a section has finitely many entries follows
from the lines it was made of (`OutlineFinite`).

`QuotedTextsAreExact` is about loops that walk over a text: the scan, the
decoder and the writer. Each is reduced to what it is before the first character
and how it goes on behind one more (`ScanFacts`, `UnquoteFacts`, `WriteFacts`), so
that what holds of the empty text and survives appending a character holds of
every text (`OfAllTexts`). By that induction writer and decoder are in step:
what is written is well formed and decoded to itself (`WrittenIsRead`), and what
is decoded without an error would be written in the same way, unless it contains
a control character, which may stand between quotes as it is (`ReadIsWritten`).
By the same induction the scan is inside the quotes all along the written text,
and outside again behind it, having seen no colon and no number sign of it
(`WrittenIsHidden`, `QuotesHide`). A line with a quoted value or key thus has no
comment and one colon (`NoComment`, `OneColon`), where it is split into the parts
it was written from; trimming takes nothing from either of them (`TrimIs`), and
tabs are not refused because the writer escapes them (`WrittenTabless`). The
parser is then given that one line (`LinesInv`: the lines it reads are those of
the file), whose outline is one entry (`OneLineParsed`). The other direction is
about any document: a value or a key that begins with a quote and was accepted
is a quoted text that the writer writes (`SoundValue`, `SoundKey`).

About the proofs themselves. The library's induction theorems take an operator
as a parameter, which the installed provers cannot instantiate. Induction over
the naturals is still there in the form of sets: a set of naturals has a least
member (`Least`), and what holds at 1 and goes on to the next holds up to `n`
(`UpTo`). That is enough for the recursive functions `Ends` and the one inside
FlattenSeq, and for the cardinalities of the keys; `Keys` of the model is a
CHOOSE among functions rather than a sort. The provers do not know that a string literal is a member of
STRING, so the proofs use a set `Text` of STRING and the literals of the plan, and a set
`Char` of STRING and those of `QuotedLines`.

Only model-checked: liveness under fairness (`ValidationEnds`, `RunEnds`,
`LoadsEnd`), which needs ENABLED and is out of the prover's reach.

## 5. Where code and documents disagree

* `identity_timeout`: the identity observer caches the context error of one
  check, and the checks after it, whose deadlines never fired, are reported as
  timed out as well. The service reader caches it too, but there the
  prerequisite on the state check keeps it from spreading (`TimeoutsAreOwn`).
  `savk-blueprint.md` line 69 explains TIMEOUT as the collector going past its
  deadline. What does hold is `TimeoutHasACause`.
* `identity_parse`: a `systemctl` killed at the deadline of one identity check is
  cached as a parse error, and the next identity check, whose own deadline never
  fired, reports PARSE_ERROR without any output to parse; the first one is
  reported as timed out. `ParseErrorHasOutput` is about checks with a live
  context only: in the model the check that ran `systemctl` may report it too, if
  its goroutine ends before the engine sees the deadline. `savk-blueprint.md`
  line 72 reserves PARSE_ERROR for output that could not be interpreted.
* `exit_three`: exit code 3 is also returned when the report cannot be rendered
  or written, after the engine has run; `docs/spec/report-v1.md` line 256 says
  "before the engine".
* `contract_colon`: an apostrophe in a plain key hides the colons behind it, so
  `k':'k: x` is accepted with a key that contains a colon and is not quoted.
  `docs/spec/contract-v1.md` lines 198 and 227 say such a key must be quoted, and
  the parser's own error message that it is not supported otherwise.

## 6. Not modelled

* The wording of errors and messages, durations, the order of results in a
  report, and its layout as JSON or a table: functions without state whose
  faults a unit test shows.
* What the redaction patterns match: regular expressions of the library.
* That the input is UTF-8, and numbers too long for an integer.
* Targets other than linux-systemd: the preflights have a case for them, but no
  contract the parser accepts has one.
* validate, version, usage: they print; what validate prints of a contract is
  whether `ContractParser` accepts it.
* More than one service at once, for the reason given in section 2.

## 7. Plan

Done, in this order: graph, run loop with its contract, unit reader, identity
observer, plan, command, host files with the account resolver, parser, planned
run with its preflights, evidence, all kinds of service and identity checks;
proofs of the graph, the run loop, the unit reader and the identity observer;
then those of the refinement of `RunContract`, of the slices refused and the
order's sorting, of the account resolver, of the plan, of planned runs, and of the
check command with its evidence; those of the parser, that what it accepts is
what the plan expects, and that quoted texts are read as they were written.

With that the plan is done: each safety property of section 3 is a theorem of
section 4, and liveness is what TLC alone answers for.
