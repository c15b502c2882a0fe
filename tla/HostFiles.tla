------------------------------ MODULE HostFiles ------------------------------
(***************************************************************************)
(* The path checks, or the socket checks, of a contract under the engine:  *)
(* Run of src/internal/collectors/paths.go and sockets.go.  Every check    *)
(* calls Lstat on its own; those of owners and groups then share one       *)
(* account resolver (accounts.go), which reads passwd and group when first *)
(* asked, under a sync.Once each.  A check the engine gave up on goes on   *)
(* reading beside the checks that follow, which have to wait for it.       *)
(*                                                                         *)
(* The files of the host and the contents of passwd and group are          *)
(* external: they change while the checks run.  A changed passwd or group  *)
(* is a new file under the old name, so one that is open is read as it was *)
(* when it was opened.  Under a host root all names are looked up below    *)
(* it; one file tree stands for either case.                               *)
(***************************************************************************)
EXTENDS Accounts

CONSTANTS
    Paths,          \* the absolute paths of the section
    Sections,       \* the sections of contracts: sequences of checks
    Files,          \* what may be found at each path
    LstatFailures,  \* how else it may fail: permission, other
    Passwds,        \* contents of /etc/passwd
    Groups,         \* contents of /etc/group
    MaxChanges      \* bound: how often something on the host changes

Tables == {"passwd", "group"}
Types == {"regular", "directory", "socket", "special"}
Perms == 0..511
Specials == 0..7  \* setuid, setgid and sticky

File == [type : Types, perm : Perms, special : Specials, uid : Ids, gid : Ids]
Absent == [absent |-> TRUE]

\* formatFileMode: the digits printed, with their leading zero, and the value.
FormatFileMode(file) ==
    [digits |-> IF file.special = 0 THEN 4 ELSE 5, value |-> 512 * file.special + file.perm]

Mode == [digits : {4, 5}, value : 0..4095]

\* observedPathType.
ObservedPathType(file) ==
    CASE file.type = "regular" -> "file"
      [] file.type = "directory" -> "directory"
      [] OTHER -> "other"

(***************************************************************************)
(* A check: its path, its kind and what the contract expects.  The first   *)
(* of a path, of kind "exists" or "socket", is the one the others wait     *)
(* for; "socket" is the existence check of the sockets section.            *)
(***************************************************************************)
Gates == {"exists", "socket"}
Owners == {"owner", "group"}
Check ==
    [path : Paths, kind : Gates] \union
    [path : Paths, kind : {"type"}, expected : {"file", "directory"}] \union
    [path : Paths, kind : {"mode"}, expected : Mode] \union
    [path : Paths, kind : Owners, expected : Names]

TableOf(kind) == IF kind = "owner" THEN "passwd" ELSE "group"
IdOf(kind, file) == IF kind = "owner" THEN file.uid ELSE file.gid

ASSUME SectionsAssumption == Sections \subseteq Seq(Check)
ASSUME FilesAssumption == Files \in [Paths -> SUBSET (File \union {Absent})]
ASSUME FailuresAssumption == LstatFailures \subseteq {"permission", "other"}
ASSUME AccountFilesAssumption ==
    \A file \in Passwds \union Groups : file \in Seq(Line)
ASSUME MaxChangesAssumption == MaxChanges \in Nat

VARIABLES
    checks,    \* the section: its checks in the order the engine runs them
    turn,      \* the check the engine is settling; one past the last at the end
    ctx,       \* "live" or "ended": the context of each check
    results,   \* the verdict the engine recorded for each check, or ""
    at,        \* where each check's goroutine is
    found,     \* what its Lstat found: a file, Absent or Nothing
    answer,    \* its result, or ""
    resolver,  \* the shared account resolver: the state of both tables
    files,     \* external: what is at each path
    accounts,  \* external: the contents of passwd and group
    changes    \* how often the host has changed

engineVars == <<checks, turn, ctx, results>>
checkVars == <<at, found, answer>>
hostVars == <<files, accounts, changes>>
vars == <<engineVars, checkVars, resolver, hostVars>>

Nothing == [none |-> TRUE]
Checks == DOMAIN checks
Checked == {checks[i].path : i \in Checks}
Kind(i) == checks[i].kind

\* pathCheck.Prerequisites, socketCheck.Prerequisites.
Needs(i) == IF Kind(i) \in Gates THEN {}
            ELSE {p \in Checks : checks[p].path = checks[i].path /\ Kind(p) \in Gates}

\* A table not asked for yet.
Fresh == [once |-> "new", file |-> <<>>, read |-> 0, table |-> EmptyTable, err |-> FALSE]

Init ==
    /\ checks \in Sections
    /\ turn = 1
    /\ ctx = [i \in Checks |-> "live"]
    /\ results = [i \in Checks |-> ""]
    /\ at = [i \in Checks |-> "idle"]
    /\ found = [i \in Checks |-> Nothing]
    /\ answer = [i \in Checks |-> ""]
    /\ resolver = [t \in Tables |-> Fresh]
    /\ files \in {f \in [Checked -> UNION {Files[p] : p \in Checked}] :
                 \A p \in Checked : f[p] \in Files[p]}
    /\ \E p \in Passwds, g \in Groups :
         accounts = [t \in Tables |-> IF t = "passwd" THEN p ELSE g]
    /\ changes = 0

-----------------------------------------------------------------------------
\* The engine (Engine.tla), as far as these checks see it.
Record(verdict) ==
    /\ results' = [results EXCEPT ![turn] = verdict]
    /\ turn' = turn + 1
    /\ UNCHANGED <<checks, ctx, checkVars, resolver, hostVars>>

Gated(i) == \E p \in Needs(i) : results[p] # "PASS"

Block == turn \in Checks /\ Gated(turn) /\ Record("GATED")

Launch ==
    /\ turn \in Checks
    /\ ~Gated(turn)
    /\ at[turn] = "idle"
    /\ at' = [at EXCEPT ![turn] = "run"]
    /\ UNCHANGED <<engineVars, found, answer, resolver, hostVars>>

\* The collector timeout of the check in progress fires.
Expire ==
    /\ turn \in Checks
    /\ ~Gated(turn)
    /\ ctx[turn] = "live"
    /\ ctx' = [ctx EXCEPT ![turn] = "ended"]
    /\ UNCHANGED <<checks, turn, results, checkVars, resolver, hostVars>>

TakeResult == turn \in Checks /\ at[turn] = "done" /\ Record(answer[turn])

\* The deadline was seen first, or had passed before the goroutine was started.
StopWaiting == turn \in Checks /\ ctx[turn] = "ended" /\ Record("ERROR/TIMEOUT")

-----------------------------------------------------------------------------
Go(i, where) == at' = [at EXCEPT ![i] = where]
Answer(i, verdict) == Go(i, "done") /\ answer' = [answer EXCEPT ![i] = verdict]

Begin(i) ==
    /\ at[i] = "run"
    /\ IF ctx[i] = "ended" THEN Answer(i, "ERROR/TIMEOUT")
                           ELSE Go(i, "lstat") /\ UNCHANGED answer
    /\ UNCHANGED <<engineVars, found, resolver, hostVars>>

\* What a check of any kind but owner and group says of a file.
Matches(check, file) ==
    CASE check.kind = "exists" -> TRUE
      [] check.kind = "socket" -> file.type = "socket"
      [] check.kind = "type" -> ObservedPathType(file) = check.expected
      [] check.kind = "mode" -> FormatFileMode(file) = check.expected

Judged(right) == IF right THEN "PASS" ELSE "FAIL"

\* Only an existence check takes absence for an answer; mapStatError knows no
\* other error than a refused permission.
Lstat(i) ==
    /\ at[i] = "lstat"
    /\ \/ /\ found' = [found EXCEPT ![i] = files[checks[i].path]]
          /\ IF files[checks[i].path] = Absent
             THEN Answer(i, IF Kind(i) \in Gates THEN "FAIL/NOT_FOUND" ELSE "ERROR/PARSE_ERROR")
             ELSE IF Kind(i) \in Owners THEN Go(i, "load") /\ UNCHANGED answer
             ELSE Answer(i, Judged(Matches(checks[i], files[checks[i].path])))
       \/ /\ \E failure \in LstatFailures :
               Answer(i, IF failure = "permission" THEN "ERROR/PERMISSION_DENIED"
                                                   ELSE "ERROR/PARSE_ERROR")
          /\ UNCHANGED found
    /\ UNCHANGED <<engineVars, resolver, hostVars>>

-----------------------------------------------------------------------------
\* loadPasswd, loadGroup: what check i has to load before it can answer.
Asked(i) == TableOf(Kind(i))
Loads(i, state) == resolver' = [resolver EXCEPT ![Asked(i)] = state]

\* Once.Do of the first to ask: it opens the file.
Open(i) ==
    /\ at[i] = "load"
    /\ resolver[Asked(i)].once = "new"
    /\ Loads(i, [Fresh EXCEPT !.once = "busy", !.file = accounts[Asked(i)]])
    /\ Go(i, "loading")
    /\ UNCHANGED <<engineVars, found, answer, hostVars>>

\* Slip: a table that is there is taken, whether it is complete or not.
PassUnguarded(i) ==
    /\ at[i] = "load"
    /\ resolver[Asked(i)].once # "new"
    /\ Go(i, "resolve")
    /\ UNCHANGED <<engineVars, found, answer, resolver, hostVars>>

\* Once.Do of any other: it returns when the first has.
Pass(i) ==
    /\ at[i] = "load"
    /\ resolver[Asked(i)].once = "done"
    /\ Go(i, "resolve")
    /\ UNCHANGED <<engineVars, found, answer, resolver, hostVars>>

\* The next line, if the file has one more.
NextLine(i) == resolver[Asked(i)].file[resolver[Asked(i)].read + 1]
HasLine(i) == resolver[Asked(i)].read < Len(resolver[Asked(i)].file)

ReadEntry(i) ==
    /\ at[i] = "loading"
    /\ HasLine(i) /\ NextLine(i) # Unreadable
    /\ Loads(i, [resolver[Asked(i)] EXCEPT !.read = @ + 1, !.table = Added(@, NextLine(i))])
    /\ UNCHANGED <<engineVars, checkVars, hostVars>>

\* Slip: the early return on an unreadable line leaves the Once unfinished.
FailLoadStuck(i) ==
    /\ at[i] = "loading"
    /\ HasLine(i) /\ NextLine(i) = Unreadable
    /\ Loads(i, [resolver[Asked(i)] EXCEPT !.err = TRUE])
    /\ Go(i, "resolve")
    /\ UNCHANGED <<engineVars, found, answer, hostVars>>

\* The error is kept with what has been read, and returned to all who ask.
FailLoad(i) ==
    /\ at[i] = "loading"
    /\ HasLine(i) /\ NextLine(i) = Unreadable
    /\ Loads(i, [resolver[Asked(i)] EXCEPT !.err = TRUE, !.once = "done"])
    /\ Go(i, "resolve")
    /\ UNCHANGED <<engineVars, found, answer, hostVars>>

EndLoad(i) ==
    /\ at[i] = "loading"
    /\ ~HasLine(i)
    /\ Loads(i, [resolver[Asked(i)] EXCEPT !.once = "done"])
    /\ Go(i, "resolve")
    /\ UNCHANGED <<engineVars, found, answer, hostVars>>

\* UserNameByUID or GroupNameByGID, of the owner or group Lstat found.
Id(i) == IdOf(Kind(i), found[i])
Named(i) == IF resolver[Asked(i)].err THEN NoName ELSE NameOf(resolver[Asked(i)].table, Id(i))

\* The rest of runOwner and runGroup.
Resolved(i) == IF Named(i) = NoName THEN "INSUFFICIENT_DATA/PARSE_ERROR"
                                    ELSE Judged(Named(i) = checks[i].expected)

Resolve(i) ==
    /\ at[i] = "resolve"
    /\ Answer(i, Resolved(i))
    /\ UNCHANGED <<engineVars, found, resolver, hostVars>>

Worker(i) == \/ Begin(i) \/ Lstat(i) \/ Open(i) \/ Pass(i)
             \/ ReadEntry(i) \/ FailLoad(i) \/ EndLoad(i) \/ Resolve(i)

\* External: a file of the contract, or passwd or group, is replaced.
\* What happens after the last check is settled concerns no result.
Change ==
    /\ turn \in Checks
    /\ changes < MaxChanges
    /\ changes' = changes + 1
    /\ \/ /\ \E p \in Checked : \E f \in Files[p] : files' = [files EXCEPT ![p] = f]
          /\ UNCHANGED accounts
       \/ /\ \/ \E file \in Passwds : accounts' = [accounts EXCEPT !["passwd"] = file]
             \/ \E file \in Groups : accounts' = [accounts EXCEPT !["group"] = file]
          /\ UNCHANGED files
    /\ UNCHANGED <<engineVars, checkVars, resolver>>

Next == \/ Block \/ Launch \/ Expire \/ TakeResult \/ StopWaiting \/ Change
        \/ \E i \in Checks : Worker(i)

(***************************************************************************)
(* Goroutines that can run do, and local files end: each step of a check   *)
(* is taken if it stays possible.                                          *)
(***************************************************************************)
Indices == UNION {DOMAIN section : section \in Sections}

Fairness == \A i \in Indices : WF_vars(i \in Checks /\ Worker(i))

Spec == Init /\ [][Next]_vars /\ Fairness
-----------------------------------------------------------------------------
Places == {"idle", "run", "lstat", "load", "loading", "resolve", "done"}

\* The state of one table.
Load == [once : {"new", "busy", "done"}, file : Passwds \union Groups \union {<<>>},
         read : Nat, table : Table, err : BOOLEAN]

Verdicts == {"PASS", "FAIL", "FAIL/NOT_FOUND", "ERROR/TIMEOUT", "ERROR/PARSE_ERROR",
             "ERROR/PERMISSION_DENIED", "INSUFFICIENT_DATA/PARSE_ERROR"}

TypeOK ==
    /\ checks \in Sections
    /\ turn \in 1..(Len(checks) + 1)
    /\ ctx \in [Checks -> {"live", "ended"}]
    /\ results \in [Checks -> Verdicts \union {"", "GATED"}]
    /\ at \in [Checks -> Places]
    /\ found \in [Checks -> File \union {Absent, Nothing}]
    /\ answer \in [Checks -> Verdicts \union {""}]
    /\ resolver \in [Tables -> Load]
    /\ \A t \in Tables : resolver[t].read <= Len(resolver[t].file)
    /\ DOMAIN files = Checked
    /\ \A p \in Checked : files[p] \in Files[p]
    /\ DOMAIN accounts = Tables
    /\ accounts["passwd"] \in Passwds /\ accounts["group"] \in Groups
    /\ changes \in 0..MaxChanges

(***************************************************************************)
(* The Once of each table: new until the first asks, busy while exactly    *)
(* one check reads, done when the file has been read to its end or to a    *)
(* line that cannot be read.  No check gets past it before it is done.     *)
(***************************************************************************)
OnceInv ==
    \A t \in Tables :
      /\ resolver[t].once = "new" => resolver[t] = Fresh
      /\ resolver[t].once = "busy" =>
           \E i \in Checks : at[i] = "loading" /\ Kind(i) \in Owners /\ Asked(i) = t
      /\ resolver[t].err =>
           /\ resolver[t].once = "done"
           /\ resolver[t].read < Len(resolver[t].file)
           /\ resolver[t].file[resolver[t].read + 1] = Unreadable
      /\ resolver[t].once = "done" /\ ~resolver[t].err =>
           resolver[t].read = Len(resolver[t].file)

LoaderInv ==
    \A i \in Checks :
      /\ at[i] \in {"load", "loading", "resolve"} =>
           Kind(i) \in Owners /\ found[i] \in File
      /\ at[i] = "loading" =>
           /\ resolver[Asked(i)].once = "busy"
           /\ \A j \in Checks : at[j] = "loading" /\ Asked(j) = Asked(i) => j = i
      /\ at[i] = "resolve" => resolver[Asked(i)].once = "done"
      /\ at[i] = "done" => answer[i] # ""

(***************************************************************************)
(* A table holds what the lines read so far say.                           *)
(***************************************************************************)
SoFar(t) == SubSeq(resolver[t].file, 1, resolver[t].read)

TableInv ==
    \A t \in Tables :
      /\ \A k \in 1..resolver[t].read : resolver[t].file[k] # Unreadable
      /\ Tells(resolver[t].table, SoFar(t))

(***************************************************************************)
(* A check that timed out did so on its own deadline: a load begun by a    *)
(* check that was given up on hands no context error to those after it.    *)
(***************************************************************************)
TimeoutIsOwn ==
    \A i \in Checks : "ERROR/TIMEOUT" \in {results[i], answer[i]} => ctx[i] = "ended"

(***************************************************************************)
(* What the engine records is the check's own answer or the engine's.  An  *)
(* owner or group check that went as far as the table answers what the     *)
(* table still says: nothing changes it any more.                          *)
(***************************************************************************)
AnswerInv ==
    \A i \in Checks :
      /\ at[i] # "done" => answer[i] = ""
      /\ results[i] \in {"", "GATED", "ERROR/TIMEOUT", answer[i]}
      /\ Kind(i) \in Owners /\ answer[i] \in {"PASS", "FAIL", "INSUFFICIENT_DATA/PARSE_ERROR"} =>
           /\ found[i] \in File
           /\ resolver[Asked(i)].once = "done"
           /\ answer[i] = Resolved(i)

(***************************************************************************)
(* The inductive invariant of the checks and their resolver.               *)
(***************************************************************************)
ResolverInv == TypeOK /\ OnceInv /\ LoaderInv /\ TableInv /\ TimeoutIsOwn /\ AnswerInv

(***************************************************************************)
(* An owner or group check passes or fails only if the whole account file  *)
(* that was read leaves no choice but one name for the id, and it is       *)
(* insufficient data only if the file could not be read or does leave one: *)
(* whoever read the file, however long ago, and whoever gave up meanwhile. *)
(***************************************************************************)
OwnershipIsGrounded ==
    \A i \in Checks : Kind(i) \in Owners =>
      LET file == resolver[Asked(i)].file
          id == IdOf(Kind(i), found[i])
          readable == Unreadable \notin {file[k] : k \in DOMAIN file}
      IN /\ results[i] = "PASS" => readable /\ OnlyNameOf(file, id, checks[i].expected)
         /\ results[i] = "FAIL" =>
              readable /\ \E n \in Names \ {checks[i].expected} : OnlyNameOf(file, id, n)
         /\ results[i] = "INSUFFICIENT_DATA/PARSE_ERROR" =>
              ~readable \/ ~\E n \in Names : OnlyNameOf(file, id, n)

(***************************************************************************)
(* Every question a complete table is asked has the answer the file alone  *)
(* forces, and none if it forces none: the name of an id, what User= or    *)
(* Group= names when it is a numeral, the primary group of a user.         *)
(***************************************************************************)
Complete(t) == resolver[t].once = "done" /\ ~resolver[t].err

OnlyUser(passwd, user, name) ==
    IF user = "" THEN name = "root" ELSE OnlyMeaning(passwd, user, name)

OnlyGroup(passwd, group, user, value, name) ==
    IF value # "" THEN OnlyMeaning(group, value, name)
    ELSE \E n \in Names, e \in Entries(passwd) :
           /\ OnlyUser(passwd, user, n)
           /\ WithName(passwd, n) = {e}
           /\ OnlyNameOf(group, e.gid, name)

AnswersAreForced ==
    /\ \A t \in Tables : Complete(t) => \A name \in Names :
         /\ \A id \in Ids : NameOf(resolver[t].table, id) = name
                              <=> OnlyNameOf(resolver[t].file, id, name)
         /\ \A value \in Names : Normalized(resolver[t].table, value) = name
                                   <=> OnlyMeaning(resolver[t].file, value, name)
    /\ (\A t \in Tables : Complete(t)) => \A user, value \in Names \union {""}, name \in Names :
         ObservedGroup(resolver["passwd"].table, resolver["group"].table, user, value) = name
           <=> OnlyGroup(resolver["passwd"].file, resolver["group"].file, user, value, name)

(***************************************************************************)
(* A load that has begun ends, whatever the file holds and whether or not  *)
(* the engine still waits for the check that reads it: the Once is never   *)
(* left busy for those behind it.                                          *)
(***************************************************************************)
LoadsEnd == \A t \in Tables : resolver[t].once = "busy" ~> resolver[t].once = "done"
=============================================================================
