------------------------------- MODULE Systemctl -------------------------------
(***************************************************************************)
(* What `systemctl show' answers, and what services.go and identity.go     *)
(* make of it.  An answer is the exit status, the properties printed, one  *)
(* key=value per line, whether some line is none, and which of the texts   *)
(* that mapSystemctlFailure looks for stand in the output, in small        *)
(* letters.                                                                *)
(***************************************************************************)
EXTENDS Integers

Texts == {"not found", "permission denied", "no systemd"}

Answer(exit, properties) ==
    [exit |-> exit, properties |-> properties, garbled |-> FALSE, texts |-> {}]

\* Output of a systemctl killed before it printed anything.
Silent == Answer("killed", [key \in {} |-> ""])

Says(a, key, value) == key \in DOMAIN a.properties /\ a.properties[key] = value

\* parseSystemctlProperties: every line a property, and the required ones there.
ParsesProperties(a, required) == ~a.garbled /\ required \subseteq DOMAIN a.properties

NotFound(a) == Says(a, "LoadState", "not-found")

ShowProperties == {"LoadState", "ActiveState", "Restart", "User", "Group",
                   "AmbientCapabilities"}
MainPIDProperties == {"LoadState", "MainPID", "ControlGroup"}

\* parseSystemctlShow: the error, or "none".
ParseSystemctlShow(a) ==
    IF ~ParsesProperties(a, ShowProperties) THEN "parse"
    ELSE IF NotFound(a) THEN "notfound" ELSE "none"

\* Slip: MainPID=0 passes for a process ID.
ParseSystemctlMainPIDAny(a) ==
    IF ~ParsesProperties(a, MainPIDProperties) THEN "parse"
    ELSE IF NotFound(a) THEN "notfound" ELSE "none"

\* parseSystemctlMainPID.  MainPID is a number, a negative one standing for
\* what is none; a blank ControlGroup is "".
ParseSystemctlMainPID(a) ==
    IF ~ParsesProperties(a, MainPIDProperties) THEN "parse"
    ELSE IF NotFound(a) THEN "notfound"
    ELSE IF a.properties["MainPID"] <= 0 \/ a.properties["ControlGroup"] = "" THEN "mainpid"
    ELSE "none"

\* mapSystemctlFailure: the first thing the output says, in this order.
MapSystemctlFailure(a) ==
    IF NotFound(a) \/ "not found" \in a.texts THEN "notfound"
    ELSE IF "permission denied" \in a.texts THEN "permission"
    ELSE IF "no systemd" \in a.texts THEN "namespace"
    ELSE "parse"

\* The error Read makes of an answer, which parse is given for.
ReadError(a, parsed) == IF a.exit = "zero" THEN parsed ELSE MapSystemctlFailure(a)
=============================================================================
