----------------------------- MODULE ProcessStatus -----------------------------
(***************************************************************************)
(* The two files under /proc that identity.go reads of a process.          *)
(*                                                                         *)
(* A status file is a function from the fields it has.  Uid and Gid are    *)
(* the ids of their line: real, effective, saved, of the file system.  A   *)
(* capability mask is the set of its bits.  A field whose value cannot be  *)
(* parsed counts as one that is not there, and a line without a colon as   *)
(* none of the fields being there.  A cgroup file is the sequence of the   *)
(* paths on its lines, "" for a line that has none.                        *)
(***************************************************************************)
EXTENDS Capabilities

IdFields == {"Uid", "Gid"}
MaskFields == {"CapEff", "CapPrm", "CapInh", "CapBnd", "CapAmb"}

ParseEffectiveID(ids) == ids[2]

\* The names of the bits that are set, sorted.
ParseCapabilityMask(bits) == [name \in {LinuxCapabilityName(b) : b \in bits} |-> 1]

ParsesProcessStatus(file) ==
    /\ IdFields \union MaskFields \subseteq DOMAIN file
    /\ \A f \in IdFields : Len(file[f]) >= 2

ParsesProcessCgroups(paths) == paths # <<>> /\ "" \notin NamesOn(paths)

CgroupsContain(paths, expected) == expected # "" /\ expected \in NamesOn(paths)
=============================================================================
