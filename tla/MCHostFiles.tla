----------------------------- MODULE MCHostFiles -----------------------------
(***************************************************************************)
(* Instances of HostFiles: sections with one check of each kind, two paths *)
(* for the owner checks that share a table, and account files with one     *)
(* case each of what can be wrong with them.                               *)
(***************************************************************************)
EXTENDS HostFiles, TLC

MCNumber == "1" :> 1 @@ "-1" :> -1

Ent(name, id, gid) == [name |-> name, id |-> id, gid |-> gid]
Root == Ent("root", 0, 0)
Bob == Ent("bob", 1, 1)

MCPasswds ==
    {<<Root, Bob>>,               \* nothing wrong; 1 means bob
     <<Ent("1", 0, 1), Bob>>,     \* the name 1 is not the id 1
     <<Bob, Ent("bob", 1, 0)>>,   \* two lines that differ in the group only
     <<Bob, Unreadable>>}

\* 0 is two groups, 1 means bob and is a group's name.
MCGroups == {<<Bob, Root, Ent("1", 0, 0)>>}

ExpectedMode == [digits |-> 4, value |-> 416]

\* A check of each kind, with what it expects.
One(path, kind) ==
    CASE kind \in Gates -> [path |-> path, kind |-> kind]
      [] kind = "type" -> [path |-> path, kind |-> kind, expected |-> "file"]
      [] kind = "mode" -> [path |-> path, kind |-> kind, expected |-> ExpectedMode]
      [] kind \in Owners -> 
           [path |-> path, kind |-> kind, expected |-> IF path = 1 THEN "bob" ELSE "root"]

MCSections ==
    {<<One(1, "exists"), One(1, "owner"), One(2, "exists"), One(2, "owner")>>,
     <<One(1, "exists"), One(1, "type"), One(1, "mode")>>,
     <<One(1, "socket"), One(1, "owner"), One(1, "group")>>}

Regular == [type |-> "regular", perm |-> 416, special |-> 0, uid |-> 1, gid |-> 1]
Socket == [Regular EXCEPT !.type = "socket", !.special = 4]

\* The first path changes; the second is there for its owner.
MCFiles == <<{Absent, Regular, Socket}, {Regular}>>
=============================================================================
