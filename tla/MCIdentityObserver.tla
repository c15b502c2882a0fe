-------------------------- MODULE MCIdentityObserver --------------------------
(***************************************************************************)
(* A service with three identity checks.  A process either has what they   *)
(* ask for, or it has the right ids in the wrong places and a capability   *)
(* too many, one without a name.                                           *)
(***************************************************************************)
EXTENDS IdentityObserver

MCKind == <<"uid", "gid", "capabilities.effective">>
MCDeclared == <<7, 7, <<Canonical(5), Canonical(0)>>>>

MCCredentials == {"asked", "others"}
MCOtherStatus == {"garbled"}

\* The last one is that of a kernel without ambient capabilities.
MCStatusFile ==
    [as \in MCCredentials \union MCOtherStatus |->
       LET uids == IF as = "others" THEN <<7, 0, 0, 0>> ELSE <<0, 7, 7, 7>>
           bits == IF as = "others" THEN {0, 5, 41} ELSE {0, 5}
           fields == IdFields \union (IF as = "garbled" THEN MaskFields \ {"CapAmb"}
                                                        ELSE MaskFields)
       IN [f \in fields |-> CASE f = "Uid" -> uids
                              [] f = "Gid" -> <<7, 7, 7, 7>>
                              [] f = "CapEff" -> bits
                              [] OTHER -> KnownBits]]

\* A line without a path.
MCOtherCgroups == {<<OwnGroup, "">>}

\* systemctl does not know the unit.
MCAnswers ==
    {Answer("zero", [LoadState |-> "not-found", MainPID |-> 0, ControlGroup |-> ""])}
=============================================================================
