------------------------------ MODULE MCLists ------------------------------
(* Small instances of ProcessTree and ProcessOrder, which share nothing; one *)
(* of them is looked at in each behavior.                                    *)
EXTENDS ProcessTree, ProcessOrder

VARIABLE part

mcVars == <<part, treeVars, orderVars>>

Both == {1, -1}

MCTitleLen == [c \in Columns |-> IF c \in {"PERCENT_CPU", "STATE"} THEN 1 ELSE 2]

\* A column of each kind, with the one each build adds.
MCFieldLists ==
  {<<"PERCENT_CPU", "M_SIZE", "NICE">>, <<"STATE", "UTIME", "IO_RATE">>,
   <<"IO_PRIORITY", "STARTTIME", "ZONE">>, <<"PERCENT_CPU", "COMM", "JID">>}

\* Numbers that are unsigned where a long is wider.
MCUnsignedLists == {<<"PID", "PGRP">>, <<"VPID", "OOM">>}

\* Tables that change during the scans have fewer processes to begin with.
MCInit ==
  /\ part \in {"tree", "order"}
  /\ TreeInit
  /\ part # "tree" => (\A p \in Pid \ {Reaper} : os[p] = Unused) /\ changes = 0
  /\ changes < MaxChanges => \A p \in Pid \ ForkPid : os[p] = Unused
  /\ OrderInit
  /\ part # "order" => fields = <<"STATE", "UTIME", "IO_RATE">> /\ sortKey = "STATE"
                       /\ sortDirection = 1 /\ asTree = FALSE

\* Bound: while the list is scrolled, which only clicks depend on, it has one process.
MCNext ==
  /\ UNCHANGED part
  /\ \/ part = "tree" /\ TreeNext /\ UNCHANGED orderVars
     \/ /\ part = "order" /\ OrderNext /\ UNCHANGED treeVars
        /\ scrolled' > 0 => Len(listed') <= 1

MCSpec == MCInit /\ [][MCNext]_mcVars
=============================================================================
