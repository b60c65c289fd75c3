--------------------------- MODULE MCProcessScan ---------------------------
(* Small instances of ProcessScan, and of MainLoop, which says when there  *)
(* is a scan and a sort; one of them is looked at in each behavior.        *)
EXTENDS ProcessScan, MainLoop

VARIABLE part

\* ProcessScan has its Init, Next and vars without a prefix.
mcVars == <<part, vars, loopVars>>

\* While the third pid is in use the tasks are neither kernel threads nor asleep.
ThirdIsPlain ==
    Exists(3) => \A p \in Pid : os[p].state # "S" /\ ~os[p].kernel

\* A loop that was left with the first key.
LoopIsOver ==
    /\ point = "closed" /\ ch = "quit"
    /\ sortTimeout = 1 /\ closeTimeout = 0 /\ burst = 0
    /\ timedOut = TRUE /\ scanned = TRUE /\ sorted = TRUE
    /\ rescan = FALSE /\ treeView = FALSE /\ adjusted = FALSE

MCInit ==
    /\ part \in {"scan", "loop"}
    /\ Init /\ ThirdIsPlain
    /\ part = "loop" => (\A p \in Pid : ~Exists(p)) /\ LoopInit
    /\ part = "scan" => LoopIsOver

MCNext ==
    /\ UNCHANGED part
    /\ \/ part = "scan" /\ Next /\ ThirdIsPlain' /\ UNCHANGED loopVars
       \/ part = "loop" /\ LoopNext /\ UNCHANGED vars
       \/ part = "loop" /\ point = "closed" /\ UNCHANGED <<vars, loopVars>>

\* Each fair as it is alone: the scan is idle where the loop runs, and the loop is over
\* where there are scans, so neither asks anything of the other.
MCSpec ==
    /\ MCInit /\ [][MCNext]_mcVars
    /\ WF_mcVars(part = "scan" /\ Walk /\ UNCHANGED <<part, loopVars>>)
    /\ Fairness
=============================================================================
