----------------------------- MODULE MCActions -----------------------------
(* Small instances of MainScreen and of ProcessActions, each alone: which   *)
(* processes an action is for, and what it does to them.                    *)
EXTENDS MCMainScreen, ProcessActions

VARIABLE part

mcVars == <<part, vars, actVars>>

MCIoRows == <<"none", "rt", "be">>

\* One kind of action in each behavior; a process may refuse, root may do anything.
MCInit ==
  /\ part \in {"screen", "nice", "io", "cpus", "signal"}
  /\ Init
  /\ ActInit
  /\ os.foreign \subseteq {1}
  /\ part # "io" => ~build.ioFlag
  /\ part # "cpus" => ~build.hwloc
  /\ part \notin {"nice", "io"} => os.root = (os.foreign = {})
  /\ part # "cpus" => \A p \in Procs : os.is[p].cpus = KernelCpus
  /\ part = "screen" => os.root

\* Bound: scans leave processes without a row where priorities and signals are set, which
\* all actions look for their processes alike.
MCNext ==
  /\ UNCHANGED part
  /\ \/ part = "screen" /\ Next /\ UNCHANGED actVars
     \/ part = "nice" /\ NiceNext /\ UNCHANGED vars
     \/ part = "io" /\ IoNext /\ UNCHANGED vars
     \/ part = "cpus" /\ AffinityNext /\ UNCHANGED vars
     \/ part = "signal" /\ SignalNext /\ UNCHANGED vars
  /\ part \in {"io", "cpus"} => pl'.rows = pl'.pids

MCSpec == MCInit /\ [][MCNext]_mcVars
=============================================================================
