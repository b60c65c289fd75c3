--------------------------- MODULE MCPlatformScan ---------------------------
(* A small instance of PlatformScan: init, and two pids that come and go.    *)
(* MCScreens runs it.                                                        *)
EXTENDS PlatformScan

User(lwps, rep, busy) == [kernel |-> FALSE, lwps |-> lwps, rep |-> rep, busy |-> busy]
Sleeping == User({1}, 1, {})
Busy == User({1}, 1, {1})
Zombie == User({}, 1, {})
Kernel == [kernel |-> TRUE, lwps |-> {1}, rep |-> 1, busy |-> {}]

\* On Solaris another LWP may become the representative, and one has an id that is
\* too high for the list.
MCTasks == [b \in Platforms |->
    CASE b = "freebsd" -> {Sleeping, Busy, Kernel}
      [] b = "dragonfly" -> {Zombie, User({1, 2}, 1, {2}), Sleeping, Kernel}
      [] b = "openbsd" -> {Sleeping, Busy, Kernel}
      [] b = "solaris" -> {User({1, 2}, 1, {1}), User({1, 2}, 2, {2}),
                           User({1, 1024}, 1, {}), [Kernel EXCEPT !.lwps = {1, 2}]}
      [] b = "darwin" -> {Sleeping, User({1, 2}, 1, {2}), Zombie}
      [] b = "unsupported" -> {Sleeping}]

MCSorts == {[tree |-> FALSE, key |-> "PERCENT_CPU", direction |-> 1],
            [tree |-> FALSE, key |-> "PPID", direction |-> -1],
            [tree |-> TRUE, key |-> "PID", direction |-> 1]}

MCMaxChanges == [b \in Platforms |-> IF b \in {"solaris", "darwin"} THEN 1 ELSE 2]

\* At most two processes in the beginning, and one order of the list for each build,
\* another later; init asleep where there are zombies; kernel and userland hidden both
\* or none, one after the other later.
MCPlatformInit ==
    /\ PlatformInit
    /\ os[3] = NULL
    /\ settings.sort.key = CASE platform = "freebsd" -> "PPID"
                             [] platform = "solaris" -> "PID"
                             [] OTHER -> "PERCENT_CPU"
    /\ settings.hideKernelThreads = settings.hideUserlandThreads
    /\ platform = "darwin" => ~settings.hideKernelThreads
    /\ platform \in {"dragonfly", "darwin"} => os[1].task = Sleeping
=============================================================================
