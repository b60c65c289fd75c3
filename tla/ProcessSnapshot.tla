-------------------------- MODULE ProcessSnapshot --------------------------
(***************************************************************************)
(* What a refresh of the process list promises, however the reading of     *)
(* /proc interleaves with the changes of the system: a task that exists    *)
(* from its beginning to its end is listed, and no task is listed that did *)
(* not exist at some moment in between.  No single instant of the system   *)
(* need look like the list: that is all a reader of /proc can get.         *)
(*                                                                         *)
(* A task is a pair <<pid, thread group>>.  When the kernel hands out one  *)
(* pid twice during a refresh, in two thread groups, less is promised: a   *)
(* listed pid existed, its group may be another, and even a task that was  *)
(* there all the time may be missing until the next refresh.               *)
(***************************************************************************)
EXTENDS Naturals

CONSTANTS Pid,      \* the process and thread ids
          NoList    \* the value of "listed" while a refresh is under way

VARIABLES tasks,     \* the tasks of the operating system
          listed,    \* the tasks in the list once a refresh has ended
          steady,    \* the tasks that existed ever since the refresh began
          witnessed  \* the tasks that existed at some moment of the refresh

Task == Pid \X Pid

\* No pid is listed twice.
OnePerPid(S) == \A s, t \in S : s[1] = t[1] => s = t

Pids(S) == {t[1] : t \in S}

Init == /\ tasks \in SUBSET Task
        /\ OnePerPid(tasks)
        /\ listed = {}
        /\ steady = {}
        /\ witnessed = {}

\* Tasks come and go at any time, during a refresh or between two.
Environment ==
    /\ tasks' \in SUBSET Task
    /\ steady' = steady \cap tasks'
    /\ witnessed' = IF listed = NoList THEN witnessed \cup tasks' ELSE witnessed
    /\ UNCHANGED listed

Begin == /\ listed # NoList
         /\ listed' = NoList
         /\ steady' = tasks
         /\ witnessed' = tasks
         /\ UNCHANGED tasks

End == /\ listed = NoList
       /\ listed' # NoList
       /\ listed' \in SUBSET Task
       /\ OnePerPid(listed')
       /\ Pids(listed') \subseteq Pids(witnessed)
       /\ OnePerPid(witnessed) => /\ steady \subseteq listed'
                                  /\ listed' \subseteq witnessed
       /\ steady' = {}
       /\ witnessed' = {}
       /\ UNCHANGED tasks

Next == Environment \/ Begin \/ End

vars == <<tasks, listed, steady, witnessed>>

\* A refresh that has begun ends.
Ends == []<>(listed # NoList)

Safety == Init /\ [][Next]_vars

Spec == Safety /\ Ends
=============================================================================
