----------------------------- MODULE MCScreens -----------------------------
(* Small instances of SetupScreen and InfoScreen, the screens beside the     *)
(* main one, and of PlatformScan, the process lists of the other builds.     *)
(* They share nothing; one of them is looked at in each behavior.  In        *)
(* InfoScreen there are two letters; lsof finds one file, two, the second    *)
(* alone, or fails, with a line that says so.                                *)
EXTENDS MCSetupScreen, InfoScreen, MCPlatformScan

VARIABLE part

\* SetupScreen has its Init, Next and vars without a prefix.
mcVars == <<part, vars, infoVars, platformVars>>

MCOutcomes == {<< <<1>> >>, << <<1, 2>>, <<1>> >>, << <<1, 2>> >>, << <<2>> >>}

MCInit ==
  /\ part \in {"setup", "info", "list"}
  /\ Init
  /\ part # "setup" => file = NoFile
  /\ InfoInit
  /\ part # "info" => kind = "trace"
  /\ MCPlatformInit
  /\ part # "list" => /\ platform = "unsupported" /\ os[2] = NULL
                      /\ settings = [hideKernelThreads |-> FALSE, hideUserlandThreads |-> FALSE,
                                     sort |-> [tree |-> FALSE, key |-> "PERCENT_CPU", direction |-> 1]]

\* Bound: in a trace only the letter is typed that strace writes.
MCNext ==
  /\ UNCHANGED part
  /\ \/ part = "setup" /\ Next /\ UNCHANGED <<infoVars, platformVars>>
     \/ /\ part = "info" /\ InfoNext /\ UNCHANGED <<vars, platformVars>>
        /\ kind' = "trace" => \A mode \in DOMAIN inc'.buffer : ToSet(inc'.buffer[mode]) \subseteq Output
     \/ part = "list" /\ PlatformNext /\ UNCHANGED <<vars, infoVars>>

MCSpec ==
  /\ MCInit /\ [][MCNext]_mcVars
  /\ WF_mcVars(part = "info" /\ UpdateTrace /\ UNCHANGED <<part, vars, platformVars>>)
=============================================================================
