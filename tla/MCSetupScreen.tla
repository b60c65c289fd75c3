--------------------------- MODULE MCSetupScreen ---------------------------
(* The meter of all CPUs and that of the first one, and a meter of another *)
(* version of htop; one column of the list beside the command.             *)
EXTENDS SetupScreen

Meters == {"CPU"}
Numbers == [t \in Meters |-> {0, 1}]
FirstMode == [t \in Meters |-> 2]

Cpu == [type |-> "CPU", param |-> 0, mode |-> 2]
Cpu1 == [type |-> "CPU", param |-> 1, mode |-> 1]
Systemd == [type |-> "Systemd", param |-> 0, mode |-> 1]

DefaultHeader == [left |-> <<Cpu>>, right |-> <<>>]
PidComm == <<"PID", "COMM">>

File(left, right, fs) == [columns |-> [left |-> left, right |-> right], fields |-> fs]
FirstFiles == {NoFile, File(<<Cpu1>>, <<Systemd, Cpu1>>, <<"COMM">>)}
OneCpu == {File(<<Cpu1>>, <<>>, PidComm)}
=============================================================================
