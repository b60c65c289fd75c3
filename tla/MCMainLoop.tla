----------------------------- MODULE MCMainLoop -----------------------------
EXTENDS MainLoop

EveryEvent == AllEvents
=============================================================================
