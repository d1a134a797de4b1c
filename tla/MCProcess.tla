------------------------------ MODULE MCProcess ------------------------------
\* Process on four pids, for TLC: every process but the root may run.
EXTENDS Process
AllThreads == Pid \ {Root}
==============================================================================
