---------------------------- MODULE MCDaemonLock ----------------------------
\* Processes for checking DaemonLock.
EXTENDS DaemonLock
CONSTANTS p1, p2, stop

TwoStarters == {p1, p2}
OneStopper == {stop}
=============================================================================
