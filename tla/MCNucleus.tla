------------------------------ MODULE MCNucleus ------------------------------
(* Instances of Nucleus for TLC: the processes are model values. *)
EXTENDS Nucleus, TLC

CONSTANTS root, daemon, tmpl, u1, u2, u3, mutex, clock, dev1, dev2

AllCalls == Calls
AllButCreateAndKill == Calls \ {"CREATEPROCESS", "TERMINATEPROCESS"}

\* The services test(), delayDaemon() and the U-procs really request.
TestProgram   == {"CREATEPROCESS", "PASSEREN", "TERMINATEPROCESS"}
DaemonProgram == {"WAITCLOCK", "PASSEREN", "VERHOGEN"}
UprocProgram  == {"PASSEREN", "VERHOGEN", "WAITIO", "TERMINATEPROCESS"}

AnyPcb   == {root, daemon, tmpl, u1, u2, u3}
Templates == {tmpl}
OneMutex == {mutex}
OneDev   == {dev1}
TwoDevs  == {dev1, dev2}
None     == {}
Low      == -2

Uprocs == Permutations({u1, u2, u3})
=============================================================================
