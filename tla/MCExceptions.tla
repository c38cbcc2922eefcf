---------------------------- MODULE MCExceptions ----------------------------
(* Instances of Exceptions for TLC. *)
EXTENDS Exceptions, TLC

CONSTANTS test, daemon

\* A call of the nucleus from user mode, SYS9, SYS10, a service.
Numbers == {3, 9, 10, 13}

Instructions == [p \in Uproc |-> IF p = 1 THEN 1 ELSE 0]

\* States that differ in copies only that are overwritten before they are read
\* (a processor state that has been loaded, a save area that has been left) are
\* one to TLC.
Busy(p) == p = currentProcess /\ nucleus \in {"running", "exception"}
InPager(p) == Context(p).lvl = "pager"
InGeneral(p) == Context(p).lvl = "general" \/ (InPager(p) /\ Faulted(p).lvl = "general")

Alive ==
  <<currentProcess, nucleus, supportFreeList, live, sem, waiting, tod,
    [p \in live \cap {1} |-> <<tod - p_startTOD[p], p_time[p] - used[p]>>],
    IF nucleus = "running" THEN cpu ELSE Start("user"),
    IF nucleus = "exception" /\ currentProcess # NULL THEN bios ELSE Start("user"),
    [p \in live |-> IF Busy(p) THEN <<>> ELSE <<p_s[p].lvl, p_s[p].pc, p_s[p].sup>>],
    [p \in live \cap Uproc |->
       IF InGeneral(p) THEN sup_exceptState[SupportOf(p)][GENERALEXCEPT] ELSE Start("user")],
    [p \in live \cap Uproc |->
       IF InPager(p) THEN sup_exceptState[SupportOf(p)][PGFAULTEXCEPT] ELSE Start("user")]>>
=============================================================================
