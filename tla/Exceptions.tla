----------------------------- MODULE Exceptions -----------------------------
(***************************************************************************)
(* Where the state of a process is while its exceptions are handled:       *)
(* phase3/exceptions.c (exceptionHandler, syscallHandler, passUpOrDie),    *)
(* the support level's general handler (sysSupport.c) and pager            *)
(* (vmSupport.c) seen from outside, and initProc.c, which starts the       *)
(* U-procs and gives each its support structure and its two stacks.        *)
(*                                                                         *)
(* The BIOS saves the state of the processor in its data page and enters   *)
(* the nucleus with interrupts off.  The nucleus resumes that state,       *)
(* copies it to the pcb of a process that blocks or is preempted, or       *)
(* copies it to the support structure and enters a handler, which runs as  *)
(* part of the process: it calls the nucleus, blocks, is preempted, and,   *)
(* when it touches the memory of its U-proc, page-faults in its turn.      *)
(*                                                                         *)
(* A definition x_y is x with the bug y.                                   *)
(***************************************************************************)
EXTENDS Integers, SequencesExt

CONSTANTS
  UPROCMAX, SUPPORT_STRUCT_POOL_SIZE,
  Test, Daemon,   \* the processes without a support structure
  NULL,
  CallNumber,     \* the SYSCALL numbers that U-procs use
  MaxPC,          \* bound: instructions of each U-proc
  MaxTOD          \* bound: the TOD clock

Uproc   == 1 .. UPROCMAX                             \* by ASID
Proc    == Uproc \cup {Test, Daemon}
Support == 0 .. SUPPORT_STRUCT_POOL_SIZE - 1         \* supportStructPool

ASSUME ExceptionsAssumption ==
  /\ UPROCMAX \in Nat \ {0} /\ SUPPORT_STRUCT_POOL_SIZE \in Nat
  /\ UPROCMAX <= SUPPORT_STRUCT_POOL_SIZE          \* else initUProcs panics
  /\ Test \notin Int /\ Daemon \notin Int /\ NULL \notin Int /\ Test # Daemon
  /\ NULL \notin {Test, Daemon}
  /\ CallNumber \subseteq Nat \ {0} /\ MaxPC \in [Uproc -> Nat] /\ MaxTOD \in Nat

PGFAULTEXCEPT == 0
GENERALEXCEPT == 1

GETTOD  == 10
Service == 10 .. 18                                  \* SYS9 ends the U-proc

VARIABLES
  currentProcess,
  nucleus,           \* running | exception | scheduler | wait | halted
  cpu,               \* the processor state while a process runs
  bios,              \* the state in the BIOS data page
  p_s,               \* the state in each pcb
  sup_exceptState,   \* the two states in each support structure
  supportFreeList,
  live, sem, waiting,                  \* the processes and the semaphores
  tod, p_time, p_startTOD,             \* the clock and the pcbs' CPU time
  used               \* history: the time each process had the processor

sems   == <<live, sem, waiting>>
clock  == <<tod, p_time, p_startTOD, used>>
vars   == <<currentProcess, nucleus, cpu, bios, p_s, sup_exceptState,
            supportFreeList, sems, clock>>

Master   == <<"masterSemaphore">>
SwapPool == <<"swapPoolSem">>
Clock    == <<"pseudoClock">>
Io(p)    == <<"device", p>>    \* of the device that p commands
Sem      == {Master, SwapPool, Clock} \cup {Io(p) : p \in Proc}

S == INSTANCE Semaphores WITH Process <- Proc, Semaphore <- Sem, client <- live


-----------------------------------------------------------------------------
\* Processor states: the level that runs, its program counter in instructions,
\* the cause and a0 of the exception, and the support pointer of a handler.
\* U-procs are in user mode, the other levels in kernel mode.
Level == {"user", "general", "pager", "test", "daemon"}
State == [lvl : Level, pc : Nat, cause : {"none", "int", "tlb", "trap", "sys"},
          a0 : Nat, sup : Support \cup {NULL}]

Start(lvl) == [lvl |-> lvl, pc |-> 0, cause |-> "none", a0 |-> 0, sup |-> NULL]

ProgramOf(p) == IF p = Test THEN "test" ELSE IF p = Daemon THEN "daemon" ELSE "user"

\* The instructions of the handlers, of test() and of the daemon that matter.
\* supportGenExceptionHandler, its services and supTerminate:
GetSupport == 0
Dispatch   == 1
Trapped    == 2   \* SYS4 on swapPoolSem
Terminate  == 3   \* SYS4 on masterSemaphore
FreeSup    == 4
Exit       == 5   \* SYS2
Serve      == 6   \* SYS8
CopyIn     == 7
Wait       == 8   \* SYS5
CopyOut    == 9
Resume     == 10
\* pagerHandler:
Acquire    == 0   \* SYS3 on swapPoolSem
WriteOut   == 1   \* SYS5, if a frame has to be freed
ReadIn     == 2   \* SYS5
Release    == 3   \* SYS4 on swapPoolSem
Retry      == 4
\* test() creates U-procs 1 to UPROCMAX, waits as often, and ends.
Created    == UPROCMAX
Awaited    == 2 * UPROCMAX

SupportOf(p) == IF p \in Uproc THEN SUPPORT_STRUCT_POOL_SIZE - p ELSE NULL

\* main() calls initSupportStructs, initADL and initUProcs.  The pool is pushed
\* onto the free list in order and popped once for every ASID.  test and the
\* daemon are ready.
Init ==
  /\ currentProcess = NULL /\ nucleus = "scheduler"
  /\ cpu = Start("test") /\ bios = Start("test")
  /\ p_s = [p \in Proc |-> Start(ProgramOf(p))]
  /\ sup_exceptState = [s \in Support |-> [x \in {PGFAULTEXCEPT, GENERALEXCEPT} |-> Start("user")]]
  /\ supportFreeList = [i \in 1 .. SUPPORT_STRUCT_POOL_SIZE - UPROCMAX |->
                         SUPPORT_STRUCT_POOL_SIZE - UPROCMAX - i]
  /\ live = {Test, Daemon}
  /\ sem = [s \in Sem |-> IF s = SwapPool THEN 1 ELSE 0]
  /\ waiting = [s \in Sem |-> <<>>]
  /\ tod = 0 /\ p_time = [p \in Proc |-> 0] /\ p_startTOD = [p \in Proc |-> 0]
  /\ used = [p \in Proc |-> 0]

-----------------------------------------------------------------------------
\* The processor.  An exception saves its state in the BIOS data page and enters
\* the nucleus; LDST loads one.
Runs(lvl, pc) == nucleus = "running" /\ cpu.lvl = lvl /\ cpu.pc = pc

Raise(cause, a0) ==
  /\ bios' = [cpu EXCEPT !.cause = cause, !.a0 = a0]
  /\ nucleus' = "exception"
  /\ UNCHANGED <<currentProcess, cpu, p_s, sup_exceptState, supportFreeList, sems, clock>>

LDST(s) ==
  /\ cpu' = [s EXCEPT !.cause = "none", !.a0 = 0]
  /\ nucleus' = "running"

Jump(pc) ==
  /\ cpu' = [cpu EXCEPT !.pc = pc]
  /\ UNCHANGED <<currentProcess, nucleus, bios, p_s, sems, clock>>

\* External: the program of a U-proc.  Its SYSCALLs are those of CallNumber; the
\* last instruction ends it.
userStep ==
  /\ nucleus = "running" /\ cpu.lvl = "user" /\ cpu.pc < MaxPC[currentProcess]
  /\ Jump(cpu.pc + 1)
  /\ UNCHANGED <<sup_exceptState, supportFreeList>>

userException ==
  /\ nucleus = "running" /\ cpu.lvl = "user"
  /\ \/ Raise("tlb", 0)
     \/ Raise("trap", 0)
     \/ \E n \in CallNumber : (n \in Service => cpu.pc < MaxPC[currentProcess]) /\ Raise("sys", n)

\* The SYSCALLs of the nucleus that each level makes, and where.
SyscallAt(lvl, pc) ==
  CASE lvl = "general" /\ pc \in {GetSupport, Serve}   -> {8}
    [] lvl = "general" /\ pc \in {Trapped, Terminate}  -> {4}
    [] lvl = "general" /\ pc = Exit                     -> {2}
    [] lvl = "general" /\ pc = Wait                     -> {5}
    [] lvl = "pager" /\ pc = Acquire                    -> {3}
    [] lvl = "pager" /\ pc \in {WriteOut, ReadIn}       -> {5}
    [] lvl = "pager" /\ pc = Release                    -> {4}
    [] lvl = "test" /\ pc < Created                     -> {1}
    [] lvl = "test" /\ pc \in Created .. Awaited - 1    -> {3}
    [] lvl = "test" /\ pc = Awaited                     -> {2}
    [] lvl = "daemon" /\ pc = 0                         -> {7}
    [] OTHER                                            -> {}

SemaphoreAt(lvl, pc) ==
  IF lvl = "pager" \/ (lvl = "general" /\ pc = Trapped) THEN SwapPool ELSE Master

handlerCall ==
  /\ nucleus = "running"
  /\ \E n \in SyscallAt(cpu.lvl, cpu.pc) : Raise("sys", n)

\* supportGenExceptionHandler and supportSyscallHandler: a trap and a SYSCALL that
\* is no service end in supTerminate.
dispatch ==
  /\ Runs("general", Dispatch)
  /\ LET s == sup_exceptState[cpu.sup][GENERALEXCEPT] IN
     \/ /\ s.cause = "trap"
        /\ Jump(Trapped) /\ UNCHANGED sup_exceptState
     \/ /\ s.cause = "sys"
        /\ sup_exceptState' = [sup_exceptState EXCEPT ![cpu.sup][GENERALEXCEPT].pc = @ + 1]
        /\ Jump(IF s.a0 = GETTOD THEN Resume ELSE IF s.a0 \in Service THEN Serve ELSE Terminate)
  /\ UNCHANGED supportFreeList

\* A service may read the U-proc's memory before its SYS5 and write it after:
\* either may fault.
copy ==
  /\ \E pc \in {CopyIn, CopyOut} : Runs("general", pc)
  /\ \/ Jump(cpu.pc + 1) /\ UNCHANGED <<sup_exceptState, supportFreeList>>
     \/ Raise("tlb", 0)

freeSupportStruct_returns ==
  /\ Runs("general", FreeSup)
  /\ supportFreeList' = <<SupportOf(currentProcess)>> \o supportFreeList
  /\ Jump(Resume) /\ UNCHANGED sup_exceptState

freeSupportStruct ==
  /\ Runs("general", FreeSup)
  /\ supportFreeList' = <<SupportOf(currentProcess)>> \o supportFreeList
  /\ Jump(Exit) /\ UNCHANGED sup_exceptState

\* LDST of the state a handler was entered with: the end of a service, and of the
\* pager.
resume ==
  /\ \/ /\ Runs("general", Resume)
        /\ LDST(sup_exceptState[cpu.sup][GENERALEXCEPT])
     \/ /\ Runs("pager", Retry)
        /\ LDST(sup_exceptState[SupportOf(currentProcess)][PGFAULTEXCEPT])
  /\ UNCHANGED <<currentProcess, bios, p_s, sup_exceptState, supportFreeList, sems, clock>>

\* The pager finds a free frame; the daemon has looked at its list.
skip ==
  /\ \/ Runs("pager", WriteOut) /\ Jump(ReadIn)
     \/ Runs("daemon", 1) /\ Jump(0)
  /\ UNCHANGED <<sup_exceptState, supportFreeList>>

-----------------------------------------------------------------------------
\* exceptionHandler.  test and the daemon, which have no support structure, raise
\* nothing but SYSCALLs of the nucleus.
Handling(cause) == nucleus = "exception" /\ bios.cause = cause

LDCXT(lvl) == cpu' = Start(lvl) /\ nucleus' = "running"

passUpOrDie_oneSlot(x, s) ==
  /\ sup_exceptState' = [sup_exceptState EXCEPT ![SupportOf(currentProcess)][GENERALEXCEPT] = s]
  /\ LDCXT(IF x = PGFAULTEXCEPT THEN "pager" ELSE "general")
  /\ UNCHANGED <<currentProcess, p_s, supportFreeList, sems, clock>>

passUpOrDie(x, s) ==
  /\ sup_exceptState' = [sup_exceptState EXCEPT ![SupportOf(currentProcess)][x] = s]
  /\ LDCXT(IF x = PGFAULTEXCEPT THEN "pager" ELSE "general")
  /\ UNCHANGED <<currentProcess, p_s, supportFreeList, sems, clock>>

TLBExceptionHandler ==
  /\ Handling("tlb")
  /\ passUpOrDie(PGFAULTEXCEPT, bios) /\ UNCHANGED bios

programTrapHandler ==
  /\ Handling("trap")
  /\ passUpOrDie(GENERALEXCEPT, bios) /\ UNCHANGED bios

supportCall ==
  /\ Handling("sys") /\ bios.a0 >= 9
  /\ passUpOrDie(GENERALEXCEPT, bios) /\ UNCHANGED bios

\* syscallHandler.  The saved state is moved past the SYSCALL before anything else.
syscall(a0) == Handling("sys") /\ bios.a0 = a0 /\ bios.lvl # "user"
saved == [bios EXCEPT !.pc = @ + 1]

userModeCall ==
  /\ Handling("sys") /\ bios.a0 < 9 /\ bios.lvl = "user"
  /\ bios' = saved
  /\ passUpOrDie(GENERALEXCEPT, saved)

updateCPUTime_backwards ==
  /\ p_time' = [p_time EXCEPT ![currentProcess] = @ + (p_startTOD[currentProcess] - tod)]
  /\ p_startTOD' = [p_startTOD EXCEPT ![currentProcess] = tod]
  /\ UNCHANGED <<tod, used>>

updateCPUTime_lastSlice ==
  /\ p_time' = [p_time EXCEPT ![currentProcess] = tod - p_startTOD[currentProcess]]
  /\ p_startTOD' = [p_startTOD EXCEPT ![currentProcess] = tod]
  /\ UNCHANGED <<tod, used>>

updateCPUTime ==
  /\ p_time' = [p_time EXCEPT ![currentProcess] = @ + (tod - p_startTOD[currentProcess])]
  /\ p_startTOD' = [p_startTOD EXCEPT ![currentProcess] = tod]
  /\ UNCHANGED <<tod, used>>

sysGetCPUTime(p) == p_time[p] + (tod - p_startTOD[p])

\* p_startTOD is not set: allocPcb leaves it as it is.
sysCreateProcess ==
  /\ syscall(1)
  /\ S!Join(saved.pc)
  /\ p_s' = [p_s EXCEPT ![saved.pc] = Start("user")]
  /\ p_time' = [p_time EXCEPT ![saved.pc] = 0]
  /\ used' = [used EXCEPT ![saved.pc] = 0]
  /\ bios' = saved /\ LDST(saved)
  /\ UNCHANGED <<currentProcess, sup_exceptState, supportFreeList, tod, p_startTOD>>

\* The end of test is the end of all its progeny, and the machine halts.
sysTerminate ==
  /\ syscall(2)
  /\ \/ currentProcess = Test /\ nucleus' = "halted" /\ UNCHANGED sems
     \/ currentProcess # Test /\ nucleus' = "scheduler" /\ S!Leave(currentProcess)
  /\ bios' = saved
  /\ UNCHANGED <<currentProcess, cpu, p_s, sup_exceptState, supportFreeList, clock>>

\* The P of SYS3, SYS5 and SYS7: a process that waits leaves its state in its pcb.
\* Here devices and the clock answer those that wait: SYS5 and SYS7 block.
passeren(s) ==
  /\ updateCPUTime
  /\ S!P(s, currentProcess)
  /\ bios' = saved
  /\ UNCHANGED <<currentProcess, sup_exceptState, supportFreeList>>

block(s) ==
  /\ passeren(s)
  /\ sem[s] <= 0
  /\ p_s' = [p_s EXCEPT ![currentProcess] = saved]
  /\ nucleus' = "scheduler" /\ UNCHANGED cpu

sysPasseren ==
  LET s == SemaphoreAt(bios.lvl, bios.pc) IN
  /\ syscall(3)
  /\ \/ passeren(s) /\ sem[s] > 0 /\ LDST(saved) /\ UNCHANGED p_s
     \/ block(s)

sysWaitIO    == syscall(5) /\ block(Io(currentProcess))
sysWaitClock == syscall(7) /\ block(Clock)

sysVerhogen ==
  /\ syscall(4)
  /\ S!V(SemaphoreAt(bios.lvl, bios.pc))
  /\ bios' = saved /\ LDST(saved)
  /\ UNCHANGED <<currentProcess, p_s, sup_exceptState, supportFreeList, clock>>

sysGetSupportPTR ==
  /\ syscall(8)
  /\ LET s == [saved EXCEPT !.sup = SupportOf(currentProcess)] IN bios' = s /\ LDST(s)
  /\ UNCHANGED <<currentProcess, p_s, sup_exceptState, supportFreeList, sems, clock>>

-----------------------------------------------------------------------------
\* Interrupts reach a process at any level, and the processor that waits.
interrupt ==
  /\ nucleus \in {"running", "wait"}
  /\ Raise("int", 0)

handlePLTInterrupt ==
  /\ Handling("int") /\ currentProcess # NULL
  /\ updateCPUTime
  /\ p_s' = [p_s EXCEPT ![currentProcess] = bios]
  /\ nucleus' = "scheduler"
  /\ UNCHANGED <<currentProcess, cpu, bios, sup_exceptState, supportFreeList, sems>>

backToCurrent ==
  /\ \/ currentProcess # NULL /\ LDST(bios)
     \/ currentProcess = NULL /\ nucleus' = "scheduler" /\ UNCHANGED cpu
  /\ UNCHANGED <<currentProcess, bios, p_s, sup_exceptState, supportFreeList, clock>>

handleDeviceInterrupt(p) ==
  /\ Handling("int") /\ waiting[Io(p)] # <<>>
  /\ S!V(Io(p))
  /\ backToCurrent

handleIntervalTimerInterrupt ==
  /\ Handling("int")
  /\ sem' = [sem EXCEPT ![Clock] = 0]
  /\ waiting' = [waiting EXCEPT ![Clock] = <<>>]
  /\ UNCHANGED live
  /\ backToCurrent

\* The ready queue is the set of the processes that are not blocked; its order is
\* Nucleus'.
scheduler ==
  /\ nucleus = "scheduler"
  /\ \/ \E p \in live :
          S!Free(p) /\ currentProcess' = p /\ LDST(p_s[p])
     \/ /\ \A p \in live : ~S!Free(p)
        /\ currentProcess' = NULL /\ nucleus' = "wait" /\ UNCHANGED cpu
  /\ UNCHANGED <<bios, p_s, sup_exceptState, supportFreeList, sems, clock>>

\* External: time passes; used is the time a process runs.
tick ==
  /\ nucleus \in {"running", "wait"} /\ tod < MaxTOD
  /\ tod' = tod + 1
  /\ used' = IF nucleus = "running" THEN [used EXCEPT ![currentProcess] = @ + 1] ELSE used
  /\ UNCHANGED <<currentProcess, nucleus, cpu, bios, p_s, sup_exceptState, supportFreeList,
                 sems, p_time, p_startTOD>>

processor == userStep \/ userException \/ handlerCall \/ dispatch \/ copy
             \/ freeSupportStruct \/ resume \/ skip \/ interrupt \/ tick

exceptionHandler ==
  \/ TLBExceptionHandler \/ programTrapHandler \/ supportCall \/ userModeCall
  \/ sysCreateProcess \/ sysTerminate \/ sysPasseren \/ sysVerhogen
  \/ sysWaitIO \/ sysWaitClock \/ sysGetSupportPTR
  \/ handlePLTInterrupt \/ handleIntervalTimerInterrupt
  \/ \E p \in Proc : handleDeviceInterrupt(p)

Next == processor \/ exceptionHandler \/ scheduler

Spec == Init /\ [][Next]_vars

-----------------------------------------------------------------------------
\* Types of the processor states, the save areas and the clock.
TypeOK ==
  /\ currentProcess \in Proc \cup {NULL}
  /\ nucleus \in {"running", "exception", "scheduler", "wait", "halted"}
  /\ cpu \in State /\ bios \in State
  /\ p_s \in [Proc -> State]
  /\ sup_exceptState \in [Support -> [{PGFAULTEXCEPT, GENERALEXCEPT} -> State]]
  /\ supportFreeList \in Seq(Support)
  /\ live \subseteq Proc /\ sem \in [Sem -> Int] /\ waiting \in [Sem -> Seq(Proc)]
  /\ tod \in Nat /\ p_time \in [Proc -> Nat] /\ p_startTOD \in [Proc -> Nat]
  /\ used \in [Proc -> Nat]

\* The state that p goes on from.
Context(p) ==
  IF p # currentProcess THEN p_s[p]
  ELSE CASE nucleus = "running" -> cpu
         [] nucleus \in {"exception", "halted"} -> bios
         [] OTHER -> p_s[p]

\* Where the exception in state s, suspended under the general handler, is to
\* resume: before the dispatch its SYSCALL is still to be moved past.
Never == -1
IsService(s) == s.cause = "sys" /\ s.a0 \in Service

Called(p) ==
  LET s == sup_exceptState[SupportOf(p)][GENERALEXCEPT]
      atDispatch == Context(p).lvl = "general" /\ Context(p).pc \in {GetSupport, Dispatch}
  IN  [lvl |-> s.lvl, pc |-> IF ~IsService(s) THEN Never ELSE IF atDispatch THEN s.pc + 1 ELSE s.pc]

Faulted(p) ==
  LET s == sup_exceptState[SupportOf(p)][PGFAULTEXCEPT] IN [lvl |-> s.lvl, pc |-> s.pc]

Frames(p) ==
  LET c == Context(p)
      top == [lvl |-> c.lvl, pc |-> c.pc]
  IN  CASE p \notin live -> <<>>
        [] p \in live /\ c.lvl = "general" -> <<Called(p), top>>
        [] p \in live /\ c.lvl = "pager" ->
             IF Faulted(p).lvl = "general" THEN <<Called(p), Faulted(p), top>>
             ELSE <<Faulted(p), top>>
        [] OTHER -> <<top>>

\* Exceptions implements Activations: whatever is saved, copied, preempted and
\* nested, a process resumes where its exception promised, once.
A == INSTANCE Activations WITH
       Process <- Proc, Program <- [p \in Proc |-> ProgramOf(p)], User <- "user", Handler <- {"general", "pager"},
       Address <- 0 .. 2 * UPROCMAX + 12, Never <- Never, frames <- [p \in Proc |-> Frames(p)]

Implements == A!Spec

\* The stacks, in pages below RAMTOP: of test, of the daemon, and of the handlers
\* of each ASID.  A U-proc's own is in its address space.
Stack_twoApart(p, lvl) ==
  CASE lvl = "test" -> 0 [] lvl = "daemon" -> 2
    [] lvl = "pager" -> 2 * p - 1 [] lvl = "general" -> 2 * p + 1

Stack(p, lvl) ==
  CASE lvl = "test" -> 0 [] lvl = "daemon" -> 2
    [] lvl = "pager" -> 2 * p - 1 [] lvl = "general" -> 2 * p

Stacked(p) == {f.lvl : f \in Range(Frames(p))} \ {"user"}

\* No two activations under way, of one process or of two, grow on the same page,
\* with one exception: the daemon has the page of ASID 1's general handler.
StacksApart ==
  \A p, q \in Proc : \A l \in Stacked(p), m \in Stacked(q) :
    Stack(p, l) = Stack(q, m) => (p = q /\ l = m) \/ {p, q} = {Daemon, 1}

\* A process is never charged less CPU time than it used: p_startTOD is not set
\* when a process is dispatched, which charges it for its waits as well.
NeverUndercharged ==
  \A p \in live :
    used[p] <= IF p = currentProcess THEN sysGetCPUTime(p) ELSE p_time[p]

\* supTerminate frees the support structure before its SYS2, with interrupts on:
\* no exception is saved in one that is free.
FreeUntouched ==
  [][\A s \in Range(supportFreeList) : sup_exceptState'[s] = sup_exceptState[s]]_vars
=============================================================================
