------------------------------- MODULE Nucleus -------------------------------
(***************************************************************************)
(* The Pandos nucleus: scheduler (phase3/scheduler.c), SYS1-SYS7           *)
(* (phase3/exceptions.c) and the interrupt handlers (phase3/interrupts.c)  *)
(* over the boot state of phase3/initial.c.                                *)
(*                                                                         *)
(* The kernel runs with interrupts disabled, so a handler is one action;   *)
(* the recursive sysTerminate is the exception: it is run by a kill stack, *)
(* one action per call or return, while mode = "kill" and nothing else     *)
(* moves.  Process queues are sequences, head first (the circular lists    *)
(* of pcb.c are the business of module Pcb); the ASL is the function from  *)
(* semaphores to their queues (module Asl refines it).                     *)
(*                                                                         *)
(* The processes are the clients.  test() and delayDaemon() have known     *)
(* pcbs; every other pcb is a U-proc.  Which services each kind of process *)
(* requests is a constant, so that the nucleus is studied both under       *)
(* arbitrary kernel-mode clients and under the ones this system has.       *)
(*                                                                         *)
(* A definition x_y is x with the bug y: the mutants of the README, never  *)
(* used by the specification.                                              *)
(***************************************************************************)
EXTENDS Integers, SequencesExt

CONSTANTS
  Pcb,           \* the entries of pcbTable
  Root, Daemon,  \* the pcbs of test() and of delayDaemon()
  Template,      \* pcbs taken by initUProcs and never scheduled
  Sem,           \* semaphores that are plain kernel integers
  Device,        \* device semaphores 0 .. NUM_DEVICES-1
  Clock,         \* the pseudo-clock semaphore, deviceSemaphores[NUM_DEVICES]
  Masked,        \* devices whose drivers issue commands with IEc off
  NULL,
  TestCalls, DaemonCalls, UprocCalls,  \* the SYSCALLs each kind requests
  MaxSemVal,     \* bound: no V on a semaphore, no command to a device, at
                 \* this value or above
  MinDevVal,     \* bound: no command to a device whose semaphore is as low
  MaxSoft        \* bound: no new device or clock wait would exceed it

Calls == {"CREATEPROCESS", "TERMINATEPROCESS", "PASSEREN", "VERHOGEN",
          "WAITIO", "WAITCLOCK"}

AllSem  == Sem \cup Device \cup {Clock}
SoftSem == Device \cup {Clock}

ASSUME PcbAssumption ==
  /\ IsFiniteSet(Pcb) /\ Root \in Pcb /\ Daemon \in Pcb /\ Root # Daemon
  /\ Template \subseteq Pcb \ {Root, Daemon}
  /\ NULL \notin Pcb

ASSUME SemAssumption ==
  /\ Sem \cap Device = {} /\ Clock \notin Sem \cup Device
  /\ NULL \notin AllSem /\ Masked \subseteq Device

\* test() and the U-procs are unrestricted; the daemon's endless loop neither
\* creates nor terminates a process (delayDaemon.c:90-134).
ASSUME CallsAssumption ==
  /\ TestCalls \subseteq Calls /\ UprocCalls \subseteq Calls
  /\ DaemonCalls \subseteq Calls \ {"CREATEPROCESS", "TERMINATEPROCESS"}

ASSUME BoundAssumption ==
  MaxSemVal \in Nat /\ MaxSoft \in Nat /\ MinDevVal \in Int

VARIABLES
  freePcbs,        \* the pcbs on the pcbFree list
  p_prnt,          \* the process tree
  p_semAdd,        \* the semaphore a pcb is blocked on (stale once freed)
  readyQueue,
  currentProcess,
  semVal,          \* value of every semaphore
  blocked,         \* process queue of every semaphore
  processCount,
  softBlockCount,
  mode,            \* what the processor is doing
  killStack,       \* activations of sysTerminate, innermost last
  ioReq,           \* device commanded by a pcb that has yet to do its SYS5
  busy             \* external: devices that still owe an interrupt

tree   == <<freePcbs, p_prnt, processCount>>
queues == <<readyQueue, currentProcess, mode>>
asl    == <<blocked, p_semAdd>>
io     == <<ioReq, busy>>
vars   == <<freePcbs, p_prnt, p_semAdd, readyQueue, currentProcess, semVal,
            blocked, processCount, softBlockCount, mode, killStack, ioReq, busy>>

\* "wild": the idle loop was resumed and dispatched currentProcess = NULL.
Modes == {"run", "wait", "kill", "halt", "panic", "wild"}

Live == Pcb \ (freePcbs \cup Template)

\* The pcbs allocPcb has handed out by the end of main().
BootPcbs_templatesFreed == {Root, Daemon}
BootPcbs == {Root, Daemon} \cup Template

\* After main(): test() has been dispatched, the daemon is ready behind it.
Init ==
  /\ freePcbs = Pcb \ BootPcbs
  /\ p_prnt = [p \in Pcb |-> NULL]
  /\ p_semAdd = [p \in Pcb |-> NULL]
  /\ readyQueue = <<Daemon>>
  /\ currentProcess = Root
  /\ semVal = [s \in AllSem |-> 0]
  /\ blocked = [s \in AllSem |-> <<>>]
  /\ processCount = 1          \* initADL queues the daemon without counting it
  /\ softBlockCount = 0
  /\ mode = "run"
  /\ killStack = <<>>
  /\ ioReq = [p \in Pcb |-> NULL]
  /\ busy = [d \in Device |-> FALSE]

(***************************************************************************)
(* scheduler(), called with the ready queue and counters the caller left.  *)
(***************************************************************************)
scheduler_softOffByOne(rq, procs, soft) ==
  \/ /\ rq # <<>>
     /\ currentProcess' = Head(rq) /\ readyQueue' = Tail(rq) /\ mode' = "run"
  \/ /\ rq = <<>>
     /\ currentProcess' = NULL /\ readyQueue' = <<>>
     /\ \/ procs = 0 /\ mode' = "halt"
        \/ procs # 0 /\ soft > 1 /\ mode' = "wait"
        \/ procs # 0 /\ soft <= 1 /\ mode' = "panic"

scheduler(rq, procs, soft) ==
  \/ /\ rq # <<>>
     /\ currentProcess' = Head(rq) /\ readyQueue' = Tail(rq) /\ mode' = "run"
  \/ /\ rq = <<>>
     /\ currentProcess' = NULL /\ readyQueue' = <<>>
     /\ \/ procs = 0 /\ mode' = "halt"
        \/ procs # 0 /\ soft > 0 /\ mode' = "wait"
        \/ procs # 0 /\ soft <= 0 /\ mode' = "panic"

\* How an interrupt handler ends: back to the interrupted process, or to the
\* scheduler when the processor was idle.
resume_stayIdle(rq, soft) ==
  readyQueue' = rq /\ UNCHANGED <<currentProcess, mode>>

resume(rq, soft) ==
  \/ /\ currentProcess # NULL
     /\ readyQueue' = rq /\ UNCHANGED <<currentProcess, mode>>
  \/ /\ currentProcess = NULL
     /\ scheduler(rq, processCount, soft)

-----------------------------------------------------------------------------
(***************************************************************************)
(* SYSCALLs of the running process.  A driver that has commanded a device  *)
(* goes straight to its SYS5.                                              *)
(***************************************************************************)
MayCall(p, call) ==
  call \in (CASE p = Root -> TestCalls
              [] p = Daemon -> DaemonCalls
              [] OTHER -> UprocCalls)

Requests(call) ==
  /\ mode = "run"
  /\ MayCall(currentProcess, call)
  /\ ioReq[currentProcess] = NULL

\* SYS1.  With no free pcb it returns -1 and nothing changes.
sysCreateProcess ==
  /\ Requests("CREATEPROCESS")
  /\ \E p \in freePcbs :
       /\ freePcbs' = freePcbs \ {p}
       /\ p_prnt' = [p_prnt EXCEPT ![p] = currentProcess]
       /\ p_semAdd' = [p_semAdd EXCEPT ![p] = NULL]
       /\ readyQueue' = Append(readyQueue, p)
  /\ processCount' = processCount + 1
  /\ UNCHANGED <<currentProcess, semVal, blocked, softBlockCount, mode,
                 killStack, ioReq, busy>>

\* The body of sysPasseren; soft is softBlockCount as the caller left it.
passeren(s, soft) ==
  /\ semVal' = [semVal EXCEPT ![s] = @ - 1]
  /\ softBlockCount' = soft
  /\ \/ /\ semVal[s] <= 0
        /\ p_semAdd' = [p_semAdd EXCEPT ![currentProcess] = s]
        /\ blocked' = [blocked EXCEPT ![s] = Append(@, currentProcess)]
        /\ scheduler(readyQueue, processCount, soft)
     \/ /\ semVal[s] > 0
        /\ UNCHANGED <<asl, queues>>

\* SYS3
sysPasseren(s) ==
  /\ Requests("PASSEREN")
  /\ passeren(s, softBlockCount)
  /\ UNCHANGED <<tree, killStack, io>>

\* The first waiter of s leaves its queue.
removeBlocked_keepSemAdd(s) ==
  blocked' = [blocked EXCEPT ![s] = Tail(@)] /\ UNCHANGED p_semAdd

removeBlocked(s) ==
  /\ blocked' = [blocked EXCEPT ![s] = Tail(@)]
  /\ p_semAdd' = [p_semAdd EXCEPT ![Head(blocked[s])] = NULL]

sysVerhogen_lifo(s) ==
  /\ Requests("VERHOGEN")
  /\ semVal[s] < MaxSemVal
  /\ semVal' = [semVal EXCEPT ![s] = @ + 1]
  /\ \/ /\ semVal[s] < 0 /\ blocked[s] # <<>>
        /\ blocked' = [blocked EXCEPT ![s] = Front(@)]
        /\ p_semAdd' = [p_semAdd EXCEPT ![Last(blocked[s])] = NULL]
        /\ readyQueue' = Append(readyQueue, Last(blocked[s]))
     \/ /\ semVal[s] >= 0 \/ blocked[s] = <<>>
        /\ UNCHANGED <<asl, readyQueue>>
  /\ UNCHANGED <<tree, currentProcess, mode, softBlockCount, killStack, io>>

\* SYS4
sysVerhogen(s) ==
  /\ Requests("VERHOGEN")
  /\ semVal[s] < MaxSemVal
  /\ semVal' = [semVal EXCEPT ![s] = @ + 1]
  /\ \/ /\ semVal[s] < 0 /\ blocked[s] # <<>>
        /\ removeBlocked(s)
        /\ readyQueue' = Append(readyQueue, Head(blocked[s]))
     \/ /\ semVal[s] >= 0 \/ blocked[s] = <<>>
        /\ UNCHANGED <<asl, readyQueue>>
  /\ UNCHANGED <<tree, currentProcess, mode, softBlockCount, killStack, io>>

\* MaxSoft leaves room for the SYS5 of every command already issued.
SoftRoom ==
  softBlockCount + Cardinality({p \in Pcb : ioReq[p] # NULL}) < MaxSoft

\* A driver of the support level writes a device's COMMAND register; a busy
\* device ignores it and still owes one interrupt.
issueCommand(d) ==
  /\ Requests("WAITIO")
  /\ SoftRoom /\ semVal[d] < MaxSemVal /\ semVal[d] > MinDevVal
  /\ ioReq' = [ioReq EXCEPT ![currentProcess] = d]
  /\ busy' = [busy EXCEPT ![d] = TRUE]
  /\ UNCHANGED <<tree, asl, queues, semVal, softBlockCount, killStack>>

\* Mutant: the semaphore of another device (receiver for transmitter).
sysWaitIO_otherDevice ==
  /\ mode = "run"
  /\ ioReq[currentProcess] # NULL
  /\ ioReq' = [ioReq EXCEPT ![currentProcess] = NULL]
  /\ \E d \in Device : passeren(d, softBlockCount + 1)
  /\ UNCHANGED <<tree, killStack, busy>>

\* SYS5: the soft-block count goes up whether or not the P blocks.
sysWaitIO ==
  /\ mode = "run"
  /\ ioReq[currentProcess] # NULL
  /\ ioReq' = [ioReq EXCEPT ![currentProcess] = NULL]
  /\ passeren(ioReq[currentProcess], softBlockCount + 1)
  /\ UNCHANGED <<tree, killStack, busy>>

sysWaitClock_uncounted ==
  /\ Requests("WAITCLOCK")
  /\ SoftRoom
  /\ passeren(Clock, softBlockCount)
  /\ UNCHANGED <<tree, killStack, io>>

\* SYS7
sysWaitClock ==
  /\ Requests("WAITCLOCK")
  /\ SoftRoom
  /\ passeren(Clock, softBlockCount + 1)
  /\ UNCHANGED <<tree, killStack, io>>

-----------------------------------------------------------------------------
(***************************************************************************)
(* SYS2 (and passUpOrDie without a support structure): sysTerminate of the *)
(* current process, then scheduler().                                      *)
(***************************************************************************)
sysTerminate ==
  /\ Requests("TERMINATEPROCESS")
  /\ mode' = "kill"
  /\ killStack' = <<currentProcess>>
  /\ UNCHANGED <<tree, asl, readyQueue, currentProcess, semVal,
                 softBlockCount, io>>

Children_none(p) == {}
Children(p) == {c \in Pcb : p_prnt[c] = p}

\* while (!emptyChild(p)) sysTerminate(removeChild(p))
terminateChild ==
  /\ mode = "kill"
  /\ \E c \in Children(Last(killStack)) :
       /\ p_prnt' = [p_prnt EXCEPT ![c] = NULL]
       /\ killStack' = Append(killStack, c)
  /\ UNCHANGED <<freePcbs, processCount, asl, queues, semVal,
                 softBlockCount, io>>

\* A terminated process leaves its semaphore: only a semaphore outside
\* deviceSemaphores[0 .. NUM_DEVICES-1] is given back its unit, and only a
\* wait on one inside it gives back a soft block.
leaveSemaphore_noV(p) ==
  /\ \/ p_semAdd[p] = NULL /\ UNCHANGED blocked
     \/ /\ p_semAdd[p] # NULL
        /\ blocked' = [blocked EXCEPT ![p_semAdd[p]] = RemoveFirst(@, p)]
  /\ softBlockCount' = softBlockCount - (IF p_semAdd[p] \in Device THEN 1 ELSE 0)
  /\ UNCHANGED semVal

leaveSemaphore(p) ==
  LET s == p_semAdd[p] IN
  \/ /\ s = NULL
     /\ UNCHANGED <<semVal, blocked, softBlockCount>>
  \/ /\ s \in Device
     /\ blocked' = [blocked EXCEPT ![s] = RemoveFirst(@, p)]
     /\ softBlockCount' = softBlockCount - 1
     /\ UNCHANGED semVal
  \/ /\ s \in Sem \cup {Clock}
     /\ semVal' = [semVal EXCEPT ![s] = @ + 1]
     /\ blocked' = [blocked EXCEPT ![s] = RemoveFirst(@, p)]
     /\ UNCHANGED softBlockCount

\* if (processCount > 0) processCount--
oneProcessLess_none(n) == n
oneProcessLess(n) == IF n > 0 THEN n - 1 ELSE 0

\* The rest of sysTerminate for a process without children, and what follows
\* its return: HALT, the caller's loop, or the scheduler.
terminateSelf ==
  /\ mode = "kill"
  /\ LET p     == Last(killStack)
         rq    == RemoveFirst(readyQueue, p)
         procs == oneProcessLess(processCount)
     IN
       /\ Children(p) = {}
       /\ leaveSemaphore(p)
       /\ p_prnt' = [p_prnt EXCEPT ![p] = NULL]
       /\ ioReq' = [ioReq EXCEPT ![p] = NULL]
       /\ freePcbs' = freePcbs \cup {p}
       /\ processCount' = procs
       /\ killStack' = Front(killStack)
       /\ \/ /\ procs = 0
             /\ mode' = "halt"
             /\ readyQueue' = rq
             /\ currentProcess' = IF p = currentProcess THEN NULL ELSE currentProcess
          \/ /\ procs # 0 /\ p # currentProcess
             /\ readyQueue' = rq
             /\ UNCHANGED <<currentProcess, mode>>
          \/ /\ procs # 0 /\ p = currentProcess
             /\ scheduler(rq, procs, softBlockCount')
  /\ UNCHANGED <<p_semAdd, busy>>

-----------------------------------------------------------------------------
(***************************************************************************)
(* Interrupts.  The idle loop takes them too, except the local timer's.    *)
(***************************************************************************)
InterruptsOn ==
  \/ mode = "run" /\ ioReq[currentProcess] \notin Masked
  \/ mode = "wait"

handlePLTInterrupt_toHead ==
  /\ mode = "run" /\ InterruptsOn
  /\ scheduler(<<currentProcess>> \o readyQueue, processCount, softBlockCount)
  /\ UNCHANGED <<tree, asl, semVal, softBlockCount, killStack, io>>

handlePLTInterrupt ==
  /\ mode = "run" /\ InterruptsOn
  /\ scheduler(Append(readyQueue, currentProcess), processCount, softBlockCount)
  /\ UNCHANGED <<tree, asl, semVal, softBlockCount, killStack, io>>

handleIntervalTimerInterrupt_wakeNobody ==
  /\ InterruptsOn
  /\ semVal' = [semVal EXCEPT ![Clock] = 0]
  /\ resume(readyQueue, softBlockCount)
  /\ UNCHANGED <<tree, asl, softBlockCount, killStack, io>>

\* Wakes every waiter of the pseudo-clock; softBlockCount is left as it is.
handleIntervalTimerInterrupt ==
  /\ InterruptsOn
  /\ blocked' = [blocked EXCEPT ![Clock] = <<>>]
  /\ p_semAdd' = [p \in Pcb |-> IF p \in ToSet(blocked[Clock])
                                THEN NULL ELSE p_semAdd[p]]
  /\ semVal' = [semVal EXCEPT ![Clock] = 0]
  /\ resume(readyQueue \o blocked[Clock], softBlockCount)
  /\ UNCHANGED <<tree, softBlockCount, killStack, io>>

\* The V of a device interrupt.  When it leaves the semaphore positive the
\* handler just returns and the saved state is reloaded: for the idle loop
\* that is the rest of scheduler(), which dispatches currentProcess = NULL.
handleDeviceInterrupt(d) ==
  /\ InterruptsOn
  /\ busy[d]
  /\ busy' = [busy EXCEPT ![d] = FALSE]
  /\ semVal' = [semVal EXCEPT ![d] = @ + 1]
  /\ \/ /\ semVal[d] < 0 /\ blocked[d] # <<>>
        /\ removeBlocked(d)
        /\ softBlockCount' = softBlockCount - 1
        /\ resume(Append(readyQueue, Head(blocked[d])), softBlockCount - 1)
     \/ /\ semVal[d] < 0 /\ blocked[d] = <<>>
        /\ resume(readyQueue, softBlockCount)
        /\ UNCHANGED <<asl, softBlockCount>>
     \/ /\ semVal[d] >= 0
        /\ mode' = IF mode = "wait" THEN "wild" ELSE mode
        /\ UNCHANGED <<asl, readyQueue, currentProcess, softBlockCount>>
  /\ UNCHANGED <<tree, killStack, ioReq>>

\* HALT and PANIC stop the machine; of a processor that loaded its state
\* through a NULL pointer nothing more is said.
Stopped == mode \in {"halt", "panic", "wild"} /\ UNCHANGED vars

-----------------------------------------------------------------------------
Syscall ==
  \/ sysCreateProcess \/ sysTerminate
  \/ \E s \in Sem : sysPasseren(s) \/ sysVerhogen(s)
  \/ \E d \in Device : issueCommand(d)
  \/ sysWaitIO \/ sysWaitClock

Kill == terminateChild \/ terminateSelf

Interrupt ==
  \/ handlePLTInterrupt \/ handleIntervalTimerInterrupt
  \/ \E d \in Device : handleDeviceInterrupt(d)

Next == Syscall \/ Kill \/ Interrupt \/ Stopped

Spec == Init /\ [][Next]_vars

(***************************************************************************)
(* Fairness.  A pending interrupt stays asserted until it is acknowledged, *)
(* so one that finds interrupts enabled again and again is taken; kernel   *)
(* code and a driver between its command and its SYS5 run on.              *)
(***************************************************************************)
Fairness ==
  /\ SF_vars(handlePLTInterrupt)
  /\ SF_vars(handleIntervalTimerInterrupt)
  /\ WF_vars(Kill)
  /\ WF_vars(sysWaitIO)

FairSpec == Spec /\ Fairness

-----------------------------------------------------------------------------
\* Types of the kernel's variables.
TypeOK ==
  /\ freePcbs \subseteq Pcb \ (Template \cup {Daemon})
  /\ p_prnt \in [Pcb -> Pcb \cup {NULL}]
  /\ p_semAdd \in [Pcb -> AllSem \cup {NULL}]
  /\ readyQueue \in Seq(Pcb)
  /\ currentProcess \in Pcb \cup {NULL}
  /\ semVal \in [AllSem -> Int]
  /\ blocked \in [AllSem -> Seq(Pcb)]
  /\ processCount \in Nat
  /\ softBlockCount \in Int
  /\ mode \in Modes
  /\ killStack \in Seq(Pcb)
  /\ ioReq \in [Pcb -> Device \cup {NULL}]
  /\ busy \in [Device -> BOOLEAN]

\* A live process is in exactly one place: running, once in the ready queue,
\* or once in the queue of the semaphore its p_semAdd names; the queues hold
\* live processes only.  insertProcQ of a pcb that is still queued, or freePcb
\* of one, would tie two of the circular lists together.
OnePlace ==
  /\ IsInjective(readyQueue) /\ \A s \in AllSem : IsInjective(blocked[s])
  /\ ToSet(readyQueue) \subseteq Live
  /\ \A s \in AllSem : ToSet(blocked[s]) \subseteq Live
  /\ currentProcess \in Live \cup {NULL}
  /\ \A p \in Live :
       /\ \A s \in AllSem : p \in ToSet(blocked[s]) <=> p_semAdd[p] = s
       /\ p \in ToSet(readyQueue) <=> p_semAdd[p] = NULL /\ p # currentProcess
       /\ p = currentProcess => p_semAdd[p] = NULL

\* No wakeup is lost or invented: as many processes wait on a kernel semaphore
\* as its value is below zero.  A process killed while it waits for a device
\* leaves the value of that semaphore too low, never too high.
SemCount ==
  \A s \in AllSem :
    LET owed == IF semVal[s] < 0 THEN 0 - semVal[s] ELSE 0 IN
    /\ Len(blocked[s]) <= owed
    /\ s \notin Device => Len(blocked[s]) = owed

\* The mode of the processor agrees with what it holds: idle, it left no
\* ready process behind; it panics only with nothing soft-blocked; and the
\* activations of sysTerminate, started by the running process, are all of
\* processes that are still live.
ModeInv ==
  /\ mode \in {"run", "kill"} => currentProcess # NULL
  /\ mode \in {"wait", "panic", "wild"} => currentProcess = NULL /\ readyQueue = <<>>
  /\ mode = "panic" => softBlockCount <= 0
  /\ mode = "kill" => killStack # <<>> /\ killStack[1] = currentProcess
  /\ mode \notin {"kill", "halt"} => killStack = <<>>
  /\ ToSet(killStack) \subseteq Live \ {Daemon}

SoftBlocked == {p \in Live : p_semAdd[p] \in SoftSem}

\* softBlockCount never undercounts the processes that wait for a device or
\* for the clock, whatever the order of SYS5, interrupt, tick and kill.
SoftBound == Cardinality(SoftBlocked) <= softBlockCount

\* PANIC is a real deadlock: no live process waits for anything but a V of
\* another one.
NoFalseDeadlock ==
  mode = "panic" => \A p \in Live : p_semAdd[p] \in Sem

\* The processor idles or panics only when no process could run.
WorkConserving ==
  mode \in {"wait", "panic"} => \A p \in Live : p_semAdd[p] # NULL

\* processCount is the number of processes, the daemon of initADL apart, and
\* it is zero exactly when the machine has halted.
CountExact ==
  /\ processCount = Cardinality(Live \ {Daemon})
  /\ mode = "halt" <=> Live = {Daemon}

\* A process outlives neither its creator nor test(): its parent is live
\* unless the process is itself being terminated, and nothing but the daemon
\* is left once test() is gone.
NoOrphan ==
  /\ \A p \in Live \ {Root, Daemon} :
       p_prnt[p] \in Live \/ p \in ToSet(killStack)
  /\ Root \notin Live => mode = "halt"

\* No device interrupt is counted that no process is coming to collect: a
\* device semaphore, with the interrupt the device still owes, stays within
\* the number of drivers between their command and their SYS5.
IoBalance ==
  Root \in Live /\ mode # "kill" =>
    \A d \in Device :
      semVal[d] + (IF busy[d] THEN 1 ELSE 0)
        <= Cardinality({p \in Live : ioReq[p] = d})

\* The idle loop is never resumed by an interrupt that woke nobody, which
\* would dispatch currentProcess = NULL.
NoNullDispatch == mode # "wild"

\* SYS3, SYS4 and the termination of waiters give the kernel's clients counting
\* semaphores that serve in order of arrival.
SemService == INSTANCE Semaphores WITH
  Process   <- Pcb,
  client    <- Live,
  Semaphore <- Sem,
  sem       <- [s \in Sem |-> semVal[s]],
  waiting   <- [s \in Sem |-> blocked[s]]

Implements == SemService!Spec

Over == mode \in {"halt", "panic", "wild"}

\* A process that is ready gets the processor, or the system is over.
ReadyRuns ==
  \A p \in Pcb \ Template :
    p \in ToSet(readyQueue) ~> (p = currentProcess \/ p \in freePcbs \/ Over)

\* A process waiting for the pseudo-clock is woken by a tick.
ClockWakes ==
  \A p \in Pcb \ Template :
    (p \in Live /\ p_semAdd[p] = Clock) ~> (p_semAdd[p] # Clock \/ p \in freePcbs \/ Over)
=============================================================================
