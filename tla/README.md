# Pandos in TLA+

Pandos is a small operating system for the uMPS3 machine. This directory
specifies its kernel and its support level in TLA+, checks them with TLC on
small instances, and proves with TLAPS every invariant that TLC checks, and the
five refinements, for any number of processes, semaphores, descriptors, devices,
U-procs, pages and frames (under a condition stated below for the drivers, for the alarm clock
and for two invariants of the nucleus); liveness stays with TLC. Every definition is written
from `src/phase3/*.c` and `src/h/*.h`; `PROJECT.json` gives, for each one, the
lines it stands for.

## The system

Pandos runs on one processor. The **nucleus** has interrupts disabled, so its
handlers are atomic; the **support level** (the code that serves a U-proc's
exceptions) runs as part of the U-proc with interrupts enabled, except for short
sections, so two U-procs interleave between any two of its steps.

| Part | Source | State | Operations | Talks to |
|---|---|---|---|---|
| Process queues, process tree | `pcb.c` | `pcbTable`, the free list, circular queues named by their tail, child and sibling pointers | allocPcb, freePcb, insertProcQ, removeProcQ, outProcQ, insertChild, removeChild, outChild | called by everything in the nucleus |
| Active semaphore list | `asl.c` | `semdTable`, the sorted list of semaphores in use, the free list | insertBlocked, removeBlocked, outBlocked | pcb.c for each queue |
| Boot | `initial.c` | all global variables | main | test(), initADL, initUProcs |
| Scheduler | `scheduler.c` | `readyQueue`, `currentProcess`, `processCount`, `softBlockCount` | scheduler: dispatch, HALT, WAIT, PANIC | called by SYS2, SYS3, SYS5, SYS7 and all interrupt handlers |
| System calls | `exceptions.c` | the above, semaphore values, CPU times; the state an exception saved, in the BIOS data page, the pcb or the support structure | SYS1 to SYS8, passing an exception up, TLB refill | processes call it; it passes the rest up to the support level |
| Interrupts | `interrupts.c` | `deviceSemaphores` | local timer, interval timer, devices by priority | devices; wakes processes |
| U-proc initialisation | `initProc.c` | `asidProcessTable`, page tables, `masterSemaphore`, support structures and their free list, handler stacks | test(), initUProcs, freeSupportStruct | SYS1, SYS3, SYS2 |
| Virtual memory | `vmSupport.c` | `swapPool`, `swapPoolSem`, page tables, TLB, backing store | pagerHandler, getFreeFrame, freeFrame | flash devices, swapPoolSem |
| Support-level calls | `sysSupport.c` | locks of the device lines | SYS9 to SYS13, program traps | SYS3, SYS4, SYS5, devices |
| DMA devices | `deviceSupportDMA.c` | DMA buffers | SYS14 to SYS17 | SYS5, disks, flash devices |
| Delay facility | `delayDaemon.c` | the sorted list of sleepers, its free list, `ADLsem`, private semaphores | SYS18, the daemon | SYS3, SYS4, SYS7 |

What is hard in it:

* **Interleaving.** A device may interrupt before, between and after the command
  and the SYS5 that waits for it; the clock ticks in the idle loop or under a
  process; the daemon wakes a U-proc between its unlock and its P; pagers,
  terminating U-procs and writers meet on the frames of the swap pool.
* **Termination in the middle of anything.** SYS2 kills a whole subtree whose
  members are ready, running, or waiting on any of three kinds of semaphore, each
  with accounting of its own.
* **A state with four homes.** While a U-proc's call is served its state is in its
  support structure, its handler's in the processor, in the BIOS data page or in
  the pcb; the handler can itself be interrupted, preempted or fault on the
  U-proc's memory, and each of these uses the same few places.
* **Counters that decide between WAIT, HALT and PANIC**: `softBlockCount` and
  `processCount` are kept by six handlers that do not agree on a rule.
* **Pointer structures under every sequence of calls**: circular lists named by
  their tail, sibling lists, a sorted list with a free list.
* **Boundaries**: one more sleeper than descriptors, a wake time that overflows,
  a circular index.

Correctness of each part, in a sentence: a live process is in exactly one place
(nucleus); no wakeup is lost or invented (semaphores); the machine stops only for
the right reason (scheduler); a process resumes where its last exception promised
(exceptions); a pointer structure is the sequence or the tree it
stands for (pcb.c, asl.c); a page has one owner and its contents survive eviction
(paging); a sleeper is woken once, in time (delay); what a driver reports is what
the device did (drivers).

## The modules

| Module | What it is |
|---|---|
| `Nucleus` | scheduler, SYS1-SYS5 and SYS7, interrupts, from the state that main() leaves |
| `Semaphores` | what SYS3 and SYS4 promise; implemented by `Nucleus`, and the ground that `Exceptions`, `Delay`, `Paging` and `Drivers` stand on |
| `Exceptions` / `Activations` | where the state of a process is: exceptionHandler, passUpOrDie, SYS1-SYS8 as they save, load and charge time, the general handler and the pager seen from outside / a process is a stack of activations |
| `Pcb` / `ProcQueues` | pcb.c pointer by pointer / queues and a tree as sequences |
| `Asl` / `SemQueues` | asl.c over descriptors / a queue per semaphore |
| `Delay` / `Alarm` | SYS18 and the daemon, step by step / a U-proc sleeps until its deadline |
| `Paging` | pager, swap pool, TLB, SYS9, program traps and test() |
| `Drivers` | SYS11-SYS17: arguments, geometry, DMA buffer, each command, its SYS5 and status check, with the devices and the interrupt that answers |
| `MC*` | instances for TLC: model values, service sets, symmetry |
| `LinkedLists` | the walk along a list of next pointers, for `Pcb`, `Asl` and `Delay` |
| `ListLemmas` | lemmas: what the queue operations do to the members of a queue; linked lists as sequences of nodes; finite sets of integers have extremes |
| `NucleusProofs` | the invariants of `Nucleus`, and that it implements `Semaphores` |
| `PcbProofs`, `AslProofs` | the pointer structures of `Pcb` and `Asl`, and that they implement `ProcQueues` and `SemQueues` |
| `ExceptionsProofs` | every saved state is of its process, no time is lost; `Exceptions` implements `Activations` |
| `DelayProofs` | the list of sleepers, one V for one P; `Delay` implements `Alarm` unless a wake time overflows |
| `PagingProofs` | lock, frames, page tables, TLB, backing store |
| `DriversProofs` | commands, interrupts and SYS5 pair up; what a driver returns is true |

How they fit together:

    Pcb ==implements==> ProcQueues  \
    Asl ==implements==> SemQueues    >  the queues and the tree of Nucleus
                                    /
    Nucleus ==implements==> Semaphores <--INSTANCE-- Exceptions ==implements==> Activations
                                       <--INSTANCE-- Delay ==implements==> Alarm
                                       <--INSTANCE-- Paging
                                       <--INSTANCE-- Drivers

`Nucleus` uses sequences where the code has circular lists, and a function from
semaphores to sequences where it has the ASL: `Pcb` and `Asl` show that the code
of those files gives it exactly that. The other modules use P and V of
`Semaphores`, which is what `Nucleus` is shown to implement. `Nucleus` and
`Exceptions` are two views of the same handlers: `Nucleus` has the queues and the
counters and no processor states; `Exceptions` has the processor states, the save
areas and the clock, and takes any ready process for the head of the ready queue.
`Exceptions` has the pager as five instructions; `Paging` has what they do.

Correspondence with the code. Variables keep the names of the code's globals
(`readyQueue`, `p_semAdd`, `swapPool`, `delayd_h`) and actions the names of its
functions. `mode` in `Nucleus` says what the processor does: run a process, wait,
run the recursive sysTerminate, or be stopped by HALT, PANIC, or a dispatch of
NULL ("wild"). `nucleus` in `Exceptions` says whether the processor runs a
process, is in an exception, in scheduler(), waits or has halted; a processor
state is a record of the level that runs (`user`, `general`, `pager`, `test`,
`daemon`), its program counter, and what BIOS saves of the exception's cause.
Locals of a handler that is preemptible are functions of the
process (`page`, `frame`, `victim`; `node`), its program counter is `pc`. A
definition `x_y` is `x` with the bug `y`; it is not used by any specification,
and `PROJECT.json` names the property that notices it.

Grain of atomicity. A nucleus handler is one action. sysTerminate, the only
recursion of the nucleus, is one action per call (`terminateChild`) and per return
(`terminateSelf`), with an explicit stack; nothing else moves in between, as
interrupts are off. `Exceptions` splits a handler where a state moves: the
exception saves it, the handler copies or loads it, scheduler() loads another. In the support level a step is one system call, one section
with interrupts off, or code that touches shared data once.

What processes do is a parameter of `Nucleus` (`TestCalls`, `DaemonCalls`,
`UprocCalls`): the invariants hold for clients that request any service in any
order, except for two properties that depend on the clients of this system
(`NoNullDispatch`, `IoBalance`; see below).

## The runs

| Run | Shows |
|---|---|
| `nucleus_general` | under arbitrary clients: one place per process (`OnePlace`), values and queues of semaphores agree (`SemCount`), `softBlockCount` is never too small and PANIC is a real deadlock (`SoftBound`, `NoFalseDeadlock`), the processor idles only when nothing can run (`WorkConserving`), `processCount` and HALT (`CountExact`), the mode (`ModeInv`) and no orphans (`NoOrphan`) |
| `nucleus_program` | under the services that test(), the daemon and the U-procs request: ready processes run (`ReadyRuns`), the clock's waiters are woken (`ClockWakes`), the semaphore service (`Implements`), no interrupt is left over (`IoBalance`) and the idle loop is never resumed with nobody to run (`NoNullDispatch`) |
| `pcb`, `asl` | pcb.c and asl.c under every legal sequence of calls implement queues, tree and semaphore queues; every link has its converse (`LinksMirror`, `ListsInv`); the descriptors never run out |
| `exceptions` | a process resumes where each of its exceptions promised, however calls, page faults in a handler, preemptions and waits nest (`Implements`); no two activations use one stack (`StacksApart`, but for the daemon's, below); no process is charged less time than it used (`NeverUndercharged`); a support structure that is free is not written (`FreeUntouched`) |
| `delay` | the list of sleepers stays sorted and complete (`AdlInv`), exactly one V for each P (`WakeBalance`), a descriptor for each caller (`NeverExhausted`), sleepers go on (`Wakes`), and never before their deadline (`Implements`) |
| `delay_overflow` | violation: with a delay that overflows, a U-proc wakes early |
| `paging` | pages are isolated and survive eviction while no U-proc has ended (`PageIsolation`, `NoLostPage`), the TLB is coherent, faults are served, the machine halts when and only when all U-procs are done |
| `paging_trap` | violation: a program trap breaks the mutual exclusion of the pager |
| `paging_ending` | violation: a U-proc that ends frees a frame that a pager, which holds the lock, has just chosen to evict: the pager goes on with a page of nobody |
| `drivers` | command, interrupt and SYS5 pair up whatever comes first (`InterruptsPairUp`); what a driver reports is what the device did, unless the device answered before the SYS5, and data sent to or read from a flash device is where it was asked for (`TrueResult`); every call returns or ends its U-proc (`Returns`) |
| `drivers_terminal` | violation: a character that was transmitted is reported as a failure |

Bounds, and why they are enough:

* `nucleus_general`: test(), the daemon, one template pcb and three U-procs; one
  mutex, one device, the clock. Three U-procs make a tree of depth three, a
  queue with a head, a middle and a tail, and a victim in each kind of place.
  `MaxSemVal`, `MinDevVal` and `MaxSoft` stop semaphore values and the leaking
  `softBlockCount`; three soft blocks let the count exceed the waiters, and equal
  them again. U-procs are symmetric.
* `nucleus_program`: two devices, one commanded with interrupts off (`Masked`),
  one with a window before its SYS5. No symmetry, as it checks liveness.
* `pcb`: four pcbs and two queues: a queue or a child list with a middle element,
  and a process in each of two queues. `asl`: three addresses and three
  descriptors, one for each pcb (MAXSEMD = MAXPROC in the code as well).
* `delay`: two U-procs and exactly one descriptor for each plus the dummy, delays
  of -1, 0, 1 and 2 ticks; two sleepers with equal, smaller and larger wake times,
  and calls repeated while the daemon scans. `LastCall` and `Horizon` end time.
  `delay_overflow` has an int small enough for a delay of 4 to overflow.
* `paging`: two U-procs and three pages for two frames: no set of frames satisfies
  everybody, so victims are taken in circular order, from others and from
  oneself, while the other one writes. One U-proc may end itself, the other trap.
  One write for each page tells old contents from new ones.
* `exceptions`: two U-procs and a pool of two support structures, so that the free
  list is empty until somebody ends and both handlers of both U-procs can be under
  way. Calls 3 (of the nucleus, from user mode), 9, 10 and 13: one of each way that
  supportSyscallHandler goes. `MaxPC` lets U-proc 1 resume after a call and go on;
  with `MaxTOD` 1 the clock ticks at any one point. `VIEW Alive` makes one state of
  those that differ in copies that are overwritten before they are read, and
  keeps the CPU account of U-proc 1 only: the accounts of two processes never meet.
* `drivers`: a disk, a flash device, a printer and both halves of a terminal, on
  numbers that differ, with all their priorities. Each device has one client in
  `drivers`, the disk has two in `drivers_terminal`. `MAX_LEN` 2: an error hits the
  first, the last or the only command. Geometry 2 cylinders, 2 heads, 2 sectors; the
  blocks asked for are within the device, one beyond its end, -1, and on the flash
  device one that the COMMAND word cuts to a block within. Of the commands that the
  disk gets in place of the transfers meant (below) some are legal and some are not.

`CHECK_DEADLOCK` stays on in the passing runs but two: where the machine stops
(HALT, PANIC, the "wild" dispatch) `Nucleus` and `Paging` stutter by an explicit
action, so any other deadlock is reported. In `drivers` every U-proc may have
ended, and in `exceptions` the machine halts and the clock stops at its bound:
there it is off, and `Returns` is what shows that no driver is stuck.

### Fairness

* `Nucleus`: strong fairness for the two timers, since they are taken only while
  interrupts are on: their interrupt stays asserted until it is acknowledged, and
  sections with interrupts off end. Weak fairness for the steps of sysTerminate
  and for the SYS5 that follows a command, which are straight-line code. Nothing
  is assumed of what a process asks for, nor that a device answers.
* `Delay`, `Paging`, `Drivers`: weak fairness for each process inside the support
  level: `ReadyRuns` of `Nucleus` is the reason why a process that is not waiting
  gets on. Not for a U-proc that runs its own code: it need not ask for anything.
  Devices answer and the interval timer ticks. In `Drivers` the interrupt of a device
  is strongly fair: one of low priority has to let others pass, but it stays raised,
  and the handler takes all that are raised before a process runs again.
* `Exceptions` states safety only.

### Depending on the clients

`NoNullDispatch` and `IoBalance` are checked for the services that this system's
processes request. When any process may issue a command and a SYS5 on any
device whose owner is killed in between, the interrupt finds a positive semaphore
and the handler returns (interrupts.c:179-209); if the processor was idle, that
return is into scheduler(), which then loads the state of a NULL process. In this
system a U-proc is never killed between a command and its SYS5 except when test()
ends, which it does only after the U-procs have. Both are proved for all clients of
which only test() issues SYS1 (`OnlyTestCreates`): then no process but test() has
children, and SYS2 of any other ends just the caller, which is at no SYS5. In the
code SYS1 is a program trap for a U-proc, which runs in user mode
(exceptions.c:91-96), and no service of the support level issues one.

## Disagreements met while modelling

Four are runs that TLC must find violated; `PROJECT.json` quotes the lines.

1. A long delay overflows the wake time and the U-proc wakes at once
   (`delay_overflow`).
2. A program trap does a V on `swapPoolSem` without holding it: two pagers are in
   the critical section (`paging_trap`).
3. supTerminate frees frames without `swapPoolSem`: the pager that was about to
   evict one takes -1 for the ASID of its owner, and getSupportStruct reads
   before its table (`paging_ending`).
4. The terminal drivers disable interrupts after the command, not before: a quick
   answer makes them report an error for a character that was sent
   (`drivers_terminal`).

Others follow from the definitions and have no run of their own:

* `softBlockCount` counts processes that are not soft-blocked: the clock's tick
  does not take back what SYS7 added, so a real deadlock may be waited out forever.
  `SoftBound` and `NoFalseDeadlock` say what does hold: it is never too small.
* Disks do not do what their drivers mean. const.h:164-166 gives them the numbers of
  the flash commands, but a disk takes 2 for a seek, 3 for a read and 4 for a write.
  SYS15 (DISK_PUT, dmaWriteDisk) seeks and then *reads* a sector over the DMA buffer,
  reports success, and writes nothing, where deviceSupportDMA.c:29-31 says that it
  issues a WRITEBLK. SYS14 (DISK_GET, dmaReadDisk) seeks twice and copies out what
  the buffer held, or fails, where lines 98-101 say that it reads. And head and
  sector are sent in bits 31-24 and 23-16 (lines 85, 150), where the disk looks for
  them in 23-16 and 15-8: its head is the sector meant, its sector 0. `Drivers` has
  the drivers' words and the disk's reading of them (`Command`, `Legal`, `Read`);
  what `TrueResult` says of a disk is its status alone.
* The comments on the disk services give SYS14 as the write and SYS15 as the read
  (deviceSupportDMA.c:6, 28, 97); const.h:128-129 and sysSupport.c:103-110 have them
  the other way round.
* dmaWriteFlash checks no block number, though deviceSupportDMA.c:239-240 says that
  the U-proc is ended for an invalid parameter, and the COMMAND word keeps 24 bits of
  it: block 2^24 + 1 overwrites block 1. `Moved` promises nothing of such a number.
* The daemon's stack page is the general handler's of ASID 1 (delayDaemon.c:177,
  initProc.c:122); `StacksApart` excepts that pair by name.
* `p_startTOD` is set when time is added up, not when a process is dispatched or
  created: a process is charged for its waits too. `NeverUndercharged` is the half that holds.

## What is proved

Every theorem is about the specification that TLC checks, with arbitrary constants
within these assumptions, which every run evaluates:

* `Nucleus`: `Pcb` finite with `Root`, `Daemon` and the templates in it; kernel
  semaphores, device semaphores and the clock distinct; the daemon neither creates
  nor terminates processes (delayDaemon.c:90-134); `TestCalls` and `UprocCalls` any
  services at all. `IoBalance` and `NoNullDispatch` alone need `OnlyTestCreates`.
* `Pcb`: at least one pcb (MAXPROC is 20). `Asl`: a descriptor for each pcb
  (MAXSEMD = MAXPROC), addresses positive, since the dummy head has address 0.
* `Delay`: a descriptor for each U-proc and one for the dummy (DELAY_LIST_SIZE =
  UPROCMAX + 1); the clock stays below MAXINT, delays are any integers at all.
  `NeverEarly` and `Implements` alone need `NoOverflow`: no delay is so long that its
  wake time exceeds an int. `delay.cfg` satisfies it, `delay_overflow.cfg` does not,
  and TLC finds the U-proc that wakes early.
* `Drivers`: geometry within the fields of DATA1, block numbers any integers. The
  theorems need `OneClient`: of two requests for one device semaphore the client is
  the same. For printers and terminals the code sees to it (the device number is the
  ASID); disks and flash devices are any U-proc's, so for these it is a condition on
  the programs. `drivers.cfg` satisfies it; two U-procs on one disk may seek between
  the other's seek and transfer, and no driver locks it.
* `Exceptions`: no more U-procs than support structures, else initUProcs panics.
  `Paging`: at least one frame.

**Nucleus: Core.** `NucleusProofs` proves `Spec => []Core` with

    Core == TypeOK /\ OnePlace /\ ModeInv /\ TreeInv

None of the four is inductive alone. A step of `scheduler` dispatches the head of
the ready queue: to keep `OnePlace` one has to know that nobody is running, which
`ModeInv` says. sysTerminate removes a process from where `p_semAdd` says that it
waits, which is right only by `OnePlace`. That an activation of sysTerminate never
finds its process already freed needs that no process is on the kill stack twice,
and that is a fact about the tree: `TreeInv` states it with a rank that grows from
parent to child and along the stack, so that a child of the last activation is
always new. (`TreeInv` appears only in the proofs; TLC checks the other three.)

The argument is by one lemma per action. `OnePlace` is restated as `Placed`, a
relation between the five data structures; `Dispatch`, `Preempt`, `Block`, `Wake`,
`WakeAll`, `Create` and `Die` say that each move of a process keeps it, with
the queue facts of `ListLemmas`. `Scheduled` says what any call of `scheduler`
establishes, `PasserenCore` what any P does, `Resumed` what any interrupt's end
does; the actions follow. The theorems `TypeCorrect`, `OnePlaceHolds`, `ModeInvHolds` and
`WorkConservingHolds` are corollaries.

**Nucleus: counts.** On top of Core,

* `SemCountHolds`: a lemma for each way a value changes (`PasserenCount`,
  `VCount`, `LeaveCount`), all by `OneSemaphore`;
* `SoftBoundHolds`: `SoftStep` relates the cardinality of the soft-blocked
  processes to the counter for a step that adds one, takes one away, or forgets one;
* `NoFalseDeadlockHolds`, from `SoftBound`, `WorkConserving` and Core;
* `CountExactHolds`: the counter is the cardinality of the live processes, and
  the scheduler can halt only from the last termination.

**Nucleus: the tree.** `NoOrphanHolds`. The hard case is the
termination of test() itself: `RootIsLast` takes, of the processes left under it,
one of smallest rank; its parent is live, is neither on the stack nor test() (which
has no children any more) nor the daemon, and so has a smaller rank still. The
strengthening `AtRoot` says that test() is nobody's child, the daemon nobody's
parent, and that test() is terminated only as the first on the stack.

**Nucleus: the semaphore service.** `NucleusImplements`: `Spec` implies the
specification of `Semaphores` under the mapping of `Nucleus`
(clients are the live processes; device and clock semaphores are not part of the
service). SYS4 wakes somebody whenever somebody waits because, by `SemCount`, the
value is then negative; a killed waiter leaves exactly one queue, by `OnePlace`.
This is the fact that `Delay`, `Paging` and `Drivers` build on.

**Nucleus: interrupts and SYS5.** `IoBalanceHolds` and `NoNullDispatchHolds`, by the
invariant `IoInv`: under `OnlyTestCreates` every process is test(), the daemon or a
child of test(); whoever has commanded a device is live and waits for nothing; and
while test() lives each device owes no more units than processes are committed to
it (`Balanced`). A command adds one on both sides, a SYS5 takes one from both, the
interrupt turns a busy device into a unit. An interrupt that finds nobody
waiting has therefore raised a positive semaphore for a process that has still to
do its SYS5; that one is ready or running, so by `WorkConserving` the processor is not
idle and there is somebody to resume.

**Pcb.** `PcbProofs` proves `Spec => []PcbInv`: the free list is a chain of next
pointers; each process queue is a `Ring`, closed in both directions and entered at its
tail; the children of each pcb are a `Family`, linked to the right and to the left; no
pcb is in two of them. An insertion or removal is then a fact about the neighbours in
a sequence (`RingRemove`, for one, takes any member out of a ring). `FreeInv`, that a free pcb has
no place in the tree, is why allocPcb's clearing of the tree's pointers leaves everybody
else's list alone. `PcbLinks` (`LinksMirror`) and `PcbImplements` (queues, stack and
tree of `ProcQueues`) follow.

**Asl.** `AslProofs` proves `Spec => []AslInv`: the sorted list from dummy to dummy and
the free list are chains that share the descriptors out (`Chains`), and an active descriptor
has waiters whose `p_semAdd` is its address (`Waiters`). That the search stops at the
right place follows from sortedness and from the tail's address above all others.
`AslNeverExhausted` counts: the queues of the active descriptors are disjoint and not
empty, so one pcb that is not blocked leaves a descriptor free. `AslLists` and
`AslImplements` follow.

The walk along a list is a recursive function, and induction over data is out of the
provers' reach. So the lemmas of `ListLemmas` characterise it: `IsList(C, first, next, nil)`
says that C is a sequence of distinct nodes that starts at first, follows next and ends
before nil, and the walk is shown to be equal to any such C by looking at the smallest
position where they would differ. After that each operation only has to exhibit the new
sequence.

**Delay.** `DelayProofs` proves `Spec => []DInv`: who holds `ADLsem` (`LockInv`); active list,
free list and the descriptor in the holder's hand share the descriptors out, the active
one sorted up to the dummy (`ListInv`); each sleeper has one descriptor (`OwnerInv`);
what the daemon's `curr` points to (`CurrInv`); and for each private semaphore how its value and
queue follow from the place of the sleeper and whether its V is still to come (`WakeInv`).
`DelayLists`, `DelayWakes` and `DelayNeverExhausted` are corollaries. `DelayNeverEarly`
and `DelayImplements` need, with `NoOverflow`, that the time in each descriptor is
not before its U-proc's deadline (`TimeInv`).

**Drivers.** `DriversProofs` proves, under `OneClient`, an invariant of the same name `DInv`: what a
device does or has answered is the command of the driver that waits for it or is about
to (`DeviceInv`); the semaphore of a line nobody drives is 0 and has no queue
(`LineInv`); before its SYS5 a driver has either an outstanding command or a unit on
the semaphore, after it either it waits for an outstanding command or nothing is left of
it (`PairInv`); and what the driver knows of the outcome against what the device did
(`CallInv`, `GotInv`), with what a flash device has done with the DMA buffer
(`Effect`). `InterruptsPairUp` and `TrueResult` follow, for every block and geometry.

**Exceptions.** `ExceptionsProofs` proves `Spec => []Inv`. Its parts: `SavedWell` (the
state in every pcb, and the two in the support structure of every U-proc, are at a
level that this process has, and a general handler past its SYS8 holds the
support pointer of this process and no other), `RunsWell` (the same for the
processor and the BIOS data page, by what the nucleus is doing), and `Charged`
(a process has been charged for what it used up to its last charge). None holds
alone: what a dispatch loads is good by `SavedWell`, what a preemption saves is by
`RunsWell`. `ExceptionsTypes` and `NoTimeLost` are corollaries; the type of
`sup_exceptState[cpu.sup]` in particular needs that a handler reads the structure
that SYS8 gave it, which is its own.

**Exceptions: activations.** `ExceptionsImplementActivations`. The
mapping reads the stack of a process off its current state and its two save areas, so the
proof first says where each process is before and after a step (`Top`): exceptions,
preemption, interrupts and dispatch move states between the processor, the data page
and the pcbs and leave every process where it is (`StillSteps`); a call of the
nucleus moves one process to the next instruction, whether it waits or not
(`CallTop`). Then each other step is a `Step`, `Call`, `Return`, `End` or `Spawn`
of that process. A return needs more than `Inv`: that a service at its end still has its SYSCALL
saved, although the pager has run above it meanwhile, and that a pager entered from
a handler was entered from one of the two copying instructions. That is `Nested`.
`Freed` says that a support structure in the free list belongs to a U-proc at its SYS2 or
gone, with an ASID that test() has passed: so nobody is created with one that was freed.
Both hold together (`RefinementInvariant`); `FreeNeverWritten` follows from `Freed`, and
`HandlersKeepApart` from the levels that `Inv` allows and the arithmetic of the
stack pages.

**Paging.** `PagingProofs` proves `Spec => []PInv`, where

    PInv == Types /\ TlbCoherent /\ (AllRun => Lock /\ Owned /\ Progress /\ Stored)

`AllRun` says that no U-proc has begun to end; once one has, supTerminate takes
frames without the lock and only `Types` and `TlbCoherent` are left, as
`paging_ending` shows. `Lock`: either the pool is free and no pager works, or
one holds it and the others wait in its queue. `Owned`: a valid page table entry and
its frame name each other, except for the frame that the lock's holder has
detached. `Progress`: what the holder has done at each of its steps. `Stored`: a page that is
not resident has its contents in the backing store or in the frame being
written to it. `PageIsolation` and `NoLostPage` cannot be proved without `Lock` (a
second pager would pick the same frame) nor `Lock` without the queue of waiters
being the pagers at `pick`. `NoEarlyHalt` is an argument by counting, in terms of
`masterSemaphore`: the P's of test() that got through are no more than the V's of
supTerminate, and those no more than the U-procs that have ended.

Only model-checked: every liveness property (`ReadyRuns`, `ClockWakes`, `Wakes`, `Returns`,
`Served` and `Halts`), since fairness and ENABLED are out of the provers' reach.

## Not modelled

* Register values other than the program counter, a0 and the support pointer; the
  pass-up vector; the layout of the BIOS data page.
* User addresses and the bytes of pages and blocks; the comparisons with KUSEG; where
  the arm of a disk is, and which sector it reads.
* What is on a stack: `StacksApart` says which activations share one.
* Page 1, which is valid from the start with frame number 0: what an access
  below the RAM does is the hardware's.
* Errors of the backing store, which the pager cannot see since the interrupt
  handler acknowledges them first. The
  pager's branch for a modification exception (vmSupport.c:114) has no action: every
  page is writable, so none occurs.
* A terminal that reports an error: the handler then reads an uninitialised
  variable, acknowledges nothing, and is entered again.
* The flash device that SYS16 and SYS17 share with another U-proc's pager, without
  a lock: `Paging` and `Drivers` have no device in common.
* passUpOrDie's "die" for a process without a support structure is sysTerminate of
  `Nucleus`; in `Exceptions`, test() and the daemon raise nothing that would need it.
* Headers, and `src/testers`: programs that run as U-procs.

## Plan

Done, in this order: `Nucleus` and its runs; `Pcb` and `Asl` under it; `Semaphores`
and `Delay`; `Paging`; `Drivers`; `Exceptions` with CPU time, support structures and
nested handlers; blocks, priorities and shared disks in `Drivers`; the proofs of
`Nucleus`, `Exceptions` and `Paging`; the refinement of `Activations`; the proofs of
`Delay`, `Drivers`, `Asl` and `Pcb`; `IoBalance` and `NoNullDispatch`.

Next, the model: `Paging` with the backing store reached through `Drivers`, on a
flash device that SYS16 and SYS17 use too.

Next, the proofs:

1. What is left of `InterruptsPairUp` on a disk that several U-procs use: `OneClient`
   for the printers and terminals alone.
2. What a page keeps for the other U-procs once one has ended: `Lock`, `Owned` and
   `Stored` of `Paging` relative to the pages of those that still run.
3. What `Delay` promises when a wake time overflows: every other sleeper is still on
   time.
