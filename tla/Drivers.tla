------------------------------- MODULE Drivers -------------------------------
(***************************************************************************)
(* The device drivers of the support level: printers and terminals         *)
(* (phase3/sysSupport.c), disks and flash devices (deviceSupportDMA.c),    *)
(* over the nucleus' semaphores and its handling of device interrupts      *)
(* (interrupts.c).                                                         *)
(*                                                                         *)
(* A driver checks its arguments, locks its line (printers and terminals)  *)
(* or fills the DMA buffer (disks and flash devices), and for each command *)
(* writes the COMMAND register, waits with SYS5 and looks at the status it *)
(* is given.  Printers and flash devices are commanded with interrupts off *)
(* until the SYS5; for terminals interrupts go off too late, for disks     *)
(* they do not: the device may answer in between.                          *)
(*                                                                         *)
(* A definition x_y is x with the bug y.                                   *)
(***************************************************************************)
EXTENDS Integers, SequencesExt

CONSTANTS
  Uproc, NULL,
  Device,      \* <<line, number>>, for a terminal <<TERMINT, number, half>>
  Request,     \* what U-procs ask for: [client, dev, op, arg]
  MAX_LEN,     \* longest string
  maxCyl, maxHead, maxSect,   \* the geometry of the disks, in DATA1
  MAXBLOCK                    \* blocks of a flash device, in DATA1

DISKINT == 3
FLASHINT == 4
PRNTINT == 6
TERMINT == 7
DEVPERINT == 8
TRANSMIT == 1
RECEIVE == 1

Disk == {d \in Device : d[1] = DISKINT}
Flash == {d \in Device : d[1] = FLASHINT}
Printer == {d \in Device : d[1] = PRNTINT}
Terminal == {d \in Device : d[1] = TERMINT}
Atomic == Printer \cup Flash     \* commanded with interrupts off
Locked == Printer \cup Terminal
Block == Disk \cup Flash

\* The register that sysWaitIO reads as d_status: of a terminal, the receiver's.
Reg(d) == IF d[1] = TERMINT THEN <<d[1], d[2], "recv">> ELSE d

\* DATA1 of a disk has 16 bits for cylinders, 8 for heads and 8 for sectors.
ASSUME DriversAssumption ==
  /\ IsFiniteSet(Uproc) /\ IsFiniteSet(Device) /\ NULL \notin Uproc \cup Device
  /\ NULL \notin Int /\ NULL \notin [client : Uproc, code : Int, word : Int]
  /\ Device = Disk \cup Flash \cup Locked
  /\ \A d \in Terminal : d[3] \in {"transm", "recv"} /\ Reg(d) \in Device
  /\ Request \subseteq [client : Uproc, dev : Device, op : {"put", "get"}, arg : Int]
  /\ {MAX_LEN, maxCyl, maxHead, maxSect, MAXBLOCK} \subseteq Nat \ {0}
  /\ maxCyl < 65536 /\ maxHead < 256 /\ maxSect < 256

VARIABLES
  sem, waiting,      \* deviceSemaphores, and the locks of the lines
  d_status,          \* the status registers
  buffer,            \* contents of the DMA buffers, which DATA0 is set to
  doing,             \* external: the command that a device carries out
  answer,            \* external: status of a raised interrupt, NULL if none
  pc, request, left, \* the driver: its call, the commands still to do
  got,               \* the status the SYS5 returned
  result,            \* what the last call of the U-proc returned
  done, failed,      \* history: its commands carried out, and if one failed,
  early,             \* if one was answered before the SYS5
  moved              \* history: the data it moved, and the block

sems == <<sem, waiting>>
device == <<d_status, doing, answer>>
driving == <<request, left, got, result>>
history == <<done, failed, early, moved>>
vars == <<sems, device, buffer, pc, driving, history>>

-----------------------------------------------------------------------------
\* sysWaitIO and handleDeviceInterrupt compute the index of a semaphore each in
\* its own way.  RECEIVE and TRANSMIT are one number, and a terminal's status is
\* 5 in the handler: both halves share one of the terminal's two semaphores.
WaitIndex(d) ==
  IF d[1] = TERMINT
  THEN 4 * DEVPERINT + d[2] * 2 + (IF d[3] = "transm" THEN TRANSMIT ELSE RECEIVE)
  ELSE (d[1] - 3) * DEVPERINT + d[2]

InterruptIndex_swapped(d, status) ==
  IF d[1] = TERMINT
  THEN 4 * DEVPERINT + d[2] * 2 + (IF status # 0 THEN 0 ELSE 1)
  ELSE (d[1] - 3) * DEVPERINT + d[2]

InterruptIndex(d, status) ==
  IF d[1] = TERMINT
  THEN 4 * DEVPERINT + d[2] * 2 + (IF status # 0 THEN 1 ELSE 0)
  ELSE (d[1] - 3) * DEVPERINT + d[2]

Io(n) == <<"io", n>>
Lock(d) == <<"lock", d>>
Index == UNION {{WaitIndex(d), InterruptIndex(d, 0), InterruptIndex(d, 1)} : d \in Device}
Sem == {Io(n) : n \in Index} \cup {Lock(d) : d \in Locked}   \* those in use

S == INSTANCE Semaphores WITH Process <- Uproc, client <- Uproc, Semaphore <- Sem

READY == 1
ERROR == 4
CHARDONE == 5
Status   == {READY, ERROR, CHARDONE}

\* The status of a command well done.
Good(d) == IF d \in Terminal THEN CHARDONE ELSE READY

\* The priorities of interrupts: the line, the number of the device, and of a
\* terminal the transmitter first.
Rank(d) == 100 * d[1] + 2 * d[2] + (IF d[1] = TERMINT /\ d[3] = "recv" THEN 1 ELSE 0)

Pending == {d \in Device : answer[d] # NULL}
getHighestPriorityDevice == {d \in Pending : \A e \in Pending : Rank(d) <= Rank(e)}

-----------------------------------------------------------------------------
\* The arithmetic of the block devices.  C truncates quotients towards zero.
Quotient(a, b) == IF a >= 0 THEN a \div b ELSE -((-a) \div b)
Rest(a, b) == a - b * Quotient(a, b)

CylOf(b)  == Quotient(b, maxHead * maxSect)
HeadOf(b) == Quotient(Rest(b, maxHead * maxSect), maxSect)

SectOf(b) == Rest(Rest(b, maxHead * maxSect), maxSect)

SEEKCYL == 2
READBLK == 2      \* const.h has one set of numbers for disks and flash devices
WRITEBLK == 3

Transfer(r) == IF r.op = "put" THEN WRITEBLK ELSE READBLK

\* The COMMAND word holds the code in 8 bits: 24 are left.
WORDS == 256 * 65536

\* The commands of a call, the last one first, as code and upper 24 bits of the
\* COMMAND word.  A disk call is a seek and a transfer.  (A negative sector also
\* sets bits 31-24, which no disk looks at.)
Command(r, n) ==
  CASE r.dev \in Disk /\ n = 2 ->
         [client |-> r.client, code |-> SEEKCYL, word |-> CylOf(r.arg) % WORDS]
    [] r.dev \in Disk /\ n = 1 ->
         [client |-> r.client, code |-> Transfer(r),
          word |-> (HeadOf(r.arg) % 256) * 65536 + (SectOf(r.arg) % 256) * 256]
    [] r.dev \in Flash -> [client |-> r.client, code |-> Transfer(r), word |-> r.arg % WORDS]
    [] OTHER -> [client |-> r.client, code |-> 2, word |-> 0]

Commands(r) ==
  CASE r.dev \in Disk -> {2} [] r.dev \in Flash -> {1}
    [] r.dev \in Locked /\ r.op = "put" -> {r.arg}
    [] OTHER -> 1 .. MAX_LEN      \* a line of input

\* The arguments that do not end the U-proc.  A negative block of a disk and any
\* block to write of a flash device are left to the device.
Valid(r) ==
  CASE r.dev \in Disk -> CylOf(r.arg) < maxCyl
    [] r.dev \in Flash -> r.op = "put" \/ r.arg \in 0 .. MAXBLOCK - 1
    [] r.dev \in Locked /\ r.op = "put" -> r.arg \in 1 .. MAX_LEN
    [] OTHER -> TRUE

Init ==
  /\ sem = [s \in Sem |-> IF s[1] = "lock" THEN 1 ELSE 0]
  /\ waiting = [s \in Sem |-> <<>>]
  /\ d_status = [d \in Device |-> READY]
  /\ doing = [d \in Device |-> NULL] /\ answer = [d \in Device |-> NULL]
  /\ buffer = [d \in Block |-> <<>>]
  /\ pc = [p \in Uproc |-> "user"]
  /\ request = [p \in Uproc |-> NULL] /\ left = [p \in Uproc |-> 0]
  /\ got = [p \in Uproc |-> READY] /\ result = [p \in Uproc |-> "none"]
  /\ done = [p \in Uproc |-> 0] /\ failed = [p \in Uproc |-> FALSE]
  /\ early = [p \in Uproc |-> FALSE]
  /\ moved = [p \in Uproc |-> <<>>]

At(p, label)   == pc[p] = label /\ S!Free(p)
Goto(p, label) == pc' = [pc EXCEPT ![p] = label]
dev(p)         == request[p].dev

-----------------------------------------------------------------------------
\* The U-proc's data goes to the DMA buffer, before the block is looked at.
Fill(r) ==
  buffer' = IF r.dev \in Block /\ r.op = "put" THEN [buffer EXCEPT ![r.dev] = <<r.client>>] ELSE buffer

\* An argument out of range ends the U-proc: supTerminate.
reject(p) ==
  /\ At(p, "user")
  /\ \E r \in Request : r.client = p /\ ~Valid(r) /\ Fill(r)
  /\ result' = [result EXCEPT ![p] = "none"]
  /\ Goto(p, "ended")
  /\ UNCHANGED <<sems, device, request, left, got, history>>

\* The DMA buffer is filled and its address goes to DATA0, or the line is locked.
call(p) ==
  /\ At(p, "user")
  /\ \E r \in Request :
       /\ r.client = p /\ Valid(r)
       /\ request' = [request EXCEPT ![p] = r]
       /\ \E n \in Commands(r) : left' = [left EXCEPT ![p] = n]
       /\ Fill(r)
       /\ \/ r.dev \in Locked /\ S!P(Lock(r.dev), p)
          \/ r.dev \in Block /\ UNCHANGED sems
  /\ done' = [done EXCEPT ![p] = 0]
  /\ failed' = [failed EXCEPT ![p] = FALSE]
  /\ early' = [early EXCEPT ![p] = FALSE]
  /\ result' = [result EXCEPT ![p] = "none"]
  /\ Goto(p, "command")
  /\ UNCHANGED <<device, got, moved>>

\* A busy device ignores the write to its COMMAND register.
Issue(p) ==
  doing' = [doing EXCEPT ![dev(p)] = IF @ = NULL THEN Command(request[p], left[p]) ELSE @]

\* SYS5.  A process that does not block is given the status register as it is
\* after the acknowledgement.
WaitIO(p) ==
  LET s == Io(WaitIndex(dev(p))) IN
  /\ S!P(s, p)
  /\ got' = [got EXCEPT ![p] = IF sem[s] > 0 THEN d_status[Reg(dev(p))] ELSE @]
  /\ early' = [early EXCEPT ![p] = @ \/ sem[s] > 0]

\* Printers and flash devices: command and SYS5 with interrupts off.
commandAndWait(p) ==
  /\ At(p, "command") /\ dev(p) \in Atomic
  /\ Issue(p)
  /\ WaitIO(p)
  /\ Goto(p, "check")
  /\ UNCHANGED <<d_status, answer, buffer, request, left, result, done, failed, moved>>

\* Terminals and disks: the command alone.
command(p) ==
  /\ At(p, "command") /\ dev(p) \notin Atomic
  /\ Issue(p)
  /\ Goto(p, "waitIO")
  /\ UNCHANGED <<sems, d_status, answer, buffer, driving, history>>

waitIO(p) ==
  /\ At(p, "waitIO")
  /\ WaitIO(p)
  /\ Goto(p, "check")
  /\ UNCHANGED <<device, buffer, request, left, result, done, failed, moved>>

\* The next command, or the end of the call: a block read is copied to the U-proc.
More(p) ==
  /\ left[p] > 1
  /\ Goto(p, "command")
  /\ UNCHANGED <<result, moved>>

Succeed(p) ==
  /\ result' = [result EXCEPT ![p] = "success"]
  /\ moved' = IF dev(p) \in Block /\ request[p].op = "get"
              THEN [moved EXCEPT ![p] = buffer[dev(p)]]
              ELSE moved
  /\ Goto(p, "done")

checkGood_lastOnly(p) ==
  /\ At(p, "check") /\ (got[p] = Good(dev(p)) \/ left[p] > 1)
  /\ left' = [left EXCEPT ![p] = @ - 1]
  /\ More(p) \/ (left[p] = 1 /\ Succeed(p))
  /\ UNCHANGED <<sems, device, buffer, request, got, done, failed, early>>

checkGood(p) ==
  /\ At(p, "check") /\ got[p] = Good(dev(p))
  /\ left' = [left EXCEPT ![p] = @ - 1]
  /\ More(p) \/ (left[p] = 1 /\ Succeed(p))
  /\ UNCHANGED <<sems, device, buffer, request, got, done, failed, early>>

\* A failed seek ends the U-proc, any other failure the call.
checkBad(p) ==
  /\ At(p, "check") /\ got[p] # Good(dev(p))
  /\ result' = [result EXCEPT ![p] = "error"]
  /\ Goto(p, IF dev(p) \in Disk /\ left[p] = 2 THEN "ended" ELSE "done")
  /\ UNCHANGED <<sems, device, buffer, request, left, got, history>>

return_locked(p) ==
  /\ At(p, "done")
  /\ UNCHANGED sems
  /\ request' = [request EXCEPT ![p] = NULL]
  /\ left' = [left EXCEPT ![p] = 0]
  /\ got' = [got EXCEPT ![p] = READY]
  /\ early' = [early EXCEPT ![p] = FALSE]
  /\ moved' = [moved EXCEPT ![p] = <<>>]
  /\ Goto(p, "user")
  /\ UNCHANGED <<device, buffer, result, done, failed>>

\* The lock is released and the U-proc resumed.
return(p) ==
  /\ At(p, "done")
  /\ \/ dev(p) \in Locked /\ S!V(Lock(dev(p)))
     \/ dev(p) \notin Locked /\ UNCHANGED sems
  /\ request' = [request EXCEPT ![p] = NULL]
  /\ left' = [left EXCEPT ![p] = 0]
  /\ got' = [got EXCEPT ![p] = READY]
  /\ early' = [early EXCEPT ![p] = FALSE]
  /\ moved' = [moved EXCEPT ![p] = <<>>]
  /\ Goto(p, "user")
  /\ UNCHANGED <<device, buffer, result, done, failed>>

-----------------------------------------------------------------------------
\* External: what a device makes of its command.  A disk takes 2 for a seek, what
\* is meant as a read too, and 3 for a read, what is meant as a write; it has the
\* cylinder in bits 23-8, the head in bits 23-16, the sector in bits 15-8.
DISKREAD == 3

Legal(d, c) ==
  CASE d \in Flash -> c.word < MAXBLOCK
    [] d \in Disk /\ c.code = SEEKCYL -> c.word % 65536 < maxCyl
    [] d \in Disk /\ c.code = DISKREAD -> (c.word \div 256) % 256 < maxHead /\ c.word % 256 < maxSect
    [] OTHER -> TRUE

\* Where the arm of a disk is matters to no property, nor which sector it reads.
Seek(d, c) == d \in Disk /\ c.code = SEEKCYL /\ UNCHANGED <<buffer, moved>>

Read(d, c) ==
  /\ \/ d \in Disk /\ c.code = DISKREAD /\ buffer' = [buffer EXCEPT ![d] = <<d>>]
     \/ d \in Flash /\ c.code = READBLK /\ buffer' = [buffer EXCEPT ![d] = <<d, c.word>>]
  /\ UNCHANGED moved

Write(d, c) ==
  /\ d \in Flash /\ c.code = WRITEBLK
  /\ moved' = [moved EXCEPT ![c.client] = buffer[d] \o <<c.word>>]
  /\ UNCHANGED buffer

Character(d) == d \in Locked /\ UNCHANGED <<buffer, moved>>

Answer(d, s) ==
  /\ answer' = [answer EXCEPT ![d] = s]
  /\ d_status' = [d_status EXCEPT ![d] = s]
  /\ done' = [done EXCEPT ![doing[d].client] = @ + 1]
  /\ failed' = [failed EXCEPT ![doing[d].client] = @ \/ s = ERROR]
  /\ doing' = [doing EXCEPT ![d] = NULL]
  /\ UNCHANGED <<sems, pc, driving, early>>

Busy(d) == doing[d] # NULL /\ answer[d] = NULL

\* External: the device completes its command, well or not.  A terminal that
\* reports an error is outside this model: the handler then acknowledges
\* nothing and reads an uninitialized status (interrupts.c:138-154).
completeWell(d) ==
  /\ Busy(d) /\ Legal(d, doing[d])
  /\ Seek(d, doing[d]) \/ Read(d, doing[d]) \/ Write(d, doing[d]) \/ Character(d)
  /\ Answer(d, Good(d))

completeBadly(d) ==
  /\ Busy(d) /\ d \notin Terminal
  /\ Answer(d, ERROR)
  /\ UNCHANGED <<buffer, moved>>

\* handleDeviceInterrupt saves the status, acknowledges, and wakes the first
\* waiter with the status saved.
Acknowledge(d) ==
  /\ d_status' = [d_status EXCEPT ![d] = READY]
  /\ answer' = [answer EXCEPT ![d] = NULL]
  /\ UNCHANGED <<doing, buffer, pc, request, left, result, history>>

Woken(d) == LET s == Io(InterruptIndex(d, answer[d])) IN {p \in Uproc : waiting[s] # <<>> /\ p = Head(waiting[s])}

interrupt_lateStatus(d) ==
  /\ d \in getHighestPriorityDevice
  /\ S!V(Io(InterruptIndex(d, answer[d])))
  /\ got' = [p \in Uproc |-> IF p \in Woken(d) THEN READY ELSE got[p]]
  /\ Acknowledge(d)

interrupt_noV(d) ==
  /\ d \in getHighestPriorityDevice
  /\ UNCHANGED <<sems, got>>
  /\ Acknowledge(d)

interrupt(d) ==
  /\ d \in getHighestPriorityDevice
  /\ S!V(Io(InterruptIndex(d, answer[d])))
  /\ got' = [p \in Uproc |-> IF p \in Woken(d) THEN answer[d] ELSE got[p]]
  /\ Acknowledge(d)

-----------------------------------------------------------------------------
driver(p) ==
  commandAndWait(p) \/ command(p) \/ waitIO(p) \/ checkGood(p) \/ checkBad(p) \/ return(p)

complete(d) == completeWell(d) \/ completeBadly(d)

Next ==
  \/ \E p \in Uproc : call(p) \/ reject(p) \/ driver(p)
  \/ \E d \in Device : complete(d) \/ interrupt(d)

Spec == Init /\ [][Next]_vars

\* Ready processes run (ReadyRuns of Nucleus) and devices answer.  A raised
\* interrupt stays raised, and the processor takes all that are before it runs a
\* process again: one of low priority is taken in the end.
Fairness ==
  /\ \A p \in Uproc : WF_vars(driver(p))
  /\ \A d \in Device : WF_vars(complete(d)) /\ SF_vars(interrupt(d))

FairSpec == Spec /\ Fairness

-----------------------------------------------------------------------------
\* Types of the registers, of the buffers and of the drivers' locals.
TypeOK ==
  /\ d_status \in [Device -> Status] /\ answer \in [Device -> Status \cup {NULL}]
  /\ \A d \in Device : doing[d] = NULL \/ doing[d].client \in Uproc
  /\ request \in [Uproc -> Request \cup {NULL}] /\ left \in [Uproc -> 0 .. MAX_LEN + 2]
  /\ got \in [Uproc -> Status]

\* Interrupts still to be answered by a SYS5 on semaphore n.
Answers(n) ==
  sem[Io(n)]
    + Cardinality({d \in Device : WaitIndex(d) = n /\ (doing[d] # NULL \/ answer[d] # NULL)})

\* Where each line has one U-proc, commands, interrupts and SYS5 pair up: the
\* interrupt that the line owes or its semaphore keeps belongs to a driver that
\* has yet to do its SYS5; one that already waits has made the count even.  The
\* handler and sysWaitIO agree on the semaphore.
InterruptsPairUp ==
  /\ TypeOK
  /\ \A n \in {WaitIndex(d) : d \in Device} :
       Answers(n) = Cardinality({p \in Uproc : pc[p] = "waitIO" /\ WaitIndex(dev(p)) = n})

\* The U-proc's data is in the block of the flash device that was asked for, or the
\* block's in its memory, if the COMMAND word can name the block.
Moved(p) ==
  LET r == request[p] IN
  r.dev \in Flash /\ r.arg \in 0 .. WORDS - 1 =>
    moved[p] = IF r.op = "put" THEN <<p, r.arg>> ELSE <<r.dev, r.arg>>

Promise(p) ==
  /\ result[p] = "success" => ~failed[p] /\ left[p] = 0 /\ Moved(p)
  /\ result[p] = "error" => failed[p]
  /\ done[p] >= 1

\* What a driver returns is true, unless the device answered before the SYS5:
\* success means that the device did every command, that none failed and, of a
\* flash device, that the data is where it was asked for; an error that one
\* failed.  A printer or a flash device never answers before the SYS5.  (What a
\* disk moves is not what was asked for, whatever it reports.)
TrueResult ==
  \A p \in Uproc : pc[p] = "done" =>
    /\ early[p] => dev(p) \notin Atomic
    /\ early[p] \/ Promise(p)

\* The same promise for every device, whoever uses it and whenever it answers.
PromiseKept ==
  \A p \in Uproc : pc[p] = "done" => Promise(p)

\* A call returns, or its U-proc is ended: no interrupt is lost between the
\* command and the SYS5, and no lock is kept.
Returns ==
  \A p \in Uproc : pc[p] # "user" ~> pc[p] \in {"user", "ended"}
=============================================================================
