--------------------------- MODULE DriversProofs ----------------------------
(***************************************************************************)
(* Proofs about module Drivers, for any devices, U-procs, strings and disk *)
(* geometry: where each line has one U-proc, commands, interrupts and SYS5 *)
(* pair up, and what a driver returns is true.                             *)
(***************************************************************************)
EXTENDS Drivers, ListLemmas

\* What the lines have to be shared by: of two requests for one semaphore, the
\* client is the same.  Printers and terminals of a U-proc are its own; it holds
\* for the disks and flash devices when the U-procs agree on it.
OneClient ==
  \A r, q \in Request : WaitIndex(r.dev) = WaitIndex(q.dev) => r.client = q.client

Running == {"command", "waitIO", "check", "done"}
Label   == Running \cup {"user", "ended"}

CommandWord == [client : Uproc, code : Int, word : Int]

Types ==
  /\ TypeOK
  /\ sem \in [Sem -> Int] /\ waiting \in [Sem -> Seq(Uproc)]
  /\ pc \in [Uproc -> Label]
  /\ failed \in [Uproc -> BOOLEAN] /\ early \in [Uproc -> BOOLEAN] /\ done \in [Uproc -> Nat]
  /\ DOMAIN result = Uproc /\ DOMAIN moved = Uproc /\ DOMAIN buffer = Block
  /\ DOMAIN doing = Device

RequestInv ==
  \A p \in Uproc : pc[p] \in Running =>
    request[p] \in Request /\ request[p].client = p /\ Valid(request[p])

Outstanding(d) == doing[d] # NULL \/ answer[d] # NULL
Owner(p, d)    == pc[p] \in {"waitIO", "check"} /\ dev(p) = d

\* A device that carries out a command or has answered it owes the answer to the
\* driver that commanded it.
DeviceInv(d) ==
  /\ doing[d] = NULL \/ answer[d] = NULL
  /\ answer[d] = NULL => d_status[d] = READY
  /\ doing[d] # NULL => doing[d] \in CommandWord
  /\ answer[d] # NULL => answer[d] \in {Good(d), ERROR}
  /\ Outstanding(d) => \E p \in Uproc : Owner(p, d)
  /\ \A p \in Uproc : Owner(p, d) /\ doing[d] # NULL => doing[d] = Command(request[p], left[p])

Quiet(n) == sem[Io(n)] = 0 /\ waiting[Io(n)] = <<>>

LineInv ==
  \A n \in {WaitIndex(d) : d \in Device} :
    (\A p \in Uproc : pc[p] \in {"waitIO", "check"} => WaitIndex(dev(p)) # n) => Quiet(n)

PairInv(p) ==
  LET n == WaitIndex(dev(p)) IN
  /\ pc[p] = "waitIO" =>
       /\ waiting[Io(n)] = <<>>
       /\ \/ sem[Io(n)] = 0 /\ Outstanding(dev(p))
          \/ sem[Io(n)] = 1 /\ ~Outstanding(dev(p))
  /\ pc[p] = "check" =>
       \/ sem[Io(n)] = -1 /\ waiting[Io(n)] = <<p>> /\ Outstanding(dev(p))
       \/ Quiet(n) /\ ~Outstanding(dev(p))

\* What a command of a flash device well done has left behind.
Effect(p) ==
  LET r == request[p] IN
  r.dev \in Flash /\ r.arg \in 0 .. WORDS - 1 =>
    IF r.op = "put" THEN moved[p] = <<p, r.arg>> ELSE buffer[r.dev] = <<r.dev, r.arg>>

CallInv(p) ==
  LET d == dev(p) IN
  /\ left[p] >= 1
  /\ d \in Disk => left[p] \in {1, 2}
  /\ d \in Flash => left[p] = 1
  /\ d \in Flash /\ request[p].op = "put" => buffer[d] = <<p>>
  /\ pc[p] = "command" \/ doing[d] # NULL => early[p] \/ ~failed[p]
  /\ pc[p] # "command" /\ doing[d] = NULL => done[p] >= 1 /\ (~failed[p] => Effect(p))

GotInv(p) ==
  LET d == dev(p) IN
  /\ answer[d] # NULL => (answer[d] # Good(d) => failed[p]) /\ (answer[d] = Good(d) => early[p] \/ ~failed[p])
  /\ pc[p] = "check" /\ ~Outstanding(d) =>
       /\ got[p] # Good(d) => failed[p] \/ (early[p] /\ d \in Terminal)
       /\ got[p] = Good(d) => early[p] \/ ~failed[p]

ReturnInv(p) == early[p] \/ Promise(p)

DriverInv(p) ==
  /\ pc[p] \in Running /\ early[p] => dev(p) \notin Atomic
  /\ pc[p] \in {"waitIO", "check"} => PairInv(p) /\ GotInv(p)
  /\ pc[p] \in {"command", "waitIO", "check"} => CallInv(p)
  /\ pc[p] = "waitIO" => dev(p) \notin Atomic
  /\ pc[p] = "done" => ReturnInv(p)

DInv ==
  /\ Types /\ RequestInv /\ LineInv
  /\ \A d \in Device : DeviceInv(d)
  /\ \A p \in Uproc : DriverInv(p)

-----------------------------------------------------------------------------
(* The arithmetic of the block devices. *)

LEMMA QuotientType ==
  ASSUME NEW b \in Int, NEW n \in Nat \ {0}
  PROVE  Quotient(b, n) \in Int /\ Rest(b, n) \in Int
<1>1. \A a \in Nat : a \div n \in Nat
  OBVIOUS
<1>2. Quotient(b, n) \in Int
  BY <1>1 DEF Quotient
<1>. QED  BY <1>2 DEF Rest

LEMMA WordsType == WORDS \in Nat \ {0}
  BY DEF WORDS

\* A number that the COMMAND word has room for is sent as it is.
LEMMA SmallRest ==
  ASSUME NEW n \in Nat \ {0}, NEW i \in 0 .. n - 1
  PROVE  i % n = i
  OBVIOUS

\* Whatever the number of the block, what is sent of it is a number.
LEMMA WordType ==
  ASSUME NEW b \in Int
  PROVE  /\ CylOf(b) % WORDS \in Int /\ b % WORDS \in Int
         /\ (HeadOf(b) % 256) * 65536 + (SectOf(b) % 256) * 256 \in Int
<1>1. maxHead \in Nat \ {0} /\ maxSect \in Nat \ {0}
  BY DriversAssumption
<1>2. PICK n \in Nat \ {0} : n = maxHead * maxSect
  BY <1>1
<1>3. CylOf(b) \in Int /\ Rest(b, n) \in Int
  BY <1>2, QuotientType DEF CylOf
<1>4. HeadOf(b) \in Int /\ SectOf(b) \in Int
  BY <1>1, <1>2, <1>3, QuotientType DEF HeadOf, SectOf
<1>5. \A i \in Int : i % WORDS \in Int /\ i % 256 \in Int
  BY WordsType
<1>6. \A h \in Int, s \in Int : h * 65536 + s * 256 \in Int
  OBVIOUS
<1>. QED  BY <1>3, <1>4, <1>5, <1>6

-----------------------------------------------------------------------------
(* The semaphores of the lines. *)

\* The handler and sysWaitIO agree on the semaphore of a device, and it is not
\* the semaphore of another index nor a lock.
LEMMA LineSemaphores ==
  /\ \A d \in Device, s \in Status : InterruptIndex(d, s) = WaitIndex(d)
  /\ \A d \in Device : Io(WaitIndex(d)) \in Sem
  /\ \A m, n : Io(m) = Io(n) => m = n
  /\ \A n, d : Io(n) # Lock(d)
  /\ \A d \in Locked : Lock(d) \in Sem
<1>1. \A d \in Device, s \in Status : InterruptIndex(d, s) = WaitIndex(d)
  BY DriversAssumption DEF InterruptIndex, WaitIndex, Status, READY, ERROR, CHARDONE, TRANSMIT, RECEIVE, Terminal
<1>2. \A d \in Device : Io(WaitIndex(d)) \in Sem
  BY DEF Sem, Index
<1>3. \A m, n : Io(m) = Io(n) => m = n
  BY DEF Io
<1>4. \A n, d : Io(n) # Lock(d)
  BY DEF Io, Lock
<1>5. \A d \in Locked : Lock(d) \in Sem
  BY DEF Sem
<1>. QED  BY <1>1, <1>2, <1>3, <1>4, <1>5

LEMMA Kinds ==
  /\ Disk \subseteq Device /\ Flash \subseteq Device /\ Locked \subseteq Device
  /\ Disk \cap Flash = {} /\ Disk \cap Locked = {} /\ Flash \cap Locked = {}
  /\ Disk \cap Atomic = {} /\ Terminal \cap Atomic = {} /\ Flash \subseteq Atomic
  /\ Block = Disk \cup Flash /\ Terminal \subseteq Locked /\ Device = Block \cup Locked
  /\ \A d \in Device : Good(d) \in Status /\ Good(d) # ERROR /\ (d \notin Terminal => Good(d) = READY)
  BY DriversAssumption DEF Disk, Flash, Printer, Terminal, Locked, Block, Atomic, Good, Status,
     DISKINT, FLASHINT, PRNTINT, TERMINT, READY, ERROR, CHARDONE

LEMMA CommandIsWord ==
  ASSUME NEW r \in Request, NEW n
  PROVE  Command(r, n) \in CommandWord /\ Command(r, n) # NULL /\ Command(r, n).client = r.client
<1>1. r.client \in Uproc /\ r.arg \in Int
  BY DriversAssumption
<1>2. Transfer(r) \in Int
  BY DEF Transfer, WRITEBLK, READBLK
<1>3. Command(r, n) \in CommandWord /\ Command(r, n).client = r.client
  <2>1. CASE r.dev \in Disk /\ n = 2
    <3>1. Command(r, n) = [client |-> r.client, code |-> SEEKCYL, word |-> CylOf(r.arg) % WORDS]
      BY <2>1, Kinds DEF Command
    <3>. QED  BY <1>1, <3>1, WordType DEF CommandWord, SEEKCYL
  <2>2. CASE r.dev \in Disk /\ n = 1
    <3>1. Command(r, n) = [client |-> r.client, code |-> Transfer(r),
                           word |-> (HeadOf(r.arg) % 256) * 65536 + (SectOf(r.arg) % 256) * 256]
      BY <2>2, Kinds DEF Command
    <3>. QED  BY <1>1, <1>2, <3>1, WordType DEF CommandWord
  <2>3. CASE r.dev \in Flash
    <3>1. Command(r, n) = [client |-> r.client, code |-> Transfer(r), word |-> r.arg % WORDS]
      BY <2>3, Kinds DEF Command
    <3>. QED  BY <1>1, <1>2, <3>1, WordType DEF CommandWord
  <2>4. CASE r.dev \notin Flash /\ ~(r.dev \in Disk /\ n \in {1, 2})
    BY <1>1, <2>4 DEF Command, CommandWord
  <2>. QED  BY <2>1, <2>2, <2>3, <2>4
<1>. QED  BY <1>3, DriversAssumption DEF CommandWord

\* What the requests allow a driver to be at work on.
LEMMA RequestFacts ==
  ASSUME NEW r \in Request
  PROVE  r.client \in Uproc /\ r.dev \in Device /\ r.op \in {"put", "get"} /\ r.arg \in Int
  BY DriversAssumption

\* Two drivers are never at work on one line.
LEMMA LineOwner ==
  ASSUME OneClient, RequestInv, NEW p \in Uproc, NEW q \in Uproc,
         pc[p] \in Running, pc[q] \in Running, WaitIndex(dev(p)) = WaitIndex(dev(q))
  PROVE  p = q
  BY DEF OneClient, RequestInv, dev

-----------------------------------------------------------------------------
(* What a step leaves alone. *)

\* A step of driver p or of device d, where p alone is at work on d's line.
Frame(p, d) ==
  /\ \A q \in Uproc \ {p} :
       /\ pc'[q] = pc[q] /\ request'[q] = request[q] /\ left'[q] = left[q] /\ got'[q] = got[q]
       /\ result'[q] = result[q] /\ done'[q] = done[q] /\ failed'[q] = failed[q]
       /\ early'[q] = early[q] /\ moved'[q] = moved[q]
  /\ \A e \in Device \ {d} :
       /\ doing'[e] = doing[e] /\ answer'[e] = answer[e] /\ d_status'[e] = d_status[e]
       /\ e \in Block => buffer'[e] = buffer[e]
  /\ \A e \in Device : WaitIndex(e) # WaitIndex(d) =>
       LET s == Io(WaitIndex(e)) IN sem'[s] = sem[s] /\ waiting'[s] = waiting[s]

Alone(p, d) ==
  \A q \in Uproc \ {p} : pc[q] \in Running => WaitIndex(dev(q)) # WaitIndex(d)

\* A driver that a step leaves alone keeps what holds of it.
LEMMA DriverFrame ==
  ASSUME NEW q \in Uproc, DriverInv(q), pc'[q] = pc[q],
         NEW d, pc[q] \in Running => d = dev(q),
         pc[q] \in Running =>
           /\ request'[q] = request[q] /\ left'[q] = left[q] /\ got'[q] = got[q]
           /\ result'[q] = result[q] /\ done'[q] = done[q] /\ failed'[q] = failed[q]
           /\ early'[q] = early[q] /\ moved'[q] = moved[q]
           /\ doing'[d] = doing[d] /\ answer'[d] = answer[d]
           /\ d \in Block => buffer'[d] = buffer[d]
           /\ sem'[Io(WaitIndex(d))] = sem[Io(WaitIndex(d))]
           /\ waiting'[Io(WaitIndex(d))] = waiting[Io(WaitIndex(d))]
  PROVE  DriverInv(q)'
<1>1. CASE pc[q] \notin Running
  BY <1>1 DEF DriverInv, Running
<1>2. CASE pc[q] \in Running
  <2>1. /\ dev(q)' = dev(q) /\ Moved(q)' = Moved(q)
        /\ Outstanding(dev(q))' = Outstanding(dev(q))
    BY <1>2 DEF dev, Moved, Outstanding
  <2>2. PairInv(q) => PairInv(q)'
    BY <1>2, <2>1 DEF PairInv, Quiet, dev
  <2>3. GotInv(q) => GotInv(q)'
    BY <1>2, <2>1 DEF GotInv, dev
  <2>4. Effect(q) => Effect(q)'
    BY <1>2, Kinds DEF Effect, dev
  <2>5. CallInv(q) => CallInv(q)'
    BY <1>2, <2>4, Kinds DEF CallInv, dev
  <2>6. ReturnInv(q) => ReturnInv(q)'
    BY <1>2, <2>1 DEF ReturnInv, Promise
  <2>. QED  BY <1>2, <2>1, <2>2, <2>3, <2>5, <2>6 DEF DriverInv
<1>. QED  BY <1>1, <1>2

LEMMA DeviceFrame ==
  ASSUME NEW e \in Device, DeviceInv(e),
         doing'[e] = doing[e], answer'[e] = answer[e], d_status'[e] = d_status[e],
         \A q \in Uproc : Owner(q, e)' <=> Owner(q, e),
         \A q \in Uproc : Owner(q, e) => request'[q] = request[q] /\ left'[q] = left[q]
  PROVE  DeviceInv(e)'
<1>1. Outstanding(e)' <=> Outstanding(e)
  BY DEF Outstanding
<1>2. Outstanding(e)' => \E q \in Uproc : Owner(q, e)'
  BY <1>1 DEF DeviceInv
<1>. QED  BY <1>1, <1>2 DEF DeviceInv

\* Of a step, what there is to show: the driver, the device and the line it is about.
LEMMA StepFrame ==
  ASSUME DInv, Types', NEW p \in Uproc, NEW d \in Device, Alone(p, d), Frame(p, d),
         pc[p] \in Running => dev(p) = d,
         pc'[p] \in Running =>
           request'[p] \in Request /\ request'[p].client = p /\ Valid(request'[p]) /\ request'[p].dev = d,
         DriverInv(p)', DeviceInv(d)',
         pc'[p] \in {"waitIO", "check"} \/ Quiet(WaitIndex(d))'
  PROVE  DInv'
<1>1. \A q \in Uproc : pc[q] \in Running => dev(q) \in Device
  BY RequestFacts DEF DInv, RequestInv, dev
<1>2. ASSUME NEW q \in Uproc \ {p}
      PROVE  DriverInv(q)'
  <2>1. DriverInv(q) /\ pc'[q] = pc[q]
    BY DEF DInv, Frame
  <2>2. PICK e : e = dev(q)
    OBVIOUS
  <2>3. pc[q] \in Running => e \in Device /\ e # d /\ WaitIndex(e) # WaitIndex(d)
    BY <1>1, <2>2 DEF Alone
  <2>. QED  BY <2>1, <2>2, <2>3, DriverFrame DEF Frame
<1>3. ASSUME NEW e \in Device \ {d}
      PROVE  DeviceInv(e)'
  <2>1. \A q \in Uproc \ {p} : Owner(q, e)' <=> Owner(q, e)
    BY DEF Owner, dev, Frame
  <2>2. ~Owner(p, e) /\ ~Owner(p, e)'
    BY DEF Owner, dev, Running
  <2>. QED  BY <2>1, <2>2, DeviceFrame DEF DInv, Frame
<1>4. RequestInv'
  BY DEF DInv, RequestInv, Frame
<1>5. LineInv'
  <2>1. SUFFICES ASSUME NEW e \in Device,
                        \A q \in Uproc : pc'[q] \in {"waitIO", "check"} => WaitIndex(dev(q)') # WaitIndex(e)
                 PROVE  Quiet(WaitIndex(e))'
    BY DEF LineInv
  <2>2. CASE WaitIndex(e) = WaitIndex(d)
    <3>1. pc'[p] \notin {"waitIO", "check"}
      BY <2>1, <2>2 DEF dev, Running
    <3>. QED  BY <2>2, <3>1
  <2>3. CASE WaitIndex(e) # WaitIndex(d)
    <3>1. \A q \in Uproc \ {p} : pc[q] \in {"waitIO", "check"} => WaitIndex(dev(q)) # WaitIndex(e)
      BY <2>1 DEF dev, Frame
    <3>2. pc[p] \in {"waitIO", "check"} => WaitIndex(dev(p)) # WaitIndex(e)
      BY <2>3 DEF Running
    <3>3. Quiet(WaitIndex(e))
      BY <3>1, <3>2 DEF DInv, LineInv
    <3>. QED  BY <2>3, <3>3 DEF Quiet, Frame
  <2>. QED  BY <2>2, <2>3
<1>. QED  BY <1>2, <1>3, <1>4, <1>5 DEF DInv

LEMMA AtWork ==
  ASSUME OneClient, DInv, NEW p \in Uproc, pc[p] \in Running
  PROVE  /\ request[p] \in Request /\ request[p].client = p /\ Valid(request[p])
         /\ dev(p) \in Device /\ dev(p) = request[p].dev /\ Alone(p, dev(p))
<1>1. request[p] \in Request /\ request[p].client = p /\ Valid(request[p])
  BY DEF DInv, RequestInv
<1>2. dev(p) \in Device /\ dev(p) = request[p].dev
  BY <1>1, RequestFacts DEF dev
<1>3. Alone(p, dev(p))
  BY LineOwner DEF Alone, DInv
<1>. QED  BY <1>1, <1>2, <1>3

LEMMA NotYet ==
  ASSUME OneClient, DInv, NEW p \in Uproc, pc[p] \notin Running, NEW r \in Request, r.client = p
  PROVE  Alone(p, r.dev)
  BY DEF OneClient, Alone, DInv, RequestInv, dev

\* A line is quiet while its driver neither waits nor is about to.
LEMMA LineQuiet ==
  ASSUME DInv, NEW p \in Uproc, NEW d \in Device, Alone(p, d), pc[p] \notin {"waitIO", "check"}
  PROVE  Quiet(WaitIndex(d)) /\ ~Outstanding(d)
<1>1. \A q \in Uproc : pc[q] \in {"waitIO", "check"} => WaitIndex(dev(q)) # WaitIndex(d)
  BY DEF Alone, Running
<1>2. Quiet(WaitIndex(d))
  BY <1>1 DEF DInv, LineInv
<1>3. \A q \in Uproc : ~Owner(q, d)
  BY <1>1 DEF Owner
<1>. QED  BY <1>2, <1>3 DEF DInv, DeviceInv

\* The device of a driver: what it owes, it owes to that driver.
LEMMA OwnerIs ==
  ASSUME DInv, NEW p \in Uproc, NEW d \in Device, Alone(p, d), NEW q \in Uproc, Owner(q, d)
  PROVE  q = p
  BY DEF Alone, Owner, Running

LEMMA PEffect ==
  ASSUME Types, NEW s \in Sem, NEW p \in Uproc, S!P(s, p)
  PROVE  /\ sem' \in [Sem -> Int] /\ waiting' \in [Sem -> Seq(Uproc)]
         /\ sem'[s] = sem[s] - 1
         /\ sem[s] > 0 => waiting'[s] = waiting[s]
         /\ ~(sem[s] > 0) => waiting'[s] = Append(waiting[s], p)
         /\ \A t \in Sem \ {s} : sem'[t] = sem[t] /\ waiting'[t] = waiting[t]
<1>1. sem \in [Sem -> Int] /\ waiting \in [Sem -> Seq(Uproc)]
  BY DEF Types
<1>2. sem' = [sem EXCEPT ![s] = sem[s] - 1]
  BY DEF S!P
<1>3. waiting' = [waiting EXCEPT ![s] = IF sem[s] > 0 THEN waiting[s] ELSE Append(waiting[s], p)]
  BY DEF S!P
<1>4. waiting[s] \in Seq(Uproc) /\ Append(waiting[s], p) \in Seq(Uproc)
  BY <1>1
<1>5. sem' \in [Sem -> Int] /\ sem'[s] = sem[s] - 1
  BY <1>1, <1>2
<1>6. waiting' \in [Sem -> Seq(Uproc)]
  BY <1>1, <1>3, <1>4
<1>. QED  BY <1>1, <1>2, <1>3, <1>5, <1>6

LEMMA VEffect ==
  ASSUME Types, NEW s \in Sem, S!V(s)
  PROVE  /\ sem' \in [Sem -> Int] /\ waiting' \in [Sem -> Seq(Uproc)]
         /\ sem'[s] = sem[s] + 1
         /\ waiting[s] = <<>> => waiting'[s] = <<>>
         /\ waiting[s] # <<>> => waiting'[s] = Tail(waiting[s])
         /\ \A t \in Sem \ {s} : sem'[t] = sem[t] /\ waiting'[t] = waiting[t]
<1>1. sem \in [Sem -> Int] /\ waiting \in [Sem -> Seq(Uproc)]
  BY DEF Types
<1>2. sem' = [sem EXCEPT ![s] = sem[s] + 1]
  BY DEF S!V
<1>3. waiting' = [waiting EXCEPT ![s] = IF waiting[s] = <<>> THEN waiting[s] ELSE Tail(waiting[s])]
  BY DEF S!V
<1>4. waiting[s] \in Seq(Uproc) /\ (waiting[s] # <<>> => Tail(waiting[s]) \in Seq(Uproc))
  BY <1>1
<1>5. sem' \in [Sem -> Int] /\ sem'[s] = sem[s] + 1
  BY <1>1, <1>2
<1>6. waiting' \in [Sem -> Seq(Uproc)]
  BY <1>1, <1>3, <1>4
<1>. QED  BY <1>1, <1>2, <1>3, <1>5, <1>6

\* Filling the DMA buffer touches no other one.
LEMMA FillEffect ==
  ASSUME Types, NEW r, Fill(r)
  PROVE  /\ DOMAIN buffer' = Block
         /\ \A e \in Block \ {r.dev} : buffer'[e] = buffer[e]
         /\ r.dev \in Block /\ r.op = "put" => buffer'[r.dev] = <<r.client>>
<1>1. DOMAIN buffer = Block
  BY DEF Types
<1>2. CASE r.dev \in Block /\ r.op = "put"
  BY <1>1, <1>2 DEF Fill
<1>3. CASE ~(r.dev \in Block /\ r.op = "put")
  BY <1>1, <1>3 DEF Fill
<1>. QED  BY <1>2, <1>3

\* A process that is free is in no queue.
LEMMA FreeIs ==
  ASSUME NEW p, NEW s \in Sem, S!Free(p)
  PROVE  waiting[s] # <<p>>
  BY DEF S!Free, S!ToSet

LEMMA SingleQueue ==
  ASSUME NEW p
  PROVE  Append(<<>>, p) = <<p>> /\ Tail(<<p>>) = <<>> /\ Head(<<p>>) = p /\ <<p>> # <<>>
  OBVIOUS

-----------------------------------------------------------------------------
(* The steps of the drivers. *)

LEMMA StepReject ==
  ASSUME OneClient, DInv, NEW p \in Uproc, reject(p)
  PROVE  DInv'
<1>1. PICK r \in Request : r.client = p /\ Fill(r)
  BY DEF reject
<1>2. pc[p] = "user" /\ pc' = [pc EXCEPT ![p] = "ended"]
  BY DEF reject, At, Goto
<1>3. Alone(p, r.dev) /\ r.dev \in Device
  BY <1>1, <1>2, NotYet, RequestFacts DEF Running
<1>a. Types
  BY DEF DInv
<1>b. DOMAIN buffer' = Block /\ \A e \in Block \ {r.dev} : buffer'[e] = buffer[e]
  BY <1>1, <1>a, FillEffect
<1>4. Types'
  BY <1>2, <1>b DEF DInv, Types, TypeOK, reject, sems, device, history, Label, Running
<1>5. pc'[p] = "ended" /\ \A q \in Uproc \ {p} : pc'[q] = pc[q]
  BY <1>2 DEF DInv, Types
<1>6. Frame(p, r.dev)
  BY <1>5, <1>b DEF reject, Frame, sems, device, history, DInv, Types
<1>7. DriverInv(p)'
  BY <1>5 DEF DriverInv, Running
<1>8. Quiet(WaitIndex(r.dev)) /\ ~Outstanding(r.dev)
  BY <1>2, <1>3, LineQuiet
<1>9. Quiet(WaitIndex(r.dev))'
  BY <1>8 DEF Quiet, reject, sems
<1>10. DeviceInv(r.dev)'
  <2>1. \A q \in Uproc : Owner(q, r.dev)' <=> Owner(q, r.dev)
    BY <1>2, <1>5 DEF Owner, dev, reject
  <2>. QED  BY <1>3, <2>1, DeviceFrame DEF DInv, reject, device
<1>. QED  BY <1>2, <1>3, <1>4, <1>5, <1>6, <1>7, <1>9, <1>10, StepFrame DEF Running

LEMMA StepCall ==
  ASSUME OneClient, DInv, NEW p \in Uproc, call(p)
  PROVE  DInv'
<1>1. PICK r \in Request :
        /\ r.client = p /\ Valid(r)
        /\ request' = [request EXCEPT ![p] = r]
        /\ \E n \in Commands(r) : left' = [left EXCEPT ![p] = n]
        /\ Fill(r)
        /\ \/ r.dev \in Locked /\ S!P(Lock(r.dev), p)
           \/ r.dev \in Block /\ UNCHANGED sems
  BY DEF call
<1>a. PICK n \in Commands(r) : left' = [left EXCEPT ![p] = n]
  BY <1>1
<1>2. PICK d \in Device : d = r.dev
  BY RequestFacts
<1>3. /\ pc[p] = "user" /\ pc' = [pc EXCEPT ![p] = "command"]
      /\ done' = [done EXCEPT ![p] = 0] /\ failed' = [failed EXCEPT ![p] = FALSE]
      /\ early' = [early EXCEPT ![p] = FALSE] /\ result' = [result EXCEPT ![p] = "none"]
      /\ d_status' = d_status /\ doing' = doing /\ answer' = answer
      /\ got' = got /\ moved' = moved
  BY DEF call, At, Goto, device
<1>4. n \in 1 .. MAX_LEN + 2 /\ (d \in Disk => n = 2) /\ (d \in Flash => n = 1)
  <2>1. CASE d \in Disk
    BY <1>2, <2>1, Kinds, DriversAssumption DEF Commands
  <2>2. CASE d \in Flash
    BY <1>2, <2>2, Kinds, DriversAssumption DEF Commands
  <2>3. CASE d \in Locked
    BY <1>1, <1>2, <2>3, Kinds, DriversAssumption DEF Commands, Valid
  <2>. QED  BY <2>1, <2>2, <2>3, Kinds
<1>5. Alone(p, d)
  BY <1>1, <1>2, <1>3, NotYet DEF Running
<1>6. /\ sem' \in [Sem -> Int] /\ waiting' \in [Sem -> Seq(Uproc)]
      /\ \A e \in Device : LET s == Io(WaitIndex(e)) IN sem'[s] = sem[s] /\ waiting'[s] = waiting[s]
  <2>1. CASE d \in Locked
    <3>1. S!P(Lock(d), p) /\ Lock(d) \in Sem
      BY <1>1, <1>2, <2>1, Kinds, LineSemaphores
    <3>. QED  BY <3>1, PEffect, LineSemaphores DEF DInv
  <2>2. CASE d \in Block
    BY <1>1, <1>2, <2>2, Kinds DEF sems, DInv, Types
  <2>. QED  BY <2>1, <2>2, Kinds
<1>7. /\ DOMAIN buffer' = Block
      /\ \A e \in Block \ {d} : buffer'[e] = buffer[e]
      /\ d \in Block /\ r.op = "put" => buffer'[d] = <<p>>
  <2>1. Types
    BY DEF DInv
  <2>. QED  BY <1>1, <1>2, <2>1, FillEffect
<1>8. /\ pc'[p] = "command" /\ request'[p] = r /\ left'[p] = n
      /\ failed'[p] = FALSE /\ early'[p] = FALSE
      /\ dev(p)' = d
  BY <1>1, <1>a, <1>2, <1>3 DEF DInv, Types, TypeOK, dev
<1>9. Types'
  <2>1. TypeOK'
    BY <1>1, <1>a, <1>3, <1>4 DEF DInv, Types, TypeOK
  <2>. QED  BY <1>3, <1>6, <1>7, <2>1 DEF DInv, Types, Label, Running
<1>10. Frame(p, d)
  BY <1>1, <1>a, <1>3, <1>6, <1>7 DEF Frame, DInv, Types, TypeOK
<1>11. Quiet(WaitIndex(d)) /\ ~Outstanding(d)
  BY <1>3, <1>5, LineQuiet
<1>12. Quiet(WaitIndex(d))'
  BY <1>6, <1>11 DEF Quiet
<1>13. DeviceInv(d)'
  <2>1. \A q \in Uproc : ~Owner(q, d) /\ ~Owner(q, d)'
    BY <1>3, <1>5, <1>10 DEF Owner, Alone, Frame, dev, Running, DInv, Types
  <2>. QED  BY <1>3, <2>1, DeviceFrame DEF DInv
<1>14. DriverInv(p)'
  <2>1. CallInv(p)'
    BY <1>2, <1>4, <1>7, <1>8, Kinds DEF CallInv
  <2>. QED  BY <1>8, <2>1 DEF DriverInv
<1>. QED
  BY <1>1, <1>2, <1>3, <1>5, <1>8, <1>9, <1>10, <1>12, <1>13, <1>14, StepFrame DEF Running

\* The command goes to a device that does nothing and has answered everything.
LEMMA IssueEffect ==
  ASSUME OneClient, DInv, NEW p \in Uproc, pc[p] = "command", Issue(p),
         answer' = answer, d_status' = d_status, NEW d \in Device, d = dev(p)
  PROVE  /\ doing' = [doing EXCEPT ![d] = Command(request[p], left[p])]
         /\ doing'[d] = Command(request[p], left[p])
         /\ doing'[d] \in CommandWord /\ doing'[d] # NULL
         /\ \A e \in Device \ {d} : doing'[e] = doing[e]
         /\ answer[d] = NULL /\ d_status[d] = READY
         /\ Quiet(WaitIndex(d)) /\ Alone(p, d)
         /\ DOMAIN doing' = Device /\ \A e \in Device : doing'[e] = NULL \/ doing'[e].client \in Uproc
<1>1. request[p] \in Request /\ Alone(p, d)
  BY AtWork DEF Running
<1>2. Quiet(WaitIndex(d)) /\ ~Outstanding(d)
  BY <1>1, LineQuiet
<1>3. doing[d] = NULL /\ answer[d] = NULL /\ d_status[d] = READY
  BY <1>2 DEF Outstanding, DInv, DeviceInv
<1>4. PICK c : c = Command(request[p], left[p])
  OBVIOUS
<1>5. c \in CommandWord /\ c # NULL /\ c.client \in Uproc
  BY <1>1, <1>4, CommandIsWord, RequestFacts
<1>6. doing' = [doing EXCEPT ![d] = c]
  BY <1>3, <1>4 DEF Issue
<1>7. DOMAIN doing = Device /\ \A e \in Device : doing[e] = NULL \/ doing[e].client \in Uproc
  BY DEF DInv, Types, TypeOK
<1>. QED  BY <1>1, <1>2, <1>3, <1>4, <1>5, <1>6, <1>7

\* The next three steps change of their driver where it is, and got and early.
LEMMA StepCommand ==
  ASSUME OneClient, DInv, NEW p \in Uproc, command(p)
  PROVE  DInv'
<1>1. /\ pc[p] = "command" /\ pc' = [pc EXCEPT ![p] = "waitIO"]
      /\ dev(p) \notin Atomic /\ Issue(p)
      /\ sem' = sem /\ waiting' = waiting /\ d_status' = d_status /\ answer' = answer
      /\ buffer' = buffer /\ request' = request /\ left' = left /\ got' = got /\ result' = result
      /\ done' = done /\ failed' = failed /\ early' = early /\ moved' = moved
  BY DEF command, At, Goto, sems, driving, history
<1>2. PICK d \in Device : d = dev(p)
  BY <1>1, AtWork DEF Running
<1>3. /\ doing'[d] = Command(request[p], left[p])
      /\ doing'[d] \in CommandWord /\ doing'[d] # NULL
      /\ \A e \in Device \ {d} : doing'[e] = doing[e]
      /\ answer[d] = NULL /\ d_status[d] = READY
      /\ Quiet(WaitIndex(d)) /\ Alone(p, d)
      /\ DOMAIN doing' = Device /\ \A e \in Device : doing'[e] = NULL \/ doing'[e].client \in Uproc
  BY <1>1, <1>2, IssueEffect
<1>4. /\ request[p] \in Request /\ request[p].client = p /\ Valid(request[p]) /\ request[p].dev = d
      /\ dev(p)' = d
  BY <1>1, <1>2, AtWork DEF Running, dev
<1>5. pc'[p] = "waitIO" /\ \A q \in Uproc \ {p} : pc'[q] = pc[q]
  BY <1>1 DEF DInv, Types
<1>6. Types'
  <2>1. TypeOK'
    BY <1>1, <1>3 DEF DInv, Types, TypeOK
  <2>. QED  BY <1>1, <1>3, <2>1 DEF DInv, Types, Label, Running
<1>7. Frame(p, d)
  BY <1>1, <1>3, <1>5 DEF Frame
<1>8. DeviceInv(d)'
  <2>1. Owner(p, d)'
    BY <1>4, <1>5 DEF Owner
  <2>2. \A q \in Uproc \ {p} : ~Owner(q, d)'
    BY <1>1, <1>3, <1>5 DEF Owner, Alone, dev, Running
  <2>. QED  BY <1>1, <1>3, <2>1, <2>2 DEF DeviceInv
<1>9. DriverInv(p)'
  <2>1. CallInv(p)
    BY <1>1 DEF DInv, DriverInv
  <2>2. CallInv(p)'
    BY <1>1, <1>2, <1>3, <1>4, <1>5, <2>1 DEF CallInv
  <2>3. PairInv(p)'
    BY <1>1, <1>3, <1>4, <1>5 DEF PairInv, Quiet, Outstanding
  <2>4. GotInv(p)'
    BY <1>1, <1>3, <1>4, <1>5 DEF GotInv
  <2>. QED  BY <1>1, <1>2, <1>4, <1>5, <2>2, <2>3, <2>4 DEF DriverInv
<1>. QED  BY <1>1, <1>2, <1>3, <1>4, <1>5, <1>6, <1>7, <1>8, <1>9, StepFrame

LEMMA StepCommandAndWait ==
  ASSUME OneClient, DInv, NEW p \in Uproc, commandAndWait(p)
  PROVE  DInv'
<1>1. /\ pc[p] = "command" /\ pc' = [pc EXCEPT ![p] = "check"]
      /\ dev(p) \in Atomic /\ Issue(p) /\ WaitIO(p)
      /\ d_status' = d_status /\ answer' = answer
      /\ buffer' = buffer /\ request' = request /\ left' = left /\ result' = result
      /\ done' = done /\ failed' = failed /\ moved' = moved
  BY DEF commandAndWait, At, Goto
<1>2. PICK d \in Device : d = dev(p)
  BY <1>1, AtWork DEF Running
<1>3. /\ doing'[d] = Command(request[p], left[p])
      /\ doing'[d] \in CommandWord /\ doing'[d] # NULL
      /\ \A e \in Device \ {d} : doing'[e] = doing[e]
      /\ answer[d] = NULL /\ d_status[d] = READY
      /\ Quiet(WaitIndex(d)) /\ Alone(p, d)
      /\ DOMAIN doing' = Device /\ \A e \in Device : doing'[e] = NULL \/ doing'[e].client \in Uproc
  BY <1>1, <1>2, IssueEffect
<1>4. /\ request[p] \in Request /\ request[p].client = p /\ Valid(request[p]) /\ request[p].dev = d
      /\ dev(p)' = d
  BY <1>1, <1>2, AtWork DEF Running, dev
<1>5. pc'[p] = "check" /\ \A q \in Uproc \ {p} : pc'[q] = pc[q]
  BY <1>1 DEF DInv, Types
<1>6. PICK s \in Sem : s = Io(WaitIndex(d))
  BY LineSemaphores
<1>7. sem[s] = 0 /\ waiting[s] = <<>> /\ S!P(s, p)
  BY <1>1, <1>2, <1>3, <1>6 DEF Quiet, WaitIO
<1>8. /\ sem' \in [Sem -> Int] /\ waiting' \in [Sem -> Seq(Uproc)]
      /\ sem'[s] = -1 /\ waiting'[s] = <<p>>
      /\ \A t \in Sem \ {s} : sem'[t] = sem[t] /\ waiting'[t] = waiting[t]
  <2>1. Types
    BY DEF DInv
  <2>2. /\ sem' \in [Sem -> Int] /\ waiting' \in [Sem -> Seq(Uproc)] /\ sem'[s] = sem[s] - 1
        /\ ~(sem[s] > 0) => waiting'[s] = Append(waiting[s], p)
        /\ \A t \in Sem \ {s} : sem'[t] = sem[t] /\ waiting'[t] = waiting[t]
    BY <1>7, <2>1, PEffect
  <2>. QED  BY <1>7, <2>2, SingleQueue
<1>9. got' = got /\ early' = early
  BY <1>1, <1>2, <1>6, <1>7 DEF WaitIO, DInv, Types, TypeOK
<1>10. Types'
  <2>1. TypeOK'
    BY <1>1, <1>3, <1>9 DEF DInv, Types, TypeOK
  <2>. QED  BY <1>1, <1>3, <1>8, <1>9, <2>1 DEF DInv, Types, Label, Running
<1>11. Frame(p, d)
  <2>1. \A e \in Device : WaitIndex(e) # WaitIndex(d) => Io(WaitIndex(e)) \in Sem \ {s}
    BY <1>6, LineSemaphores
  <2>. QED  BY <1>1, <1>3, <1>5, <1>8, <1>9, <2>1 DEF Frame
<1>12. DeviceInv(d)'
  <2>1. Owner(p, d)'
    BY <1>4, <1>5 DEF Owner
  <2>2. \A q \in Uproc \ {p} : ~Owner(q, d)'
    BY <1>1, <1>3, <1>5 DEF Owner, Alone, dev, Running
  <2>. QED  BY <1>1, <1>3, <2>1, <2>2 DEF DeviceInv
<1>13. DriverInv(p)'
  <2>1. CallInv(p) /\ ~early[p]
    BY <1>1 DEF DInv, DriverInv, Running, Types
  <2>2. CallInv(p)'
    BY <1>1, <1>2, <1>3, <1>4, <1>5, <1>9, <2>1 DEF CallInv
  <2>3. PairInv(p)'
    BY <1>3, <1>4, <1>5, <1>6, <1>8 DEF PairInv, Outstanding
  <2>4. GotInv(p)'
    BY <1>1, <1>3, <1>4, <1>5 DEF GotInv, Outstanding
  <2>. QED  BY <1>5, <1>9, <2>1, <2>2, <2>3, <2>4 DEF DriverInv
<1>. QED  BY <1>1, <1>2, <1>3, <1>4, <1>5, <1>10, <1>11, <1>12, <1>13, StepFrame

LEMMA StepWaitIO ==
  ASSUME OneClient, DInv, NEW p \in Uproc, waitIO(p)
  PROVE  DInv'
<1>1. /\ pc[p] = "waitIO" /\ pc' = [pc EXCEPT ![p] = "check"] /\ WaitIO(p)
      /\ d_status' = d_status /\ doing' = doing /\ answer' = answer
      /\ buffer' = buffer /\ request' = request /\ left' = left /\ result' = result
      /\ done' = done /\ failed' = failed /\ moved' = moved
  BY DEF waitIO, At, Goto, device
<1>2. PICK d \in Device : d = dev(p) /\ Alone(p, d)
  BY <1>1, AtWork DEF Running
<1>3. /\ request[p] \in Request /\ request[p].client = p /\ Valid(request[p]) /\ request[p].dev = d
      /\ dev(p)' = d
  BY <1>1, <1>2, AtWork DEF Running, dev
<1>4. pc'[p] = "check" /\ \A q \in Uproc \ {p} : pc'[q] = pc[q]
  BY <1>1 DEF DInv, Types
<1>5. PICK s \in Sem : s = Io(WaitIndex(d))
  BY LineSemaphores
<1>6. /\ waiting[s] = <<>> /\ S!P(s, p) /\ CallInv(p) /\ GotInv(p) /\ d \notin Atomic
      /\ \/ sem[s] = 0 /\ Outstanding(d)
         \/ sem[s] = 1 /\ ~Outstanding(d)
  BY <1>1, <1>2, <1>5 DEF DInv, DriverInv, PairInv, WaitIO
<1>7. /\ sem' \in [Sem -> Int] /\ waiting' \in [Sem -> Seq(Uproc)]
      /\ sem'[s] = sem[s] - 1
      /\ sem[s] = 0 => waiting'[s] = <<p>>
      /\ sem[s] = 1 => waiting'[s] = <<>>
      /\ \A t \in Sem \ {s} : sem'[t] = sem[t] /\ waiting'[t] = waiting[t]
  <2>1. Types
    BY DEF DInv
  <2>2. /\ sem' \in [Sem -> Int] /\ waiting' \in [Sem -> Seq(Uproc)] /\ sem'[s] = sem[s] - 1
        /\ sem[s] > 0 => waiting'[s] = waiting[s]
        /\ ~(sem[s] > 0) => waiting'[s] = Append(waiting[s], p)
        /\ \A t \in Sem \ {s} : sem'[t] = sem[t] /\ waiting'[t] = waiting[t]
    BY <1>6, <2>1, PEffect
  <2>. QED  BY <1>6, <2>2, SingleQueue
<1>8. /\ Reg(d) \in Device /\ (d \notin Terminal => Reg(d) = d)
      /\ \A e \in Device : d_status[e] \in Status
  BY DriversAssumption DEF Reg, Terminal, DInv, Types, TypeOK
<1>9. /\ got' = [got EXCEPT ![p] = got'[p]] /\ early' = [early EXCEPT ![p] = early'[p]]
      /\ got'[p] \in Status /\ early'[p] \in BOOLEAN
      /\ sem[s] = 0 => got'[p] = got[p] /\ early'[p] = early[p]
      /\ sem[s] = 1 => got'[p] = d_status[Reg(d)] /\ early'[p] = TRUE
  <2>1. /\ got' = [got EXCEPT ![p] = IF sem[s] > 0 THEN d_status[Reg(d)] ELSE got[p]]
        /\ early' = [early EXCEPT ![p] = early[p] \/ sem[s] > 0]
    BY <1>1, <1>2, <1>5 DEF WaitIO
  <2>2. got[p] \in Status /\ early[p] \in BOOLEAN /\ DOMAIN got = Uproc /\ DOMAIN early = Uproc
    BY DEF DInv, Types, TypeOK
  <2>3. CASE sem[s] = 0
    BY <2>1, <2>2, <2>3
  <2>4. CASE sem[s] = 1
    <3>1. got' = [got EXCEPT ![p] = d_status[Reg(d)]]
      BY <2>1, <2>4
    <3>2. (early[p] \/ sem[s] > 0) = TRUE
      BY <2>4
    <3>3. early' = [early EXCEPT ![p] = TRUE]
      BY <2>1, <3>2
    <3>4. got'[p] = d_status[Reg(d)] /\ got' = [got EXCEPT ![p] = got'[p]]
      BY <2>2, <3>1
    <3>5. early'[p] = TRUE /\ early' = [early EXCEPT ![p] = early'[p]]
      BY <2>2, <3>3
    <3>6. sem[s] # 0
      BY <2>4
    <3>7. got'[p] \in Status
      BY <1>8, <3>4
    <3>8. early'[p] \in BOOLEAN
      BY <3>5, Zenon
    <3>. QED  BY <3>4, <3>5, <3>6, <3>7, <3>8, Zenon
  <2>. QED  BY <1>6, <2>3, <2>4
<1>10. Types'
  <2>1. TypeOK'
    BY <1>1, <1>9 DEF DInv, Types, TypeOK
  <2>. QED  BY <1>1, <1>7, <1>9, <2>1 DEF DInv, Types, Label, Running
<1>11. Frame(p, d)
  <2>1. \A e \in Device : WaitIndex(e) # WaitIndex(d) => Io(WaitIndex(e)) \in Sem \ {s}
    BY <1>5, LineSemaphores
  <2>2. \A q \in Uproc \ {p} : got'[q] = got[q] /\ early'[q] = early[q]
    BY <1>9 DEF DInv, Types, TypeOK
  <2>. QED  BY <1>1, <1>4, <1>7, <2>1, <2>2 DEF Frame
<1>12. DeviceInv(d)'
  <2>1. \A q \in Uproc : Owner(q, d)' <=> Owner(q, d)
    BY <1>1, <1>4 DEF Owner, dev
  <2>. QED  BY <1>1, <2>1, DeviceFrame DEF DInv
<1>13. DriverInv(p)'
  <2>1. CallInv(p)'
    BY <1>1, <1>2, <1>3, <1>4, <1>6, <1>9 DEF CallInv, Effect
  <2>2. PairInv(p)'
    <3>1. Outstanding(d)' <=> Outstanding(d)
      BY <1>1 DEF Outstanding
    <3>. QED  BY <1>3, <1>4, <1>5, <1>6, <1>7, <3>1 DEF PairInv, Quiet
  <2>3. GotInv(p)'
    <3>1. CASE sem[s] = 0
      BY <1>1, <1>2, <1>3, <1>6, <1>9, <3>1 DEF GotInv, Outstanding
    <3>2. CASE sem[s] = 1
      <4>1. answer[d] = NULL /\ d_status[d] = READY
        BY <1>6, <3>2 DEF Outstanding, DInv, DeviceInv
      <4>2. d \notin Terminal => got'[p] = Good(d)
        BY <1>8, <1>9, <3>2, <4>1, Kinds
      <4>. QED  BY <1>1, <1>3, <1>9, <3>2, <4>1, <4>2 DEF GotInv
    <3>. QED  BY <1>6, <3>1, <3>2
  <2>. QED  BY <1>3, <1>4, <1>6, <2>1, <2>2, <2>3 DEF DriverInv
<1>. QED  BY <1>1, <1>2, <1>3, <1>4, <1>10, <1>11, <1>12, <1>13, StepFrame

LEMMA StepCheckGood ==
  ASSUME OneClient, DInv, NEW p \in Uproc, checkGood(p)
  PROVE  DInv'
<1>1. /\ pc[p] = "check" /\ S!Free(p) /\ got[p] = Good(dev(p))
      /\ left' = [left EXCEPT ![p] = left[p] - 1]
      /\ More(p) \/ (left[p] = 1 /\ Succeed(p))
      /\ sem' = sem /\ waiting' = waiting
      /\ d_status' = d_status /\ doing' = doing /\ answer' = answer
      /\ buffer' = buffer /\ request' = request /\ got' = got
      /\ done' = done /\ failed' = failed /\ early' = early
  BY DEF checkGood, At, sems, device
<1>2. PICK d \in Device : d = dev(p) /\ Alone(p, d)
  BY <1>1, AtWork DEF Running
<1>3. /\ request[p] \in Request /\ request[p].client = p /\ Valid(request[p]) /\ request[p].dev = d
      /\ request[p].op \in {"put", "get"} /\ dev(p)' = d
  BY <1>1, <1>2, AtWork, RequestFacts DEF Running, dev
<1>4. /\ CallInv(p) /\ GotInv(p) /\ Quiet(WaitIndex(d)) /\ ~Outstanding(d)
      /\ early[p] => d \notin Atomic
  <2>1. PairInv(p) /\ CallInv(p) /\ GotInv(p) /\ (early[p] => d \notin Atomic)
    BY <1>1, <1>2 DEF DInv, DriverInv, Running
  <2>2. waiting[Io(WaitIndex(d))] # <<p>>
    BY <1>1, FreeIs, LineSemaphores
  <2>. QED  BY <1>1, <1>2, <2>1, <2>2 DEF PairInv
<1>5. /\ doing[d] = NULL /\ done[p] >= 1 /\ (~failed[p] => Effect(p)) /\ (early[p] \/ ~failed[p])
      /\ left[p] \in 1 .. MAX_LEN + 2 /\ (d \in Disk => left[p] \in {1, 2}) /\ (d \in Flash => left[p] = 1)
      /\ d \in Flash /\ request[p].op = "put" => buffer[d] = <<p>>
  BY <1>1, <1>2, <1>3, <1>4, DriversAssumption DEF CallInv, GotInv, Outstanding, DInv, Types, TypeOK
<1>6. /\ left'[p] = left[p] - 1 /\ \A q \in Uproc \ {p} : left'[q] = left[q]
      /\ left' \in [Uproc -> 0 .. MAX_LEN + 2]
  BY <1>1, <1>5, DriversAssumption DEF DInv, Types, TypeOK
<1>7. ASSUME DOMAIN result' = Uproc, DOMAIN moved' = Uproc, pc' \in [Uproc -> Label],
             pc'[p] \in {"command", "done"},
             \A q \in Uproc \ {p} : pc'[q] = pc[q] /\ result'[q] = result[q] /\ moved'[q] = moved[q]
      PROVE  DeviceInv(d)' /\ Types' /\ Frame(p, d)
  <2>1. \A q \in Uproc : ~Owner(q, d)'
    BY <1>1, <1>2, <1>7 DEF Owner, Alone, dev, Running
  <2>2. ~Outstanding(d)'
    BY <1>1, <1>4 DEF Outstanding
  <2>3. DeviceInv(d)'
    BY <1>1, <2>1, <2>2 DEF DeviceInv, DInv
  <2>4. Types'
    BY <1>1, <1>6, <1>7 DEF Types, TypeOK, DInv
  <2>5. Frame(p, d)
    BY <1>1, <1>6, <1>7 DEF Frame
  <2>. QED  BY <2>3, <2>4, <2>5
<1>8. /\ DeviceInv(d)' /\ Types' /\ Frame(p, d) /\ DriverInv(p)' /\ pc'[p] \in {"command", "done"}
  <2>1. CASE More(p)
    <3>1. /\ left[p] > 1 /\ pc' = [pc EXCEPT ![p] = "command"] /\ result' = result /\ moved' = moved
      BY <2>1 DEF More, Goto
    <3>2. pc'[p] = "command" /\ DeviceInv(d)' /\ Types' /\ Frame(p, d)
      BY <1>7, <3>1 DEF DInv, Types, Label, Running
    <3>4. CallInv(p)'
      BY <1>1, <1>2, <1>3, <1>5, <1>6, <3>1, <3>2 DEF CallInv
    <3>. QED  BY <1>1, <1>2, <1>3, <1>4, <3>2, <3>4 DEF DriverInv
  <2>2. CASE left[p] = 1 /\ Succeed(p)
    <3>1. /\ pc' = [pc EXCEPT ![p] = "done"] /\ result' = [result EXCEPT ![p] = "success"]
          /\ moved' = IF d \in Block /\ request[p].op = "get" THEN [moved EXCEPT ![p] = buffer[d]] ELSE moved
      BY <1>2, <2>2 DEF Succeed, Goto
    <3>2. /\ DOMAIN moved' = Uproc /\ \A q \in Uproc \ {p} : moved'[q] = moved[q]
          /\ moved'[p] = IF d \in Block /\ request[p].op = "get" THEN buffer[d] ELSE moved[p]
      BY <3>1 DEF DInv, Types
    <3>3. pc'[p] = "done" /\ result'[p] = "success" /\ DeviceInv(d)' /\ Types' /\ Frame(p, d)
      BY <1>7, <3>1, <3>2 DEF DInv, Types, Label, Running
    <3>4. ~failed[p] => Moved(p)'
      BY <1>1, <1>2, <1>3, <1>5, <2>2, <3>2, Kinds DEF Effect, Moved
    <3>6. ReturnInv(p)'
      BY <1>1, <1>5, <1>6, <2>2, <3>3, <3>4 DEF ReturnInv, Promise
    <3>. QED  BY <1>1, <1>2, <1>3, <1>4, <3>3, <3>6 DEF DriverInv
  <2>. QED  BY <1>1, <2>1, <2>2
<1>9. Quiet(WaitIndex(d))'
  BY <1>1, <1>4 DEF Quiet
<1>10. request'[p] = request[p]
  BY <1>1
<1>. QED  BY <1>1, <1>2, <1>3, <1>8, <1>9, <1>10, StepFrame

LEMMA StepCheckBad ==
  ASSUME OneClient, DInv, NEW p \in Uproc, checkBad(p)
  PROVE  DInv'
<1>1. /\ pc[p] = "check" /\ S!Free(p) /\ got[p] # Good(dev(p))
      /\ result' = [result EXCEPT ![p] = "error"]
      /\ pc' = [pc EXCEPT ![p] = IF dev(p) \in Disk /\ left[p] = 2 THEN "ended" ELSE "done"]
      /\ sem' = sem /\ waiting' = waiting
      /\ d_status' = d_status /\ doing' = doing /\ answer' = answer
      /\ buffer' = buffer /\ request' = request /\ left' = left /\ got' = got
      /\ done' = done /\ failed' = failed /\ early' = early /\ moved' = moved
  BY DEF checkBad, At, Goto, sems, device, history
<1>2. PICK d \in Device : d = dev(p) /\ Alone(p, d)
  BY <1>1, AtWork DEF Running
<1>3. /\ request[p] \in Request /\ request[p].client = p /\ Valid(request[p]) /\ request[p].dev = d
      /\ request'[p] = request[p] /\ dev(p)' = d
  BY <1>1, <1>2, AtWork DEF Running, dev
<1>4. /\ CallInv(p) /\ GotInv(p) /\ Quiet(WaitIndex(d)) /\ ~Outstanding(d)
      /\ early[p] => d \notin Atomic
  <2>1. PairInv(p) /\ CallInv(p) /\ GotInv(p) /\ (early[p] => d \notin Atomic)
    BY <1>1, <1>2 DEF DInv, DriverInv, Running
  <2>2. waiting[Io(WaitIndex(d))] # <<p>>
    BY <1>1, FreeIs, LineSemaphores
  <2>. QED  BY <1>1, <1>2, <2>1, <2>2 DEF PairInv
<1>5. pc'[p] \in {"ended", "done"} /\ result'[p] = "error" /\ \A q \in Uproc \ {p} : pc'[q] = pc[q]
  BY <1>1 DEF DInv, Types
<1>6. Types'
  <2>1. pc' \in [Uproc -> Label]
    BY <1>1, <1>5 DEF DInv, Types, Label, Running
  <2>2. TypeOK'
    BY <1>1 DEF DInv, Types, TypeOK
  <2>. QED  BY <1>1, <2>1, <2>2 DEF DInv, Types
<1>7. Frame(p, d)
  BY <1>1, <1>5 DEF Frame, DInv, Types
<1>8. DeviceInv(d)'
  <2>1. \A q \in Uproc : ~Owner(q, d)'
    BY <1>1, <1>2, <1>5 DEF Owner, Alone, dev, Running
  <2>2. ~Outstanding(d)'
    BY <1>1, <1>4 DEF Outstanding
  <2>. QED  BY <1>1, <2>1, <2>2 DEF DeviceInv, DInv
<1>9. DriverInv(p)'
  <2>1. /\ done[p] >= 1 /\ (failed[p] \/ (early[p] /\ d \in Terminal))
    BY <1>1, <1>2, <1>4 DEF CallInv, GotInv, Outstanding
  <2>2. ReturnInv(p)'
    BY <1>1, <1>3, <1>5, <2>1, Kinds DEF ReturnInv, Promise
  <2>. QED  BY <1>1, <1>3, <1>4, <1>5, <2>2 DEF DriverInv
<1>10. Quiet(WaitIndex(d))'
  BY <1>1, <1>4 DEF Quiet
<1>. QED  BY <1>1, <1>2, <1>3, <1>5, <1>6, <1>7, <1>8, <1>9, <1>10, StepFrame

LEMMA StepReturn ==
  ASSUME OneClient, DInv, NEW p \in Uproc, return(p)
  PROVE  DInv'
<1>1. /\ pc[p] = "done" /\ pc' = [pc EXCEPT ![p] = "user"]
      /\ \/ dev(p) \in Locked /\ S!V(Lock(dev(p)))
         \/ dev(p) \notin Locked /\ UNCHANGED sems
      /\ request' = [request EXCEPT ![p] = NULL] /\ left' = [left EXCEPT ![p] = 0]
      /\ got' = [got EXCEPT ![p] = READY] /\ early' = [early EXCEPT ![p] = FALSE]
      /\ moved' = [moved EXCEPT ![p] = <<>>]
      /\ d_status' = d_status /\ doing' = doing /\ answer' = answer
      /\ buffer' = buffer /\ result' = result /\ done' = done /\ failed' = failed
  BY DEF return, At, Goto, device
<1>2. PICK d \in Device : d = dev(p) /\ Alone(p, d)
  BY <1>1, AtWork DEF Running
<1>3. /\ sem' \in [Sem -> Int] /\ waiting' \in [Sem -> Seq(Uproc)]
      /\ \A e \in Device : LET s == Io(WaitIndex(e)) IN sem'[s] = sem[s] /\ waiting'[s] = waiting[s]
  <2>1. CASE d \in Locked
    <3>1. S!V(Lock(d)) /\ Lock(d) \in Sem
      BY <1>1, <1>2, <2>1, LineSemaphores
    <3>. QED  BY <3>1, VEffect, LineSemaphores DEF DInv
  <2>2. CASE d \notin Locked
    BY <1>1, <1>2, <2>2 DEF sems, DInv, Types
  <2>. QED  BY <2>1, <2>2
<1>4. pc'[p] = "user" /\ \A q \in Uproc \ {p} : pc'[q] = pc[q]
  BY <1>1 DEF DInv, Types
<1>5. Types'
  <2>1. TypeOK'
    BY <1>1, DriversAssumption DEF DInv, Types, TypeOK, Status, READY
  <2>. QED  BY <1>1, <1>3, <2>1 DEF DInv, Types, Label
<1>6. Frame(p, d)
  BY <1>1, <1>3, <1>4 DEF Frame, DInv, Types, TypeOK
<1>7. Quiet(WaitIndex(d)) /\ ~Outstanding(d)
  BY <1>1, <1>2, LineQuiet
<1>8. DeviceInv(d)'
  <2>1. \A q \in Uproc : ~Owner(q, d)'
    BY <1>1, <1>2, <1>4, <1>6 DEF Owner, Alone, Frame, dev, Running
  <2>2. ~Outstanding(d)'
    BY <1>1, <1>7 DEF Outstanding
  <2>. QED  BY <1>1, <2>1, <2>2 DEF DeviceInv, DInv
<1>9. DriverInv(p)'
  BY <1>4 DEF DriverInv, Running
<1>10. Quiet(WaitIndex(d))'
  BY <1>3, <1>7 DEF Quiet
<1>. QED  BY <1>1, <1>2, <1>4, <1>5, <1>6, <1>8, <1>9, <1>10, StepFrame DEF Running

-----------------------------------------------------------------------------
(* The steps of the devices. *)

\* A device that is busy or has raised an interrupt, and the driver it answers.
LEMMA DeviceOwner ==
  ASSUME OneClient, DInv, NEW d \in Device, Outstanding(d)
  PROVE  \E p \in Uproc :
           /\ pc[p] \in {"waitIO", "check"} /\ dev(p) = d /\ Alone(p, d)
           /\ request[p] \in Request /\ request[p].client = p /\ Valid(request[p]) /\ request[p].dev = d
           /\ request[p].op \in {"put", "get"} /\ request[p].arg \in Int
           /\ doing[d] # NULL => doing[d] = Command(request[p], left[p]) /\ doing[d].client = p
           /\ PairInv(p) /\ GotInv(p) /\ CallInv(p)
<1>1. PICK p \in Uproc : Owner(p, d)
  BY DEF DInv, DeviceInv
<1>2. pc[p] \in {"waitIO", "check"} /\ dev(p) = d
  BY <1>1 DEF Owner
<1>3. /\ request[p] \in Request /\ request[p].client = p /\ Valid(request[p]) /\ request[p].dev = d
      /\ Alone(p, d)
  BY <1>2, AtWork DEF Running
<1>4. doing[d] # NULL => doing[d] = Command(request[p], left[p]) /\ doing[d].client = p
  BY <1>1, <1>3, CommandIsWord DEF DInv, DeviceInv
<1>5. PairInv(p) /\ GotInv(p) /\ CallInv(p)
  BY <1>2 DEF DInv, DriverInv
<1>. QED  BY <1>2, <1>3, <1>4, <1>5, RequestFacts

\* The device answers with status st; what it has done is left open.
LEMMA AnswerInv ==
  ASSUME OneClient, DInv, NEW d \in Device, NEW st \in {Good(d), ERROR}, Busy(d), Answer(d, st),
         NEW p \in Uproc, pc[p] \in {"waitIO", "check"}, dev(p) = d, Alone(p, d),
         doing[d].client = p, request[p] \in Request, request[p].client = p, Valid(request[p]),
         DOMAIN moved' = Uproc, \A q \in Uproc \ {p} : moved'[q] = moved[q],
         DOMAIN buffer' = Block, \A e \in Block \ {d} : buffer'[e] = buffer[e],
         d \in Flash /\ request[p].op = "put" => buffer'[d] = buffer[d],
         st # ERROR /\ ~failed[p] => Effect(p)'
  PROVE  DInv'
<1>1. /\ answer' = [answer EXCEPT ![d] = st] /\ d_status' = [d_status EXCEPT ![d] = st]
      /\ done' = [done EXCEPT ![p] = done[p] + 1]
      /\ failed' = [failed EXCEPT ![p] = failed[p] \/ st = ERROR]
      /\ doing' = [doing EXCEPT ![d] = NULL]
      /\ sem' = sem /\ waiting' = waiting /\ pc' = pc /\ request' = request /\ left' = left
      /\ got' = got /\ result' = result /\ early' = early
  BY DEF Answer, sems, driving
<1>2. /\ answer'[d] = st /\ d_status'[d] = st /\ doing'[d] = NULL
      /\ \A e \in Device \ {d} : answer'[e] = answer[e] /\ d_status'[e] = d_status[e] /\ doing'[e] = doing[e]
      /\ doing[d] # NULL /\ answer[d] = NULL
  BY <1>1 DEF DInv, Types, TypeOK, Busy
<1>3. st \in Status /\ st # NULL
  BY Kinds, DriversAssumption DEF Status, READY, ERROR, CHARDONE
<1>4. /\ done'[p] = done[p] + 1 /\ done[p] \in Nat /\ done' \in [Uproc -> Nat]
      /\ \A q \in Uproc \ {p} : done'[q] = done[q]
  BY <1>1 DEF DInv, Types
<1>5. /\ failed' \in [Uproc -> BOOLEAN]
      /\ \A q \in Uproc \ {p} : failed'[q] = failed[q]
      /\ failed'[p] <=> failed[p] \/ st = ERROR
  BY <1>1 DEF DInv, Types
<1>6. request[p].dev = d /\ dev(p)' = d
  BY <1>1 DEF dev
<1>7. Types'
  <2>1. TypeOK'
    BY <1>1, <1>3 DEF DInv, Types, TypeOK
  <2>. QED  BY <1>1, <1>4, <1>5, <2>1 DEF DInv, Types
<1>8. Frame(p, d)
  BY <1>1, <1>2, <1>4, <1>5 DEF Frame
<1>9. DeviceInv(d)'
  <2>1. Owner(p, d)'
    BY <1>1, <1>6 DEF Owner
  <2>. QED  BY <1>2, <1>3, <2>1 DEF DeviceInv
<1>10. DriverInv(p)'
  <2>1. /\ PairInv(p) /\ GotInv(p) /\ CallInv(p) /\ Outstanding(d)
        /\ (early[p] => d \notin Atomic) /\ (pc[p] = "waitIO" => d \notin Atomic)
    BY <1>2 DEF DInv, DriverInv, Outstanding, Running
  <2>2. Outstanding(d)'
    BY <1>2, <1>3 DEF Outstanding
  <2>3. PairInv(p)'
    BY <1>1, <1>6, <2>1, <2>2 DEF PairInv, Quiet
  <2>4. GotInv(p)'
    BY <1>1, <1>2, <1>3, <1>5, <1>6, <2>1, <2>2, Kinds DEF GotInv, CallInv
  <2>5. ~failed'[p] => Effect(p)'
    BY <1>5
  <2>6. CallInv(p)'
    BY <1>1, <1>2, <1>4, <1>5, <1>6, <2>1, <2>5 DEF CallInv
  <2>. QED  BY <1>1, <1>6, <2>1, <2>3, <2>4, <2>6 DEF DriverInv
<1>11. pc'[p] \in {"waitIO", "check"} /\ request'[p] = request[p]
  BY <1>1
<1>. QED  BY <1>6, <1>7, <1>8, <1>9, <1>10, <1>11, StepFrame

LEMMA StepCompleteBadly ==
  ASSUME OneClient, DInv, NEW d \in Device, completeBadly(d)
  PROVE  DInv'
<1>1. Busy(d) /\ Answer(d, ERROR) /\ buffer' = buffer /\ moved' = moved
  BY DEF completeBadly
<1>2. Outstanding(d) /\ doing[d] # NULL
  BY <1>1 DEF Busy, Outstanding
<1>3. PICK p \in Uproc :
        /\ pc[p] \in {"waitIO", "check"} /\ dev(p) = d /\ Alone(p, d)
        /\ request[p] \in Request /\ request[p].client = p /\ Valid(request[p])
        /\ doing[d].client = p
  BY <1>2, DeviceOwner
<1>. QED  BY <1>1, <1>3, AnswerInv DEF DInv, Types, TypeOK

LEMMA JoinPair ==
  ASSUME NEW a, NEW b
  PROVE  <<a>> \o <<b>> = <<a, b>>
<1>1. <<a>> \in Seq({a, b}) /\ <<b>> \in Seq({a, b}) /\ <<a, b>> \in Seq({a, b})
  OBVIOUS
<1>2. PICK x \in Seq({a, b}), y \in Seq({a, b}), t \in Seq({a, b}) :
        /\ x = <<a>> /\ y = <<b>> /\ t = <<a, b>>
        /\ Len(x) = 1 /\ x[1] = a /\ Len(y) = 1 /\ y[1] = b
        /\ Len(t) = 2 /\ t[1] = a /\ t[2] = b
  BY <1>1
<1>3. x \o y \in Seq({a, b}) /\ Len(x \o y) = 2 /\ (x \o y)[1] = a /\ (x \o y)[2] = b
  BY <1>2, ConcatProperties
<1>4. x \o y = t
  <2>1. PICK z \in Seq({a, b}) : z = x \o y
    BY <1>3
  <2>2. Len(z) = 2 /\ \A i \in 1 .. 2 : z[i] = t[i]
    <3>1. Len(z) = 2 /\ z[1] = t[1] /\ z[2] = t[2]
      BY <1>2, <1>3, <2>1
    <3>. QED  BY <3>1
  <2>3. z = t
    BY <1>2, <2>2, SeqEqual
  <2>. QED  BY <2>1, <2>3
<1>. QED  BY <1>2, <1>4

LEMMA StepCompleteWell ==
  ASSUME OneClient, DInv, NEW d \in Device, completeWell(d)
  PROVE  DInv'
<1>1. /\ Busy(d) /\ Legal(d, doing[d]) /\ Answer(d, Good(d))
      /\ Seek(d, doing[d]) \/ Read(d, doing[d]) \/ Write(d, doing[d]) \/ Character(d)
  BY DEF completeWell
<1>2. Outstanding(d) /\ doing[d] # NULL
  BY <1>1 DEF Busy, Outstanding
<1>3. PICK p \in Uproc :
        /\ pc[p] \in {"waitIO", "check"} /\ dev(p) = d /\ Alone(p, d)
        /\ request[p] \in Request /\ request[p].client = p /\ Valid(request[p]) /\ request[p].dev = d
        /\ request[p].op \in {"put", "get"} /\ request[p].arg \in Int
        /\ doing[d] = Command(request[p], left[p]) /\ doing[d].client = p
        /\ CallInv(p)
  BY <1>2, DeviceOwner
<1>4. /\ request' = request /\ left' = left /\ DOMAIN moved = Uproc /\ DOMAIN buffer = Block
  BY <1>1 DEF Answer, driving, DInv, Types, TypeOK
<1>5. PICK r \in Request, c \in CommandWord :
        r = request[p] /\ c = doing[d] /\ c = Command(r, left[p]) /\ c.client = p /\ c.word \in Int
  BY <1>3, CommandIsWord DEF CommandWord
<1>6. /\ d \in Disk => left[p] \in {1, 2}
      /\ d \in Flash => left[p] = 1
      /\ d \in Flash /\ r.op = "put" => buffer[d] = <<p>>
  BY <1>3, <1>5 DEF CallInv
<1>7. /\ r.dev = d /\ r.op \in {"put", "get"} /\ r.arg \in Int
      /\ d \in Flash => c.word = r.arg % WORDS /\ c.code = Transfer(r)
  BY <1>3, <1>5, Kinds DEF Command
<1>8. SUFFICES /\ DOMAIN moved' = Uproc /\ \A q \in Uproc \ {p} : moved'[q] = moved[q]
               /\ DOMAIN buffer' = Block /\ \A e \in Block \ {d} : buffer'[e] = buffer[e]
               /\ d \in Flash /\ r.op = "put" => buffer'[d] = buffer[d]
               /\ Effect(p)'
  BY <1>1, <1>3, <1>5, AnswerInv
<1>9. r.arg \in 0 .. WORDS - 1 => r.arg % WORDS = r.arg
  BY WordsType, SmallRest
<1>10. CASE Seek(d, c)
  <2>1. d \in Disk /\ buffer' = buffer /\ moved' = moved
    BY <1>10 DEF Seek
  <2>2. Effect(p)'
    BY <1>4, <1>5, <1>7, <2>1, Kinds DEF Effect
  <2>. QED  BY <1>4, <2>1, <2>2
<1>11. CASE Read(d, c)
  <2>1. CASE d \in Disk
    <3>1. buffer' = [buffer EXCEPT ![d] = <<d>>] /\ moved' = moved
      BY <1>11, <2>1, Kinds DEF Read
    <3>2. Effect(p)'
      BY <1>4, <1>5, <1>7, <2>1, Kinds DEF Effect
    <3>. QED  BY <1>4, <2>1, <3>1, <3>2, Kinds
  <2>2. CASE d \notin Disk
    <3>1. d \in Flash /\ c.code = READBLK /\ buffer' = [buffer EXCEPT ![d] = <<d, c.word>>] /\ moved' = moved
      BY <1>11, <2>2 DEF Read
    <3>2. r.op = "get"
      BY <1>7, <3>1 DEF Transfer, READBLK, WRITEBLK
    <3>3. buffer'[d] = <<d, c.word>>
      BY <1>4, <3>1, Kinds
    <3>4. Effect(p)'
      BY <1>4, <1>5, <1>7, <1>9, <3>1, <3>2, <3>3 DEF Effect
    <3>. QED  BY <1>4, <3>1, <3>2, <3>4
  <2>. QED  BY <2>1, <2>2
<1>12. CASE Write(d, c)
  <2>1. d \in Flash /\ c.code = WRITEBLK /\ moved' = [moved EXCEPT ![p] = buffer[d] \o <<c.word>>] /\ buffer' = buffer
    BY <1>5, <1>12 DEF Write
  <2>2. r.op = "put"
    BY <1>7, <2>1 DEF Transfer, READBLK, WRITEBLK
  <2>3. moved'[p] = <<p, c.word>>
    BY <1>4, <1>6, <2>1, <2>2, JoinPair
  <2>4. Effect(p)'
    BY <1>4, <1>5, <1>7, <1>9, <2>2, <2>3 DEF Effect
  <2>. QED  BY <1>4, <2>1, <2>4
<1>13. CASE Character(d)
  <2>1. d \in Locked /\ buffer' = buffer /\ moved' = moved
    BY <1>13 DEF Character
  <2>2. Effect(p)'
    BY <1>4, <1>5, <1>7, <2>1, Kinds DEF Effect
  <2>. QED  BY <1>4, <2>1, <2>2, Kinds
<1>. QED  BY <1>1, <1>5, <1>10, <1>11, <1>12, <1>13

LEMMA StepInterrupt ==
  ASSUME OneClient, DInv, NEW d \in Device, interrupt(d)
  PROVE  DInv'
<1>1. /\ answer[d] # NULL /\ S!V(Io(InterruptIndex(d, answer[d])))
      /\ got' = [p \in Uproc |-> IF p \in Woken(d) THEN answer[d] ELSE got[p]]
      /\ d_status' = [d_status EXCEPT ![d] = READY] /\ answer' = [answer EXCEPT ![d] = NULL]
      /\ doing' = doing /\ buffer' = buffer /\ pc' = pc /\ request' = request
      /\ left' = left /\ result' = result
      /\ done' = done /\ failed' = failed /\ early' = early /\ moved' = moved
  BY DEF interrupt, getHighestPriorityDevice, Pending, Acknowledge, history
<1>2. PICK p \in Uproc :
        /\ pc[p] \in {"waitIO", "check"} /\ dev(p) = d /\ Alone(p, d)
        /\ request[p] \in Request /\ request[p].client = p /\ Valid(request[p]) /\ request[p].dev = d
        /\ PairInv(p) /\ GotInv(p) /\ CallInv(p)
  <2>1. Outstanding(d)
    BY <1>1 DEF Outstanding
  <2>. QED  BY <2>1, DeviceOwner
<1>3. PICK s \in Sem : s = Io(WaitIndex(d))
  BY LineSemaphores
<1>4. answer[d] \in Status /\ answer[d] \in {Good(d), ERROR} /\ doing[d] = NULL /\ Outstanding(d)
  BY <1>1, Kinds DEF DInv, DeviceInv, Types, TypeOK, Outstanding
<1>5. S!V(s) /\ s = Io(InterruptIndex(d, answer[d]))
  BY <1>1, <1>3, <1>4, LineSemaphores
<1>6. /\ sem' \in [Sem -> Int] /\ waiting' \in [Sem -> Seq(Uproc)] /\ sem'[s] = sem[s] + 1
      /\ waiting[s] = <<>> => waiting'[s] = <<>>
      /\ waiting[s] # <<>> => waiting'[s] = Tail(waiting[s])
      /\ \A t \in Sem \ {s} : sem'[t] = sem[t] /\ waiting'[t] = waiting[t]
  BY <1>5, VEffect DEF DInv
<1>7. \/ pc[p] = "waitIO" /\ sem[s] = 0 /\ waiting[s] = <<>>
      \/ pc[p] = "check" /\ sem[s] = -1 /\ waiting[s] = <<p>>
  BY <1>2, <1>3, <1>4 DEF PairInv
<1>8. Woken(d) = IF pc[p] = "waitIO" THEN {} ELSE {p}
  <2>1. CASE pc[p] = "waitIO"
    BY <1>5, <1>7, <2>1 DEF Woken
  <2>2. CASE pc[p] = "check"
    BY <1>5, <1>7, <2>2, SingleQueue DEF Woken
  <2>. QED  BY <1>7, <2>1, <2>2
<1>9. /\ got' \in [Uproc -> Status]
      /\ \A q \in Uproc \ {p} : got'[q] = got[q]
      /\ got'[p] = IF pc[p] = "waitIO" THEN got[p] ELSE answer[d]
  <2>1. got \in [Uproc -> Status]
    BY DEF DInv, Types, TypeOK
  <2>2. \A q \in Uproc : got'[q] = IF q = p /\ pc[p] # "waitIO" THEN answer[d] ELSE got[q]
    BY <1>1, <1>8
  <2>3. got' \in [Uproc -> Status]
    BY <1>1, <1>4, <2>1
  <2>. QED  BY <2>2, <2>3
<1>10. /\ d_status'[d] = READY /\ answer'[d] = NULL
       /\ \A e \in Device \ {d} : d_status'[e] = d_status[e] /\ answer'[e] = answer[e]
       /\ ~Outstanding(d)' /\ dev(p)' = d
  BY <1>1, <1>2, <1>4 DEF DInv, Types, TypeOK, Outstanding, dev
<1>11. Types'
  <2>1. TypeOK'
    BY <1>1, <1>9 DEF DInv, Types, TypeOK, Status
  <2>. QED  BY <1>1, <1>6, <2>1 DEF DInv, Types
<1>12. Frame(p, d)
  <2>1. \A e \in Device : WaitIndex(e) # WaitIndex(d) => Io(WaitIndex(e)) \in Sem \ {s}
    BY <1>3, LineSemaphores
  <2>. QED  BY <1>1, <1>6, <1>9, <1>10, <2>1 DEF Frame
<1>13. DeviceInv(d)'
  BY <1>1, <1>4, <1>10 DEF DeviceInv
<1>14. DriverInv(p)'
  <2>1. (early[p] => d \notin Atomic) /\ (pc[p] = "waitIO" => d \notin Atomic)
    BY <1>2 DEF DInv, DriverInv, Running
  <2>2. PairInv(p)'
    <3>1. CASE pc[p] = "waitIO"
      BY <1>1, <1>3, <1>6, <1>7, <1>10, <3>1 DEF PairInv
    <3>2. CASE pc[p] = "check"
      <4>1. sem'[s] = 0
        BY <1>6, <1>7, <3>2
      <4>2. waiting'[s] = <<>>
        BY <1>6, <1>7, <3>2, SingleQueue
      <4>. QED  BY <1>1, <1>3, <1>10, <3>2, <4>1, <4>2 DEF PairInv, Quiet
    <3>. QED  BY <1>2, <3>1, <3>2
  <2>3. GotInv(p)'
    BY <1>1, <1>2, <1>4, <1>9, <1>10 DEF GotInv
  <2>4. CallInv(p)'
    BY <1>1, <1>2, <1>4, <1>10 DEF CallInv, Effect
  <2>. QED  BY <1>1, <1>2, <1>10, <2>1, <2>2, <2>3, <2>4 DEF DriverInv
<1>15. pc'[p] \in {"waitIO", "check"} /\ request'[p] = request[p]
  BY <1>1, <1>2
<1>. QED  BY <1>2, <1>11, <1>12, <1>10, <1>13, <1>14, <1>15, StepFrame

-----------------------------------------------------------------------------
(* The invariant, and what it says of the drivers. *)

LEMMA InitInv ==
  Init => DInv
<1>. SUFFICES ASSUME Init
              PROVE  DInv
  OBVIOUS
<1>1. Types
  <2>1. TypeOK
    BY DriversAssumption DEF Init, TypeOK, Status, READY
  <2>2. waiting \in [Sem -> Seq(Uproc)] /\ sem \in [Sem -> Int]
    BY DEF Init
  <2>. QED  BY <2>1, <2>2 DEF Init, Types, Label
<1>2. \A p \in Uproc : pc[p] = "user"
  BY DEF Init
<1>3. RequestInv /\ \A p \in Uproc : DriverInv(p)
  BY <1>2 DEF RequestInv, DriverInv, Running
<1>4. LineInv
  <2>1. \A d \in Device : sem[Io(WaitIndex(d))] = 0 /\ waiting[Io(WaitIndex(d))] = <<>>
    BY LineSemaphores DEF Init, Io
  <2>. QED  BY <2>1 DEF LineInv, Quiet
<1>5. \A d \in Device : DeviceInv(d)
  BY <1>2 DEF Init, DeviceInv, Owner, Outstanding
<1>. QED  BY <1>1, <1>3, <1>4, <1>5 DEF DInv

LEMMA StepInv ==
  ASSUME OneClient, DInv, [Next]_vars
  PROVE  DInv'
<1>1. ASSUME NEW p \in Uproc, call(p) \/ reject(p) \/ driver(p)
      PROVE  DInv'
  BY <1>1, StepCall, StepReject, StepCommandAndWait, StepCommand, StepWaitIO, StepCheckGood,
     StepCheckBad, StepReturn DEF driver
<1>2. ASSUME NEW d \in Device, complete(d) \/ interrupt(d)
      PROVE  DInv'
  BY <1>2, StepCompleteWell, StepCompleteBadly, StepInterrupt DEF complete
<1>3. CASE UNCHANGED vars
  <2>1. /\ sem' = sem /\ waiting' = waiting /\ d_status' = d_status /\ doing' = doing /\ answer' = answer
        /\ buffer' = buffer /\ pc' = pc /\ request' = request /\ left' = left /\ got' = got
        /\ result' = result /\ done' = done /\ failed' = failed /\ early' = early /\ moved' = moved
    BY <1>3 DEF vars, sems, device, driving, history
  <2>2. Types' /\ RequestInv'
    BY <2>1 DEF DInv, Types, TypeOK, RequestInv
  <2>3. LineInv'
    BY <2>1 DEF DInv, LineInv, Quiet, dev
  <2>4. \A d \in Device : DeviceInv(d)'
    BY <2>1 DEF DInv, DeviceInv, Outstanding, Owner, dev
  <2>5. ASSUME NEW p \in Uproc
        PROVE  DriverInv(p)'
    BY <2>1, DriverFrame DEF DInv
  <2>. QED  BY <2>2, <2>3, <2>4, <2>5 DEF DInv
<1>. QED  BY <1>1, <1>2, <1>3 DEF Next

\* The invariant holds in every behaviour where each line has one U-proc.
THEOREM DriversInvariant == OneClient => (Spec => []DInv)
<1>. SUFFICES ASSUME OneClient
              PROVE  Spec => []DInv
  OBVIOUS
<1>1. DInv /\ [Next]_vars => DInv'
  BY StepInv
<1>. QED  BY <1>1, InitInv, PTL DEF Spec

\* Commands, interrupts and SYS5 pair up on every line: what the line owes or its
\* semaphore keeps belongs to a driver that has yet to do its SYS5.
THEOREM DriversPairUp == OneClient => (Spec => []InterruptsPairUp)
<1>. SUFFICES ASSUME OneClient
              PROVE  Spec => []InterruptsPairUp
  OBVIOUS
<1>1. DInv => InterruptsPairUp
  <2>. SUFFICES ASSUME DInv, NEW e \in Device
                PROVE  Answers(WaitIndex(e))
                         = Cardinality({p \in Uproc : pc[p] = "waitIO" /\ WaitIndex(dev(p)) = WaitIndex(e)})
    BY DEF InterruptsPairUp, DInv, Types
  <2>1. PICK n : n = WaitIndex(e)
    OBVIOUS
  <2>2. PICK D, W :
          /\ D = {d \in Device : WaitIndex(d) = n /\ (doing[d] # NULL \/ answer[d] # NULL)}
          /\ W = {p \in Uproc : pc[p] = "waitIO" /\ WaitIndex(dev(p)) = n}
    OBVIOUS
  <2>3. Answers(n) = sem[Io(n)] + Cardinality(D)
    BY <2>2 DEF Answers
  <2>4. CASE \A p \in Uproc : pc[p] \in {"waitIO", "check"} => WaitIndex(dev(p)) # n
    <3>1. sem[Io(n)] = 0
      BY <2>1, <2>4 DEF DInv, LineInv, Quiet
    <3>2. D = {} /\ W = {}
      BY <2>2, <2>4 DEF DInv, DeviceInv, Owner, Outstanding
    <3>. QED  BY <2>1, <2>2, <2>3, <3>1, <3>2, FS_EmptySet
  <2>5. ASSUME NEW p \in Uproc, pc[p] \in {"waitIO", "check"}, WaitIndex(dev(p)) = n
        PROVE  Answers(n) = Cardinality(W)
    <3>1. dev(p) \in Device /\ Alone(p, dev(p)) /\ PairInv(p)
      BY <2>5, AtWork DEF Running, DInv, DriverInv
    <3>2. \A q \in Uproc : pc[q] \in {"waitIO", "check"} /\ WaitIndex(dev(q)) = n => q = p
      BY <2>5, <3>1 DEF Alone, Running
    <3>3. D = IF Outstanding(dev(p)) THEN {dev(p)} ELSE {}
      <4>1. ASSUME NEW d \in D
            PROVE  d = dev(p) /\ Outstanding(d)
        <5>1. d \in Device /\ WaitIndex(d) = n /\ Outstanding(d)
          BY <2>2 DEF Outstanding
        <5>2. PICK q \in Uproc : Owner(q, d)
          BY <5>1 DEF DInv, DeviceInv
        <5>. QED  BY <3>2, <5>1, <5>2 DEF Owner
      <4>2. Outstanding(dev(p)) => dev(p) \in D
        BY <2>2, <2>5, <3>1 DEF Outstanding
      <4>. QED  BY <4>1, <4>2
    <3>4. W = IF pc[p] = "waitIO" THEN {p} ELSE {}
      BY <2>2, <2>5, <3>2
    <3>5. Cardinality({}) = 0 /\ Cardinality({p}) = 1 /\ Cardinality({dev(p)}) = 1
      BY FS_EmptySet, FS_Singleton
    <3>6. CASE pc[p] = "waitIO"
      <4>1. \/ sem[Io(n)] = 0 /\ Outstanding(dev(p))
            \/ sem[Io(n)] = 1 /\ ~Outstanding(dev(p))
        BY <2>5, <3>1, <3>6 DEF PairInv
      <4>. QED  BY <2>3, <3>3, <3>4, <3>5, <3>6, <4>1
    <3>7. CASE pc[p] = "check"
      <4>1. \/ sem[Io(n)] = -1 /\ Outstanding(dev(p))
            \/ sem[Io(n)] = 0 /\ ~Outstanding(dev(p))
        BY <2>5, <3>1, <3>7 DEF PairInv, Quiet
      <4>. QED  BY <2>3, <3>3, <3>4, <3>5, <3>7, <4>1
    <3>. QED  BY <2>5, <3>6, <3>7
  <2>. QED  BY <2>1, <2>2, <2>4, <2>5
<1>. QED  BY <1>1, DriversInvariant, PTL

\* What a driver returns is true unless its device answered before the SYS5, and
\* printers and flash devices never do.
THEOREM DriversTrueResult == OneClient => (Spec => []TrueResult)
<1>. SUFFICES ASSUME OneClient
              PROVE  Spec => []TrueResult
  OBVIOUS
<1>1. DInv => TrueResult
  BY DEF DInv, DriverInv, ReturnInv, TrueResult, Running
<1>. QED  BY <1>1, DriversInvariant, PTL

=============================================================================
