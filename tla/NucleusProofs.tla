--------------------------- MODULE NucleusProofs ----------------------------
(***************************************************************************)
(* Proofs about module Nucleus, for any number of processes, semaphores    *)
(* and devices and any services requested by test() and the U-procs; the   *)
(* last part needs that only test() creates processes (OnlyTestCreates).   *)
(***************************************************************************)
EXTENDS Nucleus, ListLemmas

\* OnePlace as a relation between the set of live processes, the ready queue,
\* the running process, the semaphore queues and the p_semAdd fields.
Placed(live, rq, cur, bl, sa) ==
  /\ live \subseteq Pcb
  /\ rq \in Seq(Pcb) /\ IsInjective(rq) /\ ToSet(rq) \subseteq live
  /\ bl \in [AllSem -> Seq(Pcb)]
  /\ \A s \in AllSem : IsInjective(bl[s]) /\ ToSet(bl[s]) \subseteq live
  /\ cur \in live \cup {NULL}
  /\ sa \in [Pcb -> AllSem \cup {NULL}]
  /\ \A p \in live :
       /\ \A s \in AllSem : p \in ToSet(bl[s]) <=> sa[p] = s
       /\ p \in ToSet(rq) <=> sa[p] = NULL /\ p # cur
       /\ p = cur => sa[p] = NULL

-----------------------------------------------------------------------------
(***************************************************************************)
(* The moves of a process from place to place.                             *)
(***************************************************************************)

\* scheduler() dispatches the head of the ready queue.
LEMMA Dispatch ==
  ASSUME NEW live, NEW rq, NEW bl, NEW sa,
         Placed(live, rq, NULL, bl, sa), rq # <<>>
  PROVE  /\ Head(rq) \in live
         /\ Placed(live, Tail(rq), Head(rq), bl, sa)
<1>1. rq \in Seq(Pcb) /\ IsInjective(rq) /\ ToSet(rq) \subseteq live
  BY DEF Placed
<1>2. /\ Head(rq) \in ToSet(rq) /\ Tail(rq) \in Seq(Pcb) /\ IsInjective(Tail(rq))
      /\ ToSet(Tail(rq)) = ToSet(rq) \ {Head(rq)}
  BY <1>1, TailMember
<1> QED BY <1>1, <1>2, PcbAssumption DEF Placed

\* The running process goes to the end of the ready queue.
LEMMA Preempt ==
  ASSUME NEW live, NEW rq, NEW c, NEW bl, NEW sa,
         Placed(live, rq, c, bl, sa), c # NULL
  PROVE  Placed(live, Append(rq, c), NULL, bl, sa)
<1>1. rq \in Seq(Pcb) /\ IsInjective(rq) /\ c \in Pcb /\ c \notin ToSet(rq)
  BY DEF Placed
<1>2. /\ Append(rq, c) \in Seq(Pcb) /\ IsInjective(Append(rq, c))
      /\ ToSet(Append(rq, c)) = ToSet(rq) \cup {c}
  BY <1>1, AppendMember
<1> QED BY <1>1, <1>2, PcbAssumption DEF Placed

\* The running process blocks on s.
LEMMA Block ==
  ASSUME NEW live, NEW rq, NEW c, NEW bl, NEW sa, NEW s \in AllSem,
         Placed(live, rq, c, bl, sa), c # NULL
  PROVE  Placed(live, rq, NULL, [bl EXCEPT ![s] = Append(@, c)],
                                [sa EXCEPT ![c] = s])
<1>1. bl[s] \in Seq(Pcb) /\ IsInjective(bl[s]) /\ c \in Pcb /\ c \notin ToSet(bl[s])
  BY SemAssumption DEF Placed
<1>2. /\ Append(bl[s], c) \in Seq(Pcb) /\ IsInjective(Append(bl[s], c))
      /\ ToSet(Append(bl[s], c)) = ToSet(bl[s]) \cup {c}
  BY <1>1, AppendMember
<1> QED BY <1>1, <1>2, PcbAssumption, SemAssumption DEF Placed

\* The first waiter of s becomes ready.
LEMMA Wake ==
  ASSUME NEW live, NEW rq, NEW c, NEW bl, NEW sa, NEW s \in AllSem,
         Placed(live, rq, c, bl, sa), bl[s] # <<>>
  PROVE  Placed(live, Append(rq, Head(bl[s])), c, [bl EXCEPT ![s] = Tail(@)],
                [sa EXCEPT ![Head(bl[s])] = NULL])
<1> DEFINE p == Head(bl[s])
<1>1. /\ bl[s] \in Seq(Pcb) /\ IsInjective(bl[s]) /\ ToSet(bl[s]) \subseteq live
      /\ rq \in Seq(Pcb) /\ IsInjective(rq)
  BY DEF Placed
<1>2. /\ p \in ToSet(bl[s]) /\ Tail(bl[s]) \in Seq(Pcb) /\ IsInjective(Tail(bl[s]))
      /\ ToSet(Tail(bl[s])) = ToSet(bl[s]) \ {p}
  BY <1>1, TailMember
<1>3. p \in live /\ p \in Pcb /\ sa[p] = s /\ p \notin ToSet(rq) /\ p # c
  BY <1>1, <1>2, SemAssumption DEF Placed
<1>4. /\ Append(rq, p) \in Seq(Pcb) /\ IsInjective(Append(rq, p))
      /\ ToSet(Append(rq, p)) = ToSet(rq) \cup {p}
  BY <1>1, <1>3, AppendMember
<1> HIDE DEF p
<1> QED BY <1>1, <1>2, <1>3, <1>4, PcbAssumption, SemAssumption DEF Placed, p

\* Every waiter of s becomes ready.
LEMMA WakeAll ==
  ASSUME NEW live, NEW rq, NEW c, NEW bl, NEW sa, NEW s \in AllSem,
         Placed(live, rq, c, bl, sa)
  PROVE  Placed(live, rq \o bl[s], c, [bl EXCEPT ![s] = <<>>],
                [p \in Pcb |-> IF p \in ToSet(bl[s]) THEN NULL ELSE sa[p]])
<1>1. /\ bl[s] \in Seq(Pcb) /\ IsInjective(bl[s]) /\ ToSet(bl[s]) \subseteq live
      /\ rq \in Seq(Pcb) /\ IsInjective(rq)
  BY DEF Placed
<1>2. ToSet(rq) \cap ToSet(bl[s]) = {}
  BY <1>1, SemAssumption DEF Placed
<1>3. /\ rq \o bl[s] \in Seq(Pcb) /\ IsInjective(rq \o bl[s])
      /\ ToSet(rq \o bl[s]) = ToSet(rq) \cup ToSet(bl[s])
  BY <1>1, <1>2, ConcatMember
<1>4. <<>> \in Seq(Pcb) /\ IsInjective(<<>>) /\ ToSet(<<>>) = {}
  BY DEF IsInjective, ToSet
<1> QED BY <1>1, <1>2, <1>3, <1>4, PcbAssumption, SemAssumption DEF Placed

\* SYS1: a free pcb becomes a ready process.
LEMMA Create ==
  ASSUME NEW live, NEW rq, NEW c, NEW bl, NEW sa, NEW p \in Pcb \ live,
         Placed(live, rq, c, bl, sa)
  PROVE  Placed(live \cup {p}, Append(rq, p), c, bl, [sa EXCEPT ![p] = NULL])
<1>1. rq \in Seq(Pcb) /\ IsInjective(rq) /\ p \notin ToSet(rq)
  BY DEF Placed
<1>2. /\ Append(rq, p) \in Seq(Pcb) /\ IsInjective(Append(rq, p))
      /\ ToSet(Append(rq, p)) = ToSet(rq) \cup {p}
  BY <1>1, AppendMember
<1> QED BY <1>1, <1>2, PcbAssumption, SemAssumption DEF Placed

\* SYS2: a process leaves wherever it is.
LEMMA Die ==
  ASSUME NEW live, NEW rq, NEW c, NEW bl, NEW sa, NEW p \in live,
         Placed(live, rq, c, bl, sa)
  PROVE  Placed(live \ {p}, RemoveFirst(rq, p), IF p = c THEN NULL ELSE c,
                IF sa[p] = NULL THEN bl
                ELSE [bl EXCEPT ![sa[p]] = RemoveFirst(@, p)],
                sa)
<1>1. /\ rq \in Seq(Pcb) /\ IsInjective(rq)
      /\ \A s \in AllSem : bl[s] \in Seq(Pcb) /\ IsInjective(bl[s])
  BY DEF Placed
<1>2. /\ RemoveFirst(rq, p) \in Seq(Pcb) /\ IsInjective(RemoveFirst(rq, p))
      /\ ToSet(RemoveFirst(rq, p)) = ToSet(rq) \ {p}
  BY <1>1, RemoveMember
<1>3. ASSUME NEW s \in AllSem
      PROVE  /\ RemoveFirst(bl[s], p) \in Seq(Pcb) /\ IsInjective(RemoveFirst(bl[s], p))
             /\ ToSet(RemoveFirst(bl[s], p)) = ToSet(bl[s]) \ {p}
  BY <1>1, RemoveMember
<1>4. CASE sa[p] = NULL
  BY <1>1, <1>2, <1>4, PcbAssumption, SemAssumption DEF Placed
<1>5. CASE sa[p] # NULL
  BY <1>1, <1>2, <1>3, <1>5, PcbAssumption, SemAssumption DEF Placed
<1> QED BY <1>4, <1>5

-----------------------------------------------------------------------------
(***************************************************************************)
(* The inductive invariant of the kernel's control state.  TreeInv says    *)
(* that the process tree has no cycle: there is a rank that grows from     *)
(* parent to child, and along the activations of sysTerminate, so that no  *)
(* process is terminated twice.                                            *)
(***************************************************************************)
Ranked(rank) ==
  /\ \A c \in Pcb : p_prnt[c] # NULL =>
       c \in Live \ {Daemon} /\ p_prnt[c] \in Live /\ rank[p_prnt[c]] < rank[c]
  /\ \A i, j \in DOMAIN killStack : i < j => rank[killStack[i]] < rank[killStack[j]]

TreeInv == \E rank \in [Pcb -> Nat] : Ranked(rank)

Core == TypeOK /\ OnePlace /\ ModeInv /\ TreeInv

OtherTypes ==
  /\ freePcbs \subseteq Pcb \ (Template \cup {Daemon})
  /\ p_prnt \in [Pcb -> Pcb \cup {NULL}]
  /\ semVal \in [AllSem -> Int]
  /\ processCount \in Nat
  /\ softBlockCount \in Int
  /\ mode \in Modes
  /\ killStack \in Seq(Pcb)
  /\ ioReq \in [Pcb -> Device \cup {NULL}]
  /\ busy \in [Device -> BOOLEAN]

PlacedNow == Placed(Live, readyQueue, currentProcess, blocked, p_semAdd)

\* TypeOK and OnePlace, regrouped: one part speaks of places, the other of the rest.
LEMMA Split == TypeOK /\ OnePlace <=> OtherTypes /\ PlacedNow
  BY DEF TypeOK, OnePlace, OtherTypes, PlacedNow, Placed, Live

\* The same of the next state.
LEMMA SplitNext == (TypeOK /\ OnePlace)' <=> (OtherTypes /\ PlacedNow)'
  BY Split, PTL

\* What scheduler() establishes from a state in which nobody runs.
LEMMA Scheduled ==
  ASSUME NEW live, NEW rq, NEW procs, NEW soft, NEW bl, NEW sa,
         Placed(live, rq, NULL, bl, sa), soft \in Int,
         scheduler(rq, procs, soft)
  PROVE  /\ Placed(live, readyQueue', currentProcess', bl, sa)
         /\ mode' \in Modes /\ mode' # "kill" /\ mode' # "wild"
         /\ mode' = "run" => currentProcess' # NULL
         /\ mode' # "run" => currentProcess' = NULL /\ readyQueue' = <<>>
         /\ mode' = "panic" => soft <= 0
         /\ mode' = "halt" => procs = 0
<1>1. CASE rq # <<>>
  <2>1. Head(rq) \in live /\ Placed(live, Tail(rq), Head(rq), bl, sa)
    BY <1>1, Dispatch
  <2>2. Head(rq) # NULL
    BY <2>1, PcbAssumption DEF Placed
  <2>3. currentProcess' = Head(rq) /\ readyQueue' = Tail(rq) /\ mode' = "run"
    BY <1>1 DEF scheduler
  <2> QED BY <2>1, <2>2, <2>3 DEF Modes
<1>2. CASE rq = <<>>
  BY <1>2 DEF scheduler, Modes
<1> QED BY <1>1, <1>2

-----------------------------------------------------------------------------
(***************************************************************************)
(* Every action preserves Core.                                            *)
(***************************************************************************)
\* After main() the core invariant holds.
THEOREM InitCore == Init => Core
<1> SUFFICES ASSUME Init PROVE Core
  OBVIOUS
<1> USE PcbAssumption, SemAssumption
<1>1. Live = {Root, Daemon}
  BY DEF Init, Live, BootPcbs
<1>2. /\ <<Daemon>> \in Seq(Pcb) /\ IsInjective(<<Daemon>>)
      /\ ToSet(<<Daemon>>) = {Daemon}
      /\ <<>> \in Seq(Pcb) /\ IsInjective(<<>>) /\ ToSet(<<>>) = {}
  BY DEF IsInjective, ToSet
<1>3. TypeOK
  BY <1>2 DEF Init, TypeOK, BootPcbs, Modes
<1>4. OnePlace
  BY <1>1, <1>2 DEF Init, OnePlace
<1>5. ModeInv
  BY <1>2 DEF Init, ModeInv
<1>6. TreeInv
  <2>1. [p \in Pcb |-> 0] \in [Pcb -> Nat]
    OBVIOUS
  <2>2. Ranked([p \in Pcb |-> 0])
    BY DEF Init, Ranked
  <2> QED BY <2>1, <2>2 DEF TreeInv
<1> QED BY <1>3, <1>4, <1>5, <1>6 DEF Core

\* SYS1: the new child ranks above its creator.
LEMMA CreateCore == Core /\ sysCreateProcess => Core'
<1> SUFFICES ASSUME Core, sysCreateProcess PROVE Core'
  OBVIOUS
<1> USE PcbAssumption, SemAssumption
<1>1. OtherTypes /\ PlacedNow /\ ModeInv /\ TreeInv
  BY Split DEF Core
<1>2. PICK p \in freePcbs :
        /\ freePcbs' = freePcbs \ {p}
        /\ p_prnt' = [p_prnt EXCEPT ![p] = currentProcess]
        /\ p_semAdd' = [p_semAdd EXCEPT ![p] = NULL]
        /\ readyQueue' = Append(readyQueue, p)
  BY DEF sysCreateProcess
<1>3. /\ processCount' = processCount + 1
      /\ UNCHANGED <<currentProcess, semVal, blocked, softBlockCount, mode,
                     killStack, ioReq, busy>>
      /\ mode = "run"
  BY DEF sysCreateProcess, Requests
<1>4. /\ currentProcess \in Live /\ currentProcess # p /\ currentProcess # NULL
      /\ currentProcess # Daemon
  <2>1. currentProcess \in Live /\ currentProcess # NULL
    BY <1>1, <1>3 DEF ModeInv, PlacedNow, Placed
  <2>2. currentProcess # Daemon
    BY CallsAssumption DEF sysCreateProcess, Requests, MayCall
  <2> QED BY <2>1, <2>2, <1>2 DEF Live
<1>5. p \in Pcb \ Live /\ Live' = Live \cup {p} /\ p # Daemon
  BY <1>1, <1>2 DEF Live, OtherTypes
<1>6. PlacedNow'
  BY <1>1, <1>2, <1>3, <1>5, Create DEF PlacedNow
<1>7. OtherTypes'
  BY <1>1, <1>2, <1>3, <1>4 DEF OtherTypes, Live
<1>8. ModeInv'
  BY <1>1, <1>3, <1>5 DEF ModeInv
<1>9. TreeInv'
  <2>1. PICK rank \in [Pcb -> Nat] : Ranked(rank)
    BY <1>1 DEF TreeInv
  <2>2. PICK r \in [Pcb -> Nat] : r = [rank EXCEPT ![p] = rank[currentProcess] + 1]
    <3>1. rank[currentProcess] + 1 \in Nat
      BY <1>4 DEF Live
    <3>2. [rank EXCEPT ![p] = rank[currentProcess] + 1] \in [Pcb -> Nat]
      BY <3>1
    <3> QED BY <3>2
  <2>3. killStack' = <<>>
    BY <1>1, <1>3 DEF ModeInv
  <2>4. ASSUME NEW c \in Pcb, p_prnt'[c] # NULL
        PROVE  c \in Live' \ {Daemon} /\ p_prnt'[c] \in Live' /\ r[p_prnt'[c]] < r[c]
    <3>1. CASE c = p
      BY <3>1, <2>2, <1>1, <1>2, <1>4, <1>5 DEF OtherTypes, Live
    <3>2. CASE c # p
      <4>1. p_prnt'[c] = p_prnt[c]
        BY <3>2, <1>1, <1>2 DEF OtherTypes
      <4>2. c \in Live \ {Daemon} /\ p_prnt[c] \in Live /\ rank[p_prnt[c]] < rank[c]
        BY <4>1, <2>1, <2>4 DEF Ranked
      <4>3. p_prnt[c] # p
        BY <4>2, <1>5
      <4> QED BY <4>1, <4>2, <4>3, <3>2, <2>2, <1>5 DEF Live
    <3> QED BY <3>1, <3>2
  <2>5. Ranked(r)'
    BY <2>3, <2>4 DEF Ranked
  <2> QED BY <2>2, <2>5 DEF TreeInv
<1> QED BY <1>6, <1>7, <1>8, <1>9, SplitNext DEF Core

\* What leaves the tree and the kill stack alone.
LEMMA TreeKept == TreeInv /\ UNCHANGED <<tree, killStack>> => TreeInv'
  BY DEF TreeInv, Ranked, Live, tree

\* Outside sysTerminate: dispatched somebody, or holds nobody.
Settled ==
  /\ mode \in Modes /\ mode # "kill"
  /\ mode = "run" => currentProcess # NULL
  /\ mode # "run" => currentProcess = NULL /\ readyQueue = <<>>
  /\ mode = "panic" => softBlockCount <= 0

\* A settled processor satisfies ModeInv.
LEMMA SettledMode == killStack = <<>> /\ Settled => ModeInv
  BY DEF Settled, ModeInv, ToSet

\* The same of the next state.
LEMMA SettledModeNext == (killStack = <<>> /\ Settled)' => ModeInv'
  BY SettledMode, PTL

\* A P of the running process, for any semaphore and soft-block count.
LEMMA PasserenCore ==
  ASSUME Core, mode = "run", NEW s \in AllSem, NEW soft \in Int,
         passeren(s, soft), UNCHANGED <<tree, killStack, busy>>,
         ioReq' \in [Pcb -> Device \cup {NULL}]
  PROVE  Core'
<1> USE PcbAssumption, SemAssumption
<1>1. OtherTypes /\ PlacedNow /\ ModeInv /\ TreeInv
  BY Split DEF Core
<1>2. /\ semVal' = [semVal EXCEPT ![s] = @ - 1]
      /\ softBlockCount' = soft
      /\ Live' = Live /\ UNCHANGED <<freePcbs, p_prnt, processCount, killStack, busy>>
  BY DEF passeren, Live, tree
<1>3. currentProcess # NULL /\ killStack = <<>>
  BY <1>1 DEF ModeInv
<1>4. PlacedNow' /\ Settled'
  <2>1. CASE semVal[s] <= 0
    <3>1. /\ p_semAdd' = [p_semAdd EXCEPT ![currentProcess] = s]
          /\ blocked' = [blocked EXCEPT ![s] = Append(@, currentProcess)]
          /\ scheduler(readyQueue, processCount, soft)
      BY <2>1, <1>1 DEF passeren, OtherTypes
    <3>2. Placed(Live, readyQueue, NULL, blocked', p_semAdd')
      BY <3>1, <1>1, <1>3, Block DEF PlacedNow
    <3> QED BY <3>1, <3>2, <1>2, Scheduled DEF PlacedNow, Settled
  <2>2. CASE semVal[s] > 0
    <3>1. UNCHANGED <<asl, queues>>
      BY <2>2, <1>1 DEF passeren, OtherTypes
    <3> QED BY <3>1, <1>1, <1>2, <1>3 DEF PlacedNow, Settled, asl, queues, Modes
  <2>3. semVal[s] \in Int
    BY <1>1 DEF OtherTypes
  <2> QED BY <2>1, <2>2, <2>3
<1>5. OtherTypes'
  BY <1>1, <1>2, <1>4 DEF OtherTypes, Settled
<1>6. ModeInv' /\ TreeInv'
  BY <1>1, <1>2, <1>3, <1>4, SettledModeNext, TreeKept
<1> QED BY <1>4, <1>5, <1>6, SplitNext DEF Core

\* SYS3.
LEMMA SysPasserenCore ==
  ASSUME Core, NEW s \in Sem, sysPasseren(s) PROVE Core'
<1>1. /\ mode = "run" /\ s \in AllSem /\ softBlockCount \in Int
      /\ passeren(s, softBlockCount) /\ UNCHANGED <<tree, killStack, busy>>
      /\ ioReq' \in [Pcb -> Device \cup {NULL}]
  BY DEF sysPasseren, Requests, io, Core, TypeOK, AllSem
<1> QED BY <1>1, PasserenCore

\* SYS5.
LEMMA WaitIOCore == Core /\ sysWaitIO => Core'
<1> SUFFICES ASSUME Core, sysWaitIO PROVE Core'
  OBVIOUS
<1>1. currentProcess \in Pcb
  BY DEF Core, TypeOK, ModeInv, sysWaitIO
<1>2. /\ mode = "run" /\ ioReq[currentProcess] \in AllSem /\ softBlockCount + 1 \in Int
      /\ passeren(ioReq[currentProcess], softBlockCount + 1)
      /\ UNCHANGED <<tree, killStack, busy>>
      /\ ioReq' \in [Pcb -> Device \cup {NULL}]
  BY <1>1 DEF sysWaitIO, Core, TypeOK, AllSem
<1> QED BY <1>2, PasserenCore

\* SYS7.
LEMMA WaitClockCore == Core /\ sysWaitClock => Core'
<1> SUFFICES ASSUME Core, sysWaitClock PROVE Core'
  OBVIOUS
<1>1. /\ mode = "run" /\ Clock \in AllSem /\ softBlockCount + 1 \in Int
      /\ passeren(Clock, softBlockCount + 1)
      /\ UNCHANGED <<tree, killStack, busy>>
      /\ ioReq' \in [Pcb -> Device \cup {NULL}]
  BY DEF sysWaitClock, Requests, io, Core, TypeOK, AllSem
<1> QED BY <1>1, PasserenCore

\* SYS4: the first waiter becomes ready.
LEMMA VerhogenCore ==
  ASSUME Core, NEW s \in Sem, sysVerhogen(s) PROVE Core'
<1> USE PcbAssumption, SemAssumption
<1>1. OtherTypes /\ PlacedNow /\ ModeInv /\ TreeInv
  BY Split DEF Core
<1>2. /\ semVal' = [semVal EXCEPT ![s] = @ + 1] /\ s \in AllSem
      /\ UNCHANGED <<tree, freePcbs, p_prnt, processCount, currentProcess, mode,
                     softBlockCount, killStack, ioReq, busy>>
      /\ Live' = Live /\ mode = "run"
  BY DEF sysVerhogen, Requests, tree, io, Live, AllSem
<1>3. PlacedNow'
  <2>1. CASE semVal[s] < 0 /\ blocked[s] # <<>>
    <3>1. /\ blocked' = [blocked EXCEPT ![s] = Tail(@)]
          /\ p_semAdd' = [p_semAdd EXCEPT ![Head(blocked[s])] = NULL]
          /\ readyQueue' = Append(readyQueue, Head(blocked[s]))
      BY <2>1, <1>1, <1>2 DEF sysVerhogen, removeBlocked, OtherTypes
    <3>2. Placed(Live, Append(readyQueue, Head(blocked[s])), currentProcess,
                 [blocked EXCEPT ![s] = Tail(@)],
                 [p_semAdd EXCEPT ![Head(blocked[s])] = NULL])
      BY <2>1, <1>1, <1>2, Wake DEF PlacedNow
    <3> QED BY <3>1, <3>2, <1>2 DEF PlacedNow
  <2>2. CASE ~(semVal[s] < 0 /\ blocked[s] # <<>>)
    BY <2>2, <1>1, <1>2 DEF sysVerhogen, PlacedNow, asl
  <2> QED BY <2>1, <2>2
<1>4. OtherTypes'
  BY <1>1, <1>2 DEF OtherTypes
<1>5. ModeInv' /\ TreeInv'
  BY <1>1, <1>2, TreeKept DEF ModeInv
<1> QED BY <1>3, <1>4, <1>5, SplitNext DEF Core

\* A command to a device.
LEMMA IssueCore ==
  ASSUME Core, NEW d \in Device, issueCommand(d) PROVE Core'
<1>1. OtherTypes /\ PlacedNow /\ ModeInv /\ TreeInv
  BY Split DEF Core
<1>2. OtherTypes'
  BY <1>1 DEF issueCommand, OtherTypes, tree, queues
<1>3. PlacedNow' /\ ModeInv' /\ TreeInv'
  BY <1>1, TreeKept DEF issueCommand, PlacedNow, ModeInv, Live, tree, queues, asl
<1> QED BY <1>2, <1>3, SplitNext DEF Core

-----------------------------------------------------------------------------
\* The end of an interrupt handler, in a state from which interrupts are taken.
LEMMA Resumed ==
  ASSUME ModeInv, mode \in {"run", "wait"}, NEW rq, NEW soft \in Int, NEW bl, NEW sa,
         Placed(Live, rq, currentProcess, bl, sa), resume(rq, soft),
         softBlockCount' = soft
  PROVE  Placed(Live, readyQueue', currentProcess', bl, sa) /\ Settled'
<1>1. CASE currentProcess # NULL
  BY <1>1 DEF resume, Settled, Modes, ModeInv
<1>2. CASE currentProcess = NULL
  BY <1>2, Scheduled DEF resume, Settled
<1> QED BY <1>1, <1>2

\* The end of a time slice.
LEMMA PLTCore == Core /\ handlePLTInterrupt => Core'
<1> SUFFICES ASSUME Core, handlePLTInterrupt PROVE Core'
  OBVIOUS
<1>1. OtherTypes /\ PlacedNow /\ ModeInv /\ TreeInv
  BY Split DEF Core
<1>2. /\ mode = "run" /\ Live' = Live
      /\ UNCHANGED <<tree, freePcbs, p_prnt, processCount, p_semAdd, blocked, semVal,
                     softBlockCount, killStack, ioReq, busy>>
  BY DEF handlePLTInterrupt, tree, asl, io, Live
<1>3. currentProcess # NULL /\ killStack = <<>> /\ softBlockCount \in Int
  BY <1>1, <1>2 DEF ModeInv, OtherTypes
<1>4. Placed(Live, Append(readyQueue, currentProcess), NULL, blocked, p_semAdd)
  BY <1>1, <1>3, Preempt DEF PlacedNow
<1>5. PlacedNow' /\ Settled'
  BY <1>2, <1>3, <1>4, Scheduled DEF handlePLTInterrupt, PlacedNow, Settled
<1>6. OtherTypes'
  BY <1>1, <1>2, <1>5 DEF OtherTypes, Settled
<1>7. ModeInv' /\ TreeInv'
  BY <1>1, <1>2, <1>3, <1>5, SettledModeNext, TreeKept
<1> QED BY <1>5, <1>6, <1>7, SplitNext DEF Core

\* The interval timer: every waiter of the pseudo-clock becomes ready.
LEMMA TickCore == Core /\ handleIntervalTimerInterrupt => Core'
<1> SUFFICES ASSUME Core, handleIntervalTimerInterrupt PROVE Core'
  OBVIOUS
<1>1. OtherTypes /\ PlacedNow /\ ModeInv /\ TreeInv
  BY Split DEF Core
<1>2. /\ mode \in {"run", "wait"} /\ Live' = Live
      /\ UNCHANGED <<tree, freePcbs, p_prnt, processCount, softBlockCount, killStack,
                     ioReq, busy>>
      /\ blocked' = [blocked EXCEPT ![Clock] = <<>>]
      /\ p_semAdd' = [p \in Pcb |-> IF p \in ToSet(blocked[Clock])
                                    THEN NULL ELSE p_semAdd[p]]
      /\ semVal' = [semVal EXCEPT ![Clock] = 0]
      /\ resume(readyQueue \o blocked[Clock], softBlockCount)
  BY DEF handleIntervalTimerInterrupt, InterruptsOn, tree, io, Live
<1>3. killStack = <<>> /\ softBlockCount \in Int /\ Clock \in AllSem
  BY <1>1, <1>2 DEF ModeInv, OtherTypes, AllSem
<1>4. Placed(Live, readyQueue \o blocked[Clock], currentProcess, blocked', p_semAdd')
  <2>1. Placed(Live, readyQueue \o blocked[Clock], currentProcess,
               [blocked EXCEPT ![Clock] = <<>>],
               [p \in Pcb |-> IF p \in ToSet(blocked[Clock]) THEN NULL ELSE p_semAdd[p]])
    BY <1>1, <1>3, WakeAll DEF PlacedNow
  <2> QED BY <2>1, <1>2
<1>5. PlacedNow' /\ Settled'
  BY <1>1, <1>2, <1>3, <1>4, Resumed DEF PlacedNow
<1>6. OtherTypes'
  <2>1. semVal' \in [AllSem -> Int]
    <3>1. semVal' = [semVal EXCEPT ![Clock] = 0] /\ semVal \in [AllSem -> Int]
      BY <1>1, <1>2 DEF OtherTypes
    <3>2. semVal' = [s \in AllSem |-> IF s = Clock THEN 0 ELSE semVal[s]]
      BY <3>1
    <3>3. \A s \in AllSem : (IF s = Clock THEN 0 ELSE semVal[s]) \in Int
      BY <3>1
    <3> QED BY <3>2, <3>3
  <2>2. /\ mode' \in Modes
        /\ UNCHANGED <<freePcbs, p_prnt, processCount, softBlockCount, killStack, ioReq, busy>>
    BY <1>2, <1>5 DEF Settled
  <2> QED BY <2>1, <2>2, <1>1 DEF OtherTypes
<1>7. ModeInv' /\ TreeInv'
  BY <1>1, <1>2, <1>3, <1>5, SettledModeNext, TreeKept
<1> QED BY <1>5, <1>6, <1>7, SplitNext DEF Core

\* A device interrupt, with a waiter, without one, or with no need of one.
LEMMA DeviceCore ==
  ASSUME Core, NEW d \in Device, handleDeviceInterrupt(d) PROVE Core'
<1>1. OtherTypes /\ PlacedNow /\ ModeInv /\ TreeInv
  BY Split DEF Core
<1>2. /\ mode \in {"run", "wait"} /\ Live' = Live
      /\ UNCHANGED <<tree, freePcbs, p_prnt, processCount, killStack, ioReq>>
      /\ busy' = [busy EXCEPT ![d] = FALSE]
      /\ semVal' = [semVal EXCEPT ![d] = @ + 1]
  BY DEF handleDeviceInterrupt, InterruptsOn, tree, Live
<1>3. killStack = <<>> /\ softBlockCount \in Int /\ d \in AllSem
  BY <1>1, <1>2 DEF ModeInv, OtherTypes, AllSem
<1>4. PlacedNow' /\ Settled' /\ softBlockCount' \in Int
  <2>1. CASE /\ semVal[d] < 0 /\ blocked[d] # <<>>
             /\ removeBlocked(d)
             /\ softBlockCount' = softBlockCount - 1
             /\ resume(Append(readyQueue, Head(blocked[d])), softBlockCount - 1)
    <3>1. Placed(Live, Append(readyQueue, Head(blocked[d])), currentProcess,
                 blocked', p_semAdd')
      BY <2>1, <1>1, <1>3, Wake DEF PlacedNow, removeBlocked
    <3> QED BY <2>1, <3>1, <1>1, <1>2, <1>3, Resumed DEF PlacedNow
  <2>2. CASE /\ semVal[d] < 0 /\ blocked[d] = <<>>
             /\ resume(readyQueue, softBlockCount)
             /\ UNCHANGED <<asl, softBlockCount>>
    <3>1. Placed(Live, readyQueue, currentProcess, blocked', p_semAdd')
      BY <2>2, <1>1 DEF PlacedNow, asl
    <3> QED BY <2>2, <3>1, <1>1, <1>2, <1>3, Resumed DEF PlacedNow
  <2>3. CASE /\ mode' = IF mode = "wait" THEN "wild" ELSE mode
             /\ UNCHANGED <<asl, readyQueue, currentProcess, softBlockCount>>
    BY <2>3, <1>1, <1>2, <1>3 DEF PlacedNow, asl, Settled, ModeInv, Modes
  <2> QED BY <2>1, <2>2, <2>3 DEF handleDeviceInterrupt
<1>5. OtherTypes'
  BY <1>1, <1>2, <1>3, <1>4 DEF OtherTypes, Settled
<1>6. ModeInv' /\ TreeInv'
  BY <1>1, <1>2, <1>3, <1>4, SettledModeNext, TreeKept
<1> QED BY <1>4, <1>5, <1>6, SplitNext DEF Core

-----------------------------------------------------------------------------
\* SYS2 begins: the daemon never asks for it.
LEMMA TerminateCore == Core /\ sysTerminate => Core'
<1> SUFFICES ASSUME Core, sysTerminate PROVE Core'
  OBVIOUS
<1> USE PcbAssumption, SemAssumption
<1>1. OtherTypes /\ PlacedNow /\ ModeInv /\ TreeInv
  BY Split DEF Core
<1>2. /\ mode = "run" /\ mode' = "kill" /\ killStack' = <<currentProcess>>
      /\ Live' = Live
      /\ UNCHANGED <<freePcbs, p_prnt, processCount, p_semAdd, blocked, readyQueue,
                     currentProcess, semVal, softBlockCount, ioReq, busy>>
  BY DEF sysTerminate, Requests, tree, asl, io, Live
<1>3. currentProcess \in Live \ {Daemon} /\ currentProcess \in Pcb
  <2>1. currentProcess \in Live /\ currentProcess # NULL
    BY <1>1, <1>2 DEF ModeInv, PlacedNow, Placed
  <2>2. currentProcess # Daemon
    BY CallsAssumption DEF sysTerminate, Requests, MayCall
  <2> QED BY <2>1, <2>2 DEF Live
<1>4. /\ killStack' \in Seq(Pcb) /\ ToSet(killStack') = {currentProcess}
      /\ killStack' # <<>> /\ killStack'[1] = currentProcess
      /\ DOMAIN killStack' = {1}
  BY <1>2, <1>3 DEF ToSet
<1>5. PlacedNow' /\ OtherTypes'
  BY <1>1, <1>2, <1>4 DEF PlacedNow, OtherTypes, Modes
<1>6. ModeInv'
  BY <1>2, <1>3, <1>4, PcbAssumption DEF ModeInv, Live
<1>7. TreeInv'
  BY <1>1, <1>2, <1>4 DEF TreeInv, Ranked
<1> QED BY <1>5, <1>6, <1>7, SplitNext DEF Core

\* One call of sysTerminate on a child.
LEMMA ChildCore == Core /\ terminateChild => Core'
<1> SUFFICES ASSUME Core, terminateChild PROVE Core'
  OBVIOUS
<1> USE PcbAssumption, SemAssumption
<1>1. OtherTypes /\ PlacedNow /\ ModeInv /\ TreeInv
  BY Split DEF Core
<1>2. PICK c \in Children(Last(killStack)) :
        /\ p_prnt' = [p_prnt EXCEPT ![c] = NULL]
        /\ killStack' = Append(killStack, c)
  BY DEF terminateChild
<1>3. /\ mode = "kill" /\ mode' = "kill" /\ Live' = Live
      /\ UNCHANGED <<freePcbs, processCount, p_semAdd, blocked, readyQueue,
                     currentProcess, semVal, softBlockCount, ioReq, busy>>
  BY DEF terminateChild, asl, queues, io, Live
<1> DEFINE n == Len(killStack)
<1>4. /\ killStack \in Seq(Pcb) /\ killStack # <<>> /\ n \in Nat \ {0}
      /\ DOMAIN killStack = 1 .. n /\ Last(killStack) = killStack[n]
      /\ killStack[n] \in Pcb
  <2>1. killStack \in Seq(Pcb) /\ killStack # <<>>
    BY <1>1, <1>3 DEF ModeInv, OtherTypes
  <2>2. /\ n \in Nat \ {0} /\ DOMAIN killStack = 1 .. n
        /\ Last(killStack) = killStack[n] /\ Last(killStack) \in Pcb
    BY <2>1, FrontLast
  <2> QED BY <2>1, <2>2
<1>5. PICK rank \in [Pcb -> Nat] : Ranked(rank)
  BY <1>1 DEF TreeInv
<1>6. c \in Pcb /\ c \in Live \ {Daemon} /\ rank[killStack[n]] < rank[c]
  <2>1. c \in Pcb /\ p_prnt[c] = killStack[n] /\ p_prnt[c] # NULL
    BY <1>2, <1>4 DEF Children
  <2> QED BY <2>1, <1>5 DEF Ranked
<1>7. /\ killStack' \in Seq(Pcb) /\ Len(killStack') = n + 1
      /\ DOMAIN killStack' = 1 .. n + 1 /\ killStack'[n + 1] = c
      /\ \A i \in 1 .. n : killStack'[i] = killStack[i]
      /\ ToSet(killStack') = ToSet(killStack) \cup {c}
  BY <1>2, <1>4, <1>6, AppendProperties, AppendMember, LenProperties
<1>8. PlacedNow'
  BY <1>1, <1>3 DEF PlacedNow
<1>9. OtherTypes'
  BY <1>1, <1>2, <1>3, <1>7 DEF OtherTypes
<1>10. ModeInv'
  BY <1>1, <1>3, <1>4, <1>6, <1>7 DEF ModeInv
<1>11. TreeInv'
  <2>1. ASSUME NEW x \in Pcb, p_prnt'[x] # NULL
        PROVE  /\ x \in Live' \ {Daemon} /\ p_prnt'[x] \in Live'
               /\ rank[p_prnt'[x]] < rank[x]
    <3>1. p_prnt'[x] = p_prnt[x]
      BY <2>1, <1>1, <1>2, <1>6 DEF OtherTypes
    <3> QED BY <3>1, <2>1, <1>3, <1>5 DEF Ranked
  <2>2. ASSUME NEW i \in 1 .. n + 1, NEW j \in 1 .. n + 1, i < j
        PROVE  rank[killStack'[i]] < rank[killStack'[j]]
    <3>1. killStack'[i] = killStack[i] /\ killStack[i] \in Pcb /\ i \in 1 .. n
      BY <2>2, <1>4, <1>7, ElementOfSeq
    <3>2. CASE j = n + 1
      <4>1. i = n \/ rank[killStack[i]] < rank[killStack[n]]
        <5>1. i \in DOMAIN killStack /\ n \in DOMAIN killStack /\ (i = n \/ i < n)
          <6>1. n \in Nat \ {0} /\ DOMAIN killStack = 1 .. n /\ i \in 1 .. n
            BY <3>1, <1>4
          <6> HIDE DEF n
          <6> QED BY <6>1
        <5> HIDE DEF n
        <5>2. i < n => rank[killStack[i]] < rank[killStack[n]]
          BY <5>1, <1>5 DEF Ranked
        <5> QED BY <5>1, <5>2
      <4>2. /\ rank[killStack[i]] \in Nat /\ rank[killStack[n]] \in Nat
            /\ rank[c] \in Nat
        BY <3>1, <1>4, <1>6
      <4> QED BY <4>1, <4>2, <3>1, <3>2, <1>6, <1>7
    <3>3. CASE j # n + 1
      <4>1. /\ i \in DOMAIN killStack /\ j \in DOMAIN killStack
            /\ killStack'[j] = killStack[j]
        BY <3>1, <3>3, <1>4, <1>7
      <4> QED BY <4>1, <3>1, <2>2, <1>5 DEF Ranked
    <3> QED BY <3>2, <3>3
  <2>3. Ranked(rank)'
    BY <2>1, <2>2, <1>7 DEF Ranked
  <2> QED BY <2>3 DEF TreeInv
<1> QED BY <1>8, <1>9, <1>10, <1>11, SplitNext DEF Core

\* Nobody is twice on the kill stack, and its first element is the caller.
LEMMA KillStack ==
  ASSUME Core, mode = "kill", NEW p, p = Last(killStack)
  PROVE  /\ p \in Live \ {Daemon} /\ p \in Pcb
         /\ Front(killStack) \in Seq(Pcb)
         /\ ToSet(Front(killStack)) \subseteq (Live \ {Daemon}) \ {p}
         /\ p = currentProcess => Front(killStack) = <<>>
         /\ p # currentProcess => /\ Front(killStack) # <<>>
                                  /\ Front(killStack)[1] = currentProcess
         /\ currentProcess # NULL
<1> DEFINE n == Len(killStack)
           F == Front(killStack)
<1>1. /\ killStack \in Seq(Pcb) /\ killStack # <<>> /\ killStack[1] = currentProcess
      /\ ToSet(killStack) \subseteq Live \ {Daemon} /\ currentProcess # NULL
  BY DEF Core, TypeOK, ModeInv
<1>2. /\ F \in Seq(Pcb) /\ n \in Nat \ {0} /\ Len(F) = n - 1
      /\ DOMAIN killStack = 1 .. n /\ DOMAIN F = 1 .. n - 1 /\ p = killStack[n]
      /\ \A i \in 1 .. n - 1 : F[i] = killStack[i]
  BY <1>1, FrontLast
<1>3. PICK rank \in [Pcb -> Nat] : Ranked(rank)
  BY DEF Core, TreeInv
<1>4. ASSUME NEW i \in 1 .. n - 1 PROVE killStack[i] # p
  <2>1. i \in DOMAIN killStack /\ n \in DOMAIN killStack /\ i < n
    BY <1>2
  <2>2. rank[killStack[i]] < rank[killStack[n]] /\ killStack[n] \in Pcb
    <3> HIDE DEF n
    <3> QED BY <2>1, <1>1, <1>3, ElementOfSeq DEF Ranked
  <2>3. rank[p] \in Nat
    BY <2>2, <1>2
  <2> QED BY <2>2, <2>3, <1>2
<1>5. p \in Live \ {Daemon} /\ p \in Pcb
  BY <1>1, <1>2 DEF ToSet, Live
<1>6. ToSet(F) \subseteq (Live \ {Daemon}) \ {p}
  <2> SUFFICES ASSUME NEW i \in 1 .. n - 1 PROVE F[i] \in (Live \ {Daemon}) \ {p}
    BY <1>2 DEF ToSet
  <2>1. F[i] = killStack[i] /\ i \in DOMAIN killStack
    BY <1>2
  <2> QED BY <2>1, <1>1, <1>4 DEF ToSet
<1>7. p = currentProcess => F = <<>>
  <2>1. n > 1 => p # killStack[1]
    BY <1>2, <1>4
  <2>2. p = currentProcess => Len(F) = 0
    BY <2>1, <1>1, <1>2
  <2> QED BY <2>2, <1>2, EmptySeq
<1>8. p # currentProcess => F # <<>> /\ F[1] = currentProcess
  <2>1. p # currentProcess => n > 1
    BY <1>1, <1>2
  <2>2. p # currentProcess => Len(F) # 0 /\ F[1] = currentProcess
    BY <2>1, <1>1, <1>2
  <2> QED BY <2>2, <1>2, EmptySeq
<1> QED BY <1>1, <1>2, <1>5, <1>6, <1>7, <1>8

\* The rest of one call of sysTerminate.
LEMMA SelfCore == Core /\ terminateSelf => Core'
<1> SUFFICES ASSUME Core, terminateSelf PROVE Core'
  OBVIOUS
<1> USE PcbAssumption, SemAssumption
<1>1. OtherTypes /\ PlacedNow /\ ModeInv /\ TreeInv
  BY Split DEF Core
<1> DEFINE p == Last(killStack)
           rq == RemoveFirst(readyQueue, p)
           procs == oneProcessLess(processCount)
           bl == IF p_semAdd[p] = NULL THEN blocked
                 ELSE [blocked EXCEPT ![p_semAdd[p]] = RemoveFirst(@, p)]
           cur == IF p = currentProcess THEN NULL ELSE currentProcess
<1>2. /\ mode = "kill" /\ Children(p) = {} /\ leaveSemaphore(p)
      /\ p_prnt' = [p_prnt EXCEPT ![p] = NULL]
      /\ ioReq' = [ioReq EXCEPT ![p] = NULL]
      /\ freePcbs' = freePcbs \cup {p}
      /\ processCount' = procs
      /\ killStack' = Front(killStack)
      /\ UNCHANGED <<p_semAdd, busy>>
      /\ \/ procs = 0 /\ mode' = "halt" /\ readyQueue' = rq /\ currentProcess' = cur
         \/ /\ procs # 0 /\ p # currentProcess
            /\ readyQueue' = rq /\ UNCHANGED <<currentProcess, mode>>
         \/ procs # 0 /\ p = currentProcess /\ scheduler(rq, procs, softBlockCount')
  BY DEF terminateSelf
<1>3. /\ p \in Live \ {Daemon} /\ p \in Pcb
      /\ killStack' \in Seq(Pcb)
      /\ ToSet(killStack') \subseteq (Live \ {Daemon}) \ {p}
      /\ p = currentProcess => killStack' = <<>>
      /\ p # currentProcess => killStack' # <<>> /\ killStack'[1] = currentProcess
      /\ currentProcess # NULL
  BY <1>2, KillStack
<1>4. Live' = Live \ {p}
  BY <1>2, <1>3 DEF Live
<1>5. blocked' = bl /\ softBlockCount' \in Int /\ semVal' \in [AllSem -> Int]
  BY <1>1, <1>2, <1>3 DEF leaveSemaphore, OtherTypes, AllSem
<1>6. procs \in Nat
  BY <1>1 DEF oneProcessLess, OtherTypes
<1>7. Placed(Live \ {p}, rq, cur, bl, p_semAdd)
  BY <1>1, <1>3, Die DEF PlacedNow
<1> HIDE DEF rq, procs, bl, cur, p
<1>8. PlacedNow' /\ ModeInv' /\ mode' \in Modes
  <2>1. CASE procs = 0 /\ mode' = "halt" /\ readyQueue' = rq /\ currentProcess' = cur
    <3>1. PlacedNow'
      BY <2>1, <1>2, <1>4, <1>5, <1>7 DEF PlacedNow
    <3>2. ModeInv' /\ mode' \in Modes
      BY <2>1, <1>3, <1>4 DEF ModeInv, Modes
    <3> QED BY <3>1, <3>2
  <2>2. CASE /\ procs # 0 /\ p # currentProcess
             /\ readyQueue' = rq /\ UNCHANGED <<currentProcess, mode>>
    <3>1. PlacedNow'
      BY <2>2, <1>2, <1>4, <1>5, <1>7 DEF PlacedNow, cur
    <3>2. ModeInv' /\ mode' \in Modes
      BY <2>2, <1>2, <1>3, <1>4 DEF ModeInv, Modes
    <3> QED BY <3>1, <3>2
  <2>3. CASE procs # 0 /\ p = currentProcess /\ scheduler(rq, procs, softBlockCount')
    <3>1. Placed(Live', rq, NULL, blocked', p_semAdd')
      BY <2>3, <1>2, <1>4, <1>5, <1>7 DEF cur
    <3>2. PlacedNow' /\ Settled'
      BY <2>3, <3>1, <1>5, Scheduled DEF PlacedNow, Settled
    <3>3. killStack' = <<>>
      BY <2>3, <1>3
    <3> QED BY <3>2, <3>3, SettledModeNext DEF Settled
  <2> QED BY <2>1, <2>2, <2>3, <1>2
<1>9. OtherTypes'
  <2>1. freePcbs' \subseteq Pcb \ (Template \cup {Daemon})
    BY <1>1, <1>2, <1>3 DEF OtherTypes, Live
  <2>2. p_prnt' \in [Pcb -> Pcb \cup {NULL}] /\ ioReq' \in [Pcb -> Device \cup {NULL}]
    BY <1>1, <1>2, <1>3 DEF OtherTypes
  <2> QED BY <2>1, <2>2, <1>1, <1>2, <1>3, <1>5, <1>6, <1>8 DEF OtherTypes
<1>10. TreeInv'
  <2>1. PICK rank \in [Pcb -> Nat] : Ranked(rank)
    BY <1>1 DEF TreeInv
  <2>2. ASSUME NEW x \in Pcb, p_prnt'[x] # NULL
        PROVE  /\ x \in Live' \ {Daemon} /\ p_prnt'[x] \in Live'
               /\ rank[p_prnt'[x]] < rank[x]
    <3>1. p_prnt'[x] = p_prnt[x] /\ x # p /\ p_prnt[x] # p
      BY <2>2, <1>1, <1>2, <1>3 DEF OtherTypes, Children
    <3> QED BY <3>1, <2>1, <2>2, <1>4 DEF Ranked
  <2>3. ASSUME NEW i \in DOMAIN killStack', NEW j \in DOMAIN killStack', i < j
        PROVE  rank[killStack'[i]] < rank[killStack'[j]]
    <3>1. killStack \in Seq(Pcb) /\ killStack # <<>>
      BY <1>1, <1>2 DEF OtherTypes, ModeInv
    <3>2. /\ Len(killStack) \in Nat \ {0} /\ DOMAIN killStack = 1 .. Len(killStack)
          /\ DOMAIN killStack' = 1 .. Len(killStack) - 1
          /\ \A k \in 1 .. Len(killStack) - 1 : killStack'[k] = killStack[k]
      BY <3>1, <1>2, FrontLast, ZenonT(40)
    <3>3. i \in DOMAIN killStack /\ j \in DOMAIN killStack
      BY <3>2
    <3> QED BY <3>2, <3>3, <2>1, <2>3 DEF Ranked
  <2>4. Ranked(rank)'
    BY <2>2, <2>3 DEF Ranked
  <2> QED BY <2>4 DEF TreeInv
<1> QED BY <1>8, <1>9, <1>10, SplitNext DEF Core

-----------------------------------------------------------------------------
\* Core is inductive.
THEOREM CoreInvariant == Spec => []Core
<1>1. Init => Core
  BY InitCore
<1>2. Core /\ [Next]_vars => Core'
  <2> SUFFICES ASSUME Core, [Next]_vars PROVE Core'
    OBVIOUS
  <2>1. CASE UNCHANGED vars
    BY <2>1, TreeKept, SplitNext, Split
       DEF Core, vars, ModeInv, Live, TypeOK, OnePlace, tree
  <2>2. CASE Syscall
    BY <2>2, CreateCore, SysPasserenCore, VerhogenCore, IssueCore, WaitIOCore,
       WaitClockCore, TerminateCore DEF Syscall
  <2>3. CASE Kill
    BY <2>3, ChildCore, SelfCore DEF Kill
  <2>4. CASE Interrupt
    BY <2>4, PLTCore, TickCore, DeviceCore DEF Interrupt
  <2>5. CASE Stopped
    BY <2>5, <2>1 DEF Stopped
  <2> QED BY <2>1, <2>2, <2>3, <2>4, <2>5 DEF Next
<1> QED BY <1>1, <1>2, PTL DEF Spec

\* The variables keep their types.
THEOREM TypeCorrect == Spec => []TypeOK
<1>1. Core => TypeOK
  BY DEF Core
<1> QED BY <1>1, CoreInvariant, PTL

\* A live process is in exactly one place, and the queues hold nothing else.
THEOREM OnePlaceHolds == Spec => []OnePlace
<1>1. Core => OnePlace
  BY DEF Core
<1> QED BY <1>1, CoreInvariant, PTL

\* The mode of the processor agrees with what it holds, and sysTerminate is
\* never called for a process that is already gone.
THEOREM ModeInvHolds == Spec => []ModeInv
<1>1. Core => ModeInv
  BY DEF Core
<1> QED BY <1>1, CoreInvariant, PTL

\* The processor idles or panics only when no process could run.
THEOREM WorkConservingHolds == Spec => []WorkConserving
<1>1. Core => WorkConserving
  <2> SUFFICES ASSUME Core, mode \in {"wait", "panic"}, NEW p \in Live
               PROVE  p_semAdd[p] # NULL
    BY DEF WorkConserving
  <2>1. currentProcess = NULL /\ readyQueue = <<>> /\ p # NULL
    BY PcbAssumption DEF Core, ModeInv, Live
  <2>2. p \notin ToSet(readyQueue)
    BY <2>1 DEF ToSet
  <2> QED BY <2>1, <2>2 DEF Core, OnePlace
<1> QED BY <1>1, CoreInvariant, PTL

-----------------------------------------------------------------------------
(***************************************************************************)
(* The counters of module Nucleus, on top of Core: the values of the       *)
(* semaphores agree with their queues, and softBlockCount is never too     *)
(* small, so that the scheduler's PANIC is a real deadlock.                *)
(***************************************************************************)
(***************************************************************************)
(* Semaphore values and their queues.                                      *)
(***************************************************************************)
Owed(v) == IF v < 0 THEN 0 - v ELSE 0

\* SemCount of one semaphore, with its value and its queue.
Counted(s, v, q) == Len(q) <= Owed(v) /\ (s \notin Device => Len(q) = Owed(v))

QueueTypes == semVal \in [AllSem -> Int] /\ blocked \in [AllSem -> Seq(Pcb)]

\* SemCount speaks of one semaphore at a time.
AllCounted == \A s \in AllSem : Counted(s, semVal[s], blocked[s])

\* SemCount, one semaphore at a time.
LEMMA PerSemaphore == SemCount <=> AllCounted
<1>1. ASSUME NEW s \in AllSem
      PROVE  (LET owed == IF semVal[s] < 0 THEN 0 - semVal[s] ELSE 0 IN
                /\ Len(blocked[s]) <= owed
                /\ s \notin Device => Len(blocked[s]) = owed)
             <=> Counted(s, semVal[s], blocked[s])
  BY Zenon DEF Counted, Owed
<1> QED BY <1>1, Zenon DEF SemCount, AllCounted

\* The same of the next state.
LEMMA PerSemaphoreNext == SemCount' <=> AllCounted'
  BY PerSemaphore, PTL

\* A step that changes one semaphore at most.
LEMMA OneSemaphore ==
  ASSUME QueueTypes, SemCount, NEW s \in AllSem, NEW v, NEW q,
         semVal' = [semVal EXCEPT ![s] = v], blocked' = [blocked EXCEPT ![s] = q],
         Counted(s, v, q)
  PROVE  SemCount'
<1>1. ASSUME NEW t \in AllSem PROVE Counted(t, semVal'[t], blocked'[t])
  <2>1. CASE t = s
    BY <2>1 DEF QueueTypes
  <2>2. CASE t # s
    BY <2>2, PerSemaphore DEF QueueTypes, AllCounted
  <2> QED BY <2>1, <2>2
<1> QED BY <1>1, PerSemaphoreNext DEF AllCounted

\* A P, whichever system call does it.
LEMMA PasserenCount ==
  ASSUME QueueTypes, SemCount, currentProcess \in Pcb,
         NEW s \in AllSem, NEW soft, passeren(s, soft)
  PROVE  SemCount'
<1>1. /\ semVal[s] \in Int /\ blocked[s] \in Seq(Pcb) /\ Len(blocked[s]) \in Nat
      /\ Counted(s, semVal[s], blocked[s])
      /\ semVal' = [semVal EXCEPT ![s] = semVal[s] - 1]
  BY PerSemaphore, LenProperties DEF QueueTypes, passeren, AllCounted
<1>2. CASE semVal[s] <= 0
  <2>1. /\ blocked' = [blocked EXCEPT ![s] = Append(blocked[s], currentProcess)]
        /\ Len(Append(blocked[s], currentProcess)) = Len(blocked[s]) + 1
    BY <1>1, <1>2, AppendMember DEF passeren
  <2>2. Counted(s, semVal[s] - 1, Append(blocked[s], currentProcess))
    BY <1>1, <1>2, <2>1 DEF Counted, Owed
  <2> QED BY <1>1, <2>1, <2>2, OneSemaphore
<1>3. CASE semVal[s] > 0
  <2>1. blocked' = [blocked EXCEPT ![s] = blocked[s]]
    BY <1>1, <1>3 DEF passeren, asl, QueueTypes
  <2>2. Counted(s, semVal[s] - 1, blocked[s])
    BY <1>1, <1>3 DEF Counted, Owed
  <2> QED BY <1>1, <2>1, <2>2, OneSemaphore
<1> QED BY <1>1, <1>2, <1>3

\* A V, of a process or of a device interrupt.
LEMMA VCount ==
  ASSUME QueueTypes, SemCount, OnePlace, NEW s \in AllSem,
         semVal' = [semVal EXCEPT ![s] = @ + 1],
         \/ /\ semVal[s] < 0 /\ blocked[s] # <<>>
            /\ blocked' = [blocked EXCEPT ![s] = Tail(@)]
         \/ /\ semVal[s] >= 0 \/ blocked[s] = <<>>
            /\ blocked' = blocked
  PROVE  SemCount'
<1>1. /\ semVal[s] \in Int /\ blocked[s] \in Seq(Pcb) /\ Len(blocked[s]) \in Nat
      /\ Counted(s, semVal[s], blocked[s]) /\ IsInjective(blocked[s])
      /\ semVal' = [semVal EXCEPT ![s] = semVal[s] + 1]
  BY PerSemaphore, LenProperties DEF QueueTypes, OnePlace, AllCounted
<1>2. CASE /\ semVal[s] < 0 /\ blocked[s] # <<>>
           /\ blocked' = [blocked EXCEPT ![s] = Tail(@)]
  <2>1. Len(Tail(blocked[s])) = Len(blocked[s]) - 1
    BY <1>1, <1>2, TailMember
  <2>2. Counted(s, semVal[s] + 1, Tail(blocked[s]))
    BY <1>1, <1>2, <2>1 DEF Counted, Owed
  <2> QED BY <1>1, <1>2, <2>2, OneSemaphore
<1>3. CASE /\ semVal[s] >= 0 \/ blocked[s] = <<>>
           /\ blocked' = blocked
  <2>1. blocked' = [blocked EXCEPT ![s] = blocked[s]]
    BY <1>3 DEF QueueTypes
  <2>2. blocked[s] = <<>> => Len(blocked[s]) = 0
    OBVIOUS
  <2>3. Counted(s, semVal[s] + 1, blocked[s])
    BY <1>1, <1>3, <2>2 DEF Counted, Owed
  <2> QED BY <1>1, <2>1, <2>3, OneSemaphore
<1> QED BY <1>2, <1>3

\* A process that is killed leaves its semaphore.
LEMMA LeaveCount ==
  ASSUME QueueTypes, SemCount, OnePlace, p_semAdd \in [Pcb -> AllSem \cup {NULL}],
         NEW p \in Live, leaveSemaphore(p)
  PROVE  SemCount'
<1> USE SemAssumption
<1> DEFINE s == p_semAdd[p]
<1>1. CASE s = NULL
  <2>1. s \notin Device /\ s \notin Sem \cup {Clock}
    BY <1>1 DEF AllSem
  <2>2. UNCHANGED <<semVal, blocked>>
    BY <2>1 DEF leaveSemaphore
  <2> QED BY <2>2, PerSemaphore, PerSemaphoreNext DEF AllCounted
<1>2. CASE s # NULL
  <2>1. /\ s \in AllSem /\ semVal[s] \in Int /\ blocked[s] \in Seq(Pcb)
        /\ Len(blocked[s]) \in Nat /\ Counted(s, semVal[s], blocked[s])
        /\ IsInjective(blocked[s]) /\ p \in ToSet(blocked[s])
    <3>1. s \in AllSem /\ p \in Pcb
      BY <1>2 DEF Live
    <3>2. semVal[s] \in Int /\ blocked[s] \in Seq(Pcb) /\ Len(blocked[s]) \in Nat
      BY <3>1, LenProperties DEF QueueTypes
    <3>3. IsInjective(blocked[s]) /\ p \in ToSet(blocked[s])
      BY <3>1 DEF OnePlace
    <3>4. Counted(s, semVal[s], blocked[s])
      BY <3>1, PerSemaphore DEF AllCounted
    <3> QED BY <3>1, <3>2, <3>3, <3>4
  <2>2. Len(RemoveFirst(blocked[s], p)) = Len(blocked[s]) - 1
    BY <2>1, RemoveMember
  <2>3. Len(blocked[s]) > 0
    BY <2>1 DEF ToSet
  <2>4. CASE s \in Device
    <3>1. /\ semVal' = [semVal EXCEPT ![s] = semVal[s]]
          /\ blocked' = [blocked EXCEPT ![s] = RemoveFirst(blocked[s], p)]
      BY <2>4 DEF leaveSemaphore, QueueTypes
    <3>2. Counted(s, semVal[s], RemoveFirst(blocked[s], p))
      BY <2>1, <2>2, <2>4 DEF Counted, Owed
    <3> QED BY <2>1, <3>1, <3>2, OneSemaphore
  <2>5. CASE s \notin Device
    <3>1. /\ semVal' = [semVal EXCEPT ![s] = semVal[s] + 1]
          /\ blocked' = [blocked EXCEPT ![s] = RemoveFirst(blocked[s], p)]
      BY <1>2, <2>5 DEF leaveSemaphore
    <3>2. Counted(s, semVal[s] + 1, RemoveFirst(blocked[s], p))
      BY <2>1, <2>2, <2>3, <2>5 DEF Counted, Owed
    <3> QED BY <2>1, <3>1, <3>2, OneSemaphore
  <2> QED BY <2>4, <2>5
<1> QED BY <1>1, <1>2

\* Every action preserves SemCount, given Core.
LEMMA SemCountStep == Core /\ SemCount /\ [Next]_vars => SemCount'
<1> SUFFICES ASSUME Core, SemCount, [Next]_vars PROVE SemCount'
  OBVIOUS
<1> USE SemAssumption
<1>1. /\ QueueTypes /\ OnePlace /\ p_semAdd \in [Pcb -> AllSem \cup {NULL}]
      /\ mode = "run" => currentProcess \in Pcb
      /\ ioReq \in [Pcb -> Device \cup {NULL}]
  BY DEF Core, TypeOK, QueueTypes, ModeInv
<1>2. UNCHANGED <<semVal, blocked>> => SemCount'
  BY PerSemaphore, PerSemaphoreNext DEF AllCounted
<1>3. CASE UNCHANGED vars \/ Stopped \/ sysCreateProcess \/ sysTerminate
           \/ terminateChild \/ handlePLTInterrupt
           \/ \E d \in Device : issueCommand(d)
  BY <1>2, <1>3 DEF vars, Stopped, sysCreateProcess, sysTerminate, terminateChild,
                    handlePLTInterrupt, issueCommand, asl
<1>4. ASSUME NEW s \in Sem, sysPasseren(s) PROVE SemCount'
  <2>1. s \in AllSem /\ currentProcess \in Pcb /\ passeren(s, softBlockCount)
    BY <1>1, <1>4 DEF sysPasseren, Requests, AllSem
  <2> QED BY <2>1, <1>1, PasserenCount
<1>5. ASSUME NEW s \in Sem, sysVerhogen(s) PROVE SemCount'
  <2>1. s \in AllSem /\ semVal' = [semVal EXCEPT ![s] = @ + 1]
    BY <1>5 DEF sysVerhogen, AllSem
  <2>2. \/ /\ semVal[s] < 0 /\ blocked[s] # <<>>
           /\ blocked' = [blocked EXCEPT ![s] = Tail(@)]
        \/ /\ semVal[s] >= 0 \/ blocked[s] = <<>>
           /\ blocked' = blocked
    BY <1>5 DEF sysVerhogen, removeBlocked, asl
  <2> QED BY <2>1, <2>2, <1>1, VCount
<1>6. CASE sysWaitIO
  <2>1. /\ mode = "run" /\ ioReq[currentProcess] # NULL
        /\ passeren(ioReq[currentProcess], softBlockCount + 1)
    BY <1>6 DEF sysWaitIO
  <2>2. ioReq[currentProcess] \in AllSem /\ currentProcess \in Pcb
    BY <2>1, <1>1 DEF AllSem
  <2> QED BY <2>1, <2>2, <1>1, PasserenCount
<1>7. CASE sysWaitClock
  <2>1. /\ Clock \in AllSem /\ currentProcess \in Pcb
        /\ passeren(Clock, softBlockCount + 1)
    BY <1>1, <1>7 DEF sysWaitClock, Requests, AllSem
  <2> QED BY <2>1, <1>1, PasserenCount
<1>8. CASE terminateSelf
  <2>1. Last(killStack) \in Live /\ leaveSemaphore(Last(killStack))
    BY <1>8, KillStack DEF terminateSelf
  <2> QED BY <2>1, <1>1, LeaveCount
<1>9. CASE handleIntervalTimerInterrupt
  <2>1. /\ semVal' = [semVal EXCEPT ![Clock] = 0]
        /\ blocked' = [blocked EXCEPT ![Clock] = <<>>]
        /\ Clock \in AllSem
    BY <1>9 DEF handleIntervalTimerInterrupt, AllSem
  <2>2. Counted(Clock, 0, <<>>)
    BY DEF Counted, Owed
  <2> QED BY <2>1, <2>2, <1>1, OneSemaphore
<1>10. ASSUME NEW d \in Device, handleDeviceInterrupt(d) PROVE SemCount'
  <2>1. d \in AllSem /\ semVal' = [semVal EXCEPT ![d] = @ + 1]
    BY <1>10 DEF handleDeviceInterrupt, AllSem
  <2>2. \/ /\ semVal[d] < 0 /\ blocked[d] # <<>>
           /\ blocked' = [blocked EXCEPT ![d] = Tail(@)]
        \/ /\ semVal[d] >= 0 \/ blocked[d] = <<>>
           /\ blocked' = blocked
    BY <1>10 DEF handleDeviceInterrupt, removeBlocked, asl
  <2> QED BY <2>1, <2>2, <1>1, VCount
<1> QED BY <1>3, <1>4, <1>5, <1>6, <1>7, <1>8, <1>9, <1>10
        DEF Next, Syscall, Kill, Interrupt

\* No wakeup is lost or invented: the value of a semaphore and the length of
\* its queue agree, whatever V, tick, interrupt or kill comes between.
THEOREM SemCountHolds == Spec => []SemCount
<1>1. Init => SemCount
  <2> SUFFICES ASSUME Init PROVE AllCounted
    BY PerSemaphore
  <2>1. ASSUME NEW s \in AllSem PROVE Counted(s, semVal[s], blocked[s])
    <3>1. semVal[s] = 0 /\ blocked[s] = <<>>
      BY DEF Init
    <3> QED BY <3>1 DEF Counted, Owed
  <2> QED BY <2>1 DEF AllCounted
<1> QED BY <1>1, SemCountStep, CoreInvariant, PTL DEF Spec

-----------------------------------------------------------------------------
(***************************************************************************)
(* softBlockCount and the processes it stands for.                         *)
(***************************************************************************)

\* SoftBound survives a step that blocks one process and counts it, one that
\* releases one and uncounts it, and one that only releases.
LEMMA SoftStep ==
  ASSUME SoftBound, softBlockCount \in Int, NEW x \in Pcb,
         \/ /\ SoftBlocked' \subseteq SoftBlocked \cup {x}
            /\ softBlockCount' = softBlockCount + 1
         \/ /\ x \in SoftBlocked /\ SoftBlocked' \subseteq SoftBlocked \ {x}
            /\ softBlockCount' = softBlockCount - 1
         \/ /\ SoftBlocked' \subseteq SoftBlocked
            /\ softBlockCount' = softBlockCount
  PROVE  SoftBound'
<1>1. IsFiniteSet(SoftBlocked) /\ Cardinality(SoftBlocked) \in Nat
  BY PcbAssumption, FS_Subset, FS_CardinalityType DEF SoftBlocked, Live
<1>2. CASE /\ SoftBlocked' \subseteq SoftBlocked \cup {x}
           /\ softBlockCount' = softBlockCount + 1
  <2>1. /\ IsFiniteSet(SoftBlocked \cup {x})
        /\ Cardinality(SoftBlocked \cup {x}) <= Cardinality(SoftBlocked) + 1
    BY <1>1, FS_AddElement
  <2>2. /\ Cardinality(SoftBlocked') <= Cardinality(SoftBlocked \cup {x})
        /\ Cardinality(SoftBlocked') \in Nat /\ Cardinality(SoftBlocked \cup {x}) \in Nat
    BY <2>1, <1>2, FS_Subset, FS_CardinalityType
  <2> QED BY <2>1, <2>2, <1>1, <1>2 DEF SoftBound
<1>3. CASE /\ x \in SoftBlocked /\ SoftBlocked' \subseteq SoftBlocked \ {x}
           /\ softBlockCount' = softBlockCount - 1
  <2>1. /\ IsFiniteSet(SoftBlocked \ {x})
        /\ Cardinality(SoftBlocked \ {x}) = Cardinality(SoftBlocked) - 1
    BY <1>1, <1>3, FS_RemoveElement
  <2>2. /\ Cardinality(SoftBlocked') <= Cardinality(SoftBlocked \ {x})
        /\ Cardinality(SoftBlocked') \in Nat
    BY <2>1, <1>3, FS_Subset, FS_CardinalityType
  <2> QED BY <2>1, <2>2, <1>1, <1>3 DEF SoftBound
<1>4. CASE /\ SoftBlocked' \subseteq SoftBlocked
           /\ softBlockCount' = softBlockCount
  <2>1. /\ Cardinality(SoftBlocked') <= Cardinality(SoftBlocked)
        /\ Cardinality(SoftBlocked') \in Nat
    BY <1>1, <1>4, FS_Subset, FS_CardinalityType
  <2> QED BY <2>1, <1>1, <1>4 DEF SoftBound
<1> QED BY <1>2, <1>3, <1>4

\* A P, counted by its caller exactly when the semaphore is a soft one.
LEMMA PasserenSoft ==
  ASSUME Core, SoftBound, mode = "run", NEW s \in AllSem, NEW soft \in Int,
         passeren(s, soft), UNCHANGED tree,
         soft = softBlockCount + (IF s \in SoftSem THEN 1 ELSE 0)
  PROVE  SoftBound'
<1>1. /\ currentProcess \in Live /\ currentProcess \in Pcb
      /\ p_semAdd \in [Pcb -> AllSem \cup {NULL}] /\ softBlockCount \in Int
      /\ Live' = Live /\ softBlockCount' = soft
  BY DEF Core, TypeOK, OnePlace, ModeInv, Live, tree, passeren
<1>2. \/ p_semAdd' = [p_semAdd EXCEPT ![currentProcess] = s]
      \/ p_semAdd' = p_semAdd
  BY DEF passeren, asl
<1>3. CASE s \in SoftSem
  <2>1. SoftBlocked' \subseteq SoftBlocked \cup {currentProcess}
    BY <1>1, <1>2 DEF SoftBlocked, Live
  <2> QED BY <2>1, <1>1, <1>3, SoftStep
<1>4. CASE s \notin SoftSem
  <2>1. SoftBlocked' \subseteq SoftBlocked
    BY <1>1, <1>2, <1>4 DEF SoftBlocked, Live
  <2>2. softBlockCount' = softBlockCount
    BY <1>1, <1>4
  <2> QED BY <2>1, <2>2, <1>1, SoftStep
<1> QED BY <1>3, <1>4

\* A device interrupt takes back the soft block of the process it wakes.
LEMMA DeviceSoft ==
  ASSUME Core, SoftBound, NEW d \in Device, handleDeviceInterrupt(d)
  PROVE  SoftBound'
<1>1. /\ PlacedNow /\ softBlockCount \in Int /\ Live' = Live
      /\ d \in AllSem /\ d \in SoftSem
      /\ p_semAdd \in [Pcb -> AllSem \cup {NULL}] /\ Root \in Pcb
  BY Split, PcbAssumption
     DEF Core, TypeOK, AllSem, SoftSem, handleDeviceInterrupt, Live, tree
<1>2. CASE UNCHANGED <<asl, softBlockCount>>
  <2>1. SoftBlocked' \subseteq SoftBlocked
    BY <1>1, <1>2 DEF SoftBlocked, asl
  <2> QED BY <2>1, <1>1, <1>2, SoftStep
<1>3. CASE /\ blocked[d] # <<>> /\ removeBlocked(d)
           /\ softBlockCount' = softBlockCount - 1
  <2> DEFINE p == Head(blocked[d])
  <2>1. /\ blocked[d] \in Seq(Pcb) /\ IsInjective(blocked[d])
        /\ ToSet(blocked[d]) \subseteq Live
    BY <1>1 DEF PlacedNow, Placed
  <2>2. p \in Pcb /\ p \in ToSet(blocked[d])
    BY <2>1, <1>3, TailMember
  <2>3. p \in Live /\ p_semAdd[p] = d /\ p_semAdd' = [p_semAdd EXCEPT ![p] = NULL]
    BY <2>1, <2>2, <1>1, <1>3 DEF PlacedNow, Placed, removeBlocked
  <2> HIDE DEF p
  <2>4. NULL \notin SoftSem
    BY SemAssumption DEF SoftSem, AllSem
  <2>5. p \in SoftBlocked /\ SoftBlocked' \subseteq SoftBlocked \ {p}
    BY <2>2, <2>3, <2>4, <1>1 DEF SoftBlocked, SoftSem, Live
  <2> QED BY <2>2, <2>5, <1>1, <1>3, SoftStep
<1> QED BY <1>2, <1>3 DEF handleDeviceInterrupt

\* So does the termination of a process that waits for a device.
LEMMA SelfSoft == Core /\ SoftBound /\ terminateSelf => SoftBound'
<1> SUFFICES ASSUME Core, SoftBound, terminateSelf PROVE SoftBound'
  OBVIOUS
<1> DEFINE p == Last(killStack)
<1>1. /\ p \in Live /\ p \in Pcb /\ leaveSemaphore(p) /\ p_semAdd' = p_semAdd
      /\ freePcbs' = freePcbs \cup {p}
  BY KillStack DEF terminateSelf
<1>2. softBlockCount \in Int
  BY DEF Core, TypeOK
<1> HIDE DEF p
<1>3. Live' = Live \ {p}
  BY <1>1 DEF Live
<1>4. SoftBlocked' = SoftBlocked \ {p}
  BY <1>1, <1>3 DEF SoftBlocked, SoftSem
<1>5. CASE softBlockCount' = softBlockCount
  BY <1>1, <1>2, <1>4, <1>5, SoftStep
<1>6. CASE p_semAdd[p] \in Device /\ softBlockCount' = softBlockCount - 1
  <2>1. p \in SoftBlocked
    BY <1>1, <1>6 DEF SoftBlocked, SoftSem
  <2> QED BY <2>1, <1>1, <1>2, <1>4, <1>6, SoftStep
<1> QED BY <1>1, <1>5, <1>6 DEF leaveSemaphore

\* Every action preserves SoftBound, given Core.
LEMMA SoftBoundStep == Core /\ SoftBound /\ [Next]_vars => SoftBound'
<1> SUFFICES ASSUME Core, SoftBound, [Next]_vars PROVE SoftBound'
  OBVIOUS
<1>1. /\ p_semAdd \in [Pcb -> AllSem \cup {NULL}] /\ softBlockCount \in Int
      /\ ioReq \in [Pcb -> Device \cup {NULL}] /\ Root \in Pcb
      /\ mode = "run" => currentProcess \in Pcb
  BY PcbAssumption DEF Core, TypeOK, ModeInv
<1>2. NULL \notin SoftSem /\ SoftSem \subseteq AllSem
  BY SemAssumption DEF SoftSem, AllSem
<1>3. CASE UNCHANGED <<freePcbs, p_semAdd, softBlockCount>>
  <2>1. SoftBlocked' \subseteq SoftBlocked
    BY <1>3 DEF SoftBlocked, Live, SoftSem
  <2> QED BY <2>1, <1>1, <1>3, SoftStep
<1>4. CASE UNCHANGED vars \/ Stopped \/ sysTerminate \/ terminateChild
           \/ handlePLTInterrupt \/ \E d \in Device : issueCommand(d)
  BY <1>3, <1>4 DEF vars, Stopped, sysTerminate, terminateChild, handlePLTInterrupt,
                    issueCommand, asl, tree
<1>5. CASE sysCreateProcess
  <2>1. PICK p \in freePcbs : /\ freePcbs' = freePcbs \ {p}
                              /\ p_semAdd' = [p_semAdd EXCEPT ![p] = NULL]
    BY <1>5 DEF sysCreateProcess
  <2>2. softBlockCount' = softBlockCount
    BY <1>5 DEF sysCreateProcess
  <2>3. SoftBlocked' \subseteq SoftBlocked
    <3> SUFFICES ASSUME NEW q \in Live', p_semAdd'[q] \in SoftSem
                 PROVE  q \in Live /\ p_semAdd[q] \in SoftSem
      BY DEF SoftBlocked, SoftSem
    <3>1. q # p
      BY <2>1, <1>1, <1>2 DEF Live
    <3> QED BY <3>1, <2>1, <1>1 DEF Live
  <2> QED BY <2>2, <2>3, <1>1, SoftStep
<1>6. ASSUME NEW s \in Sem, sysPasseren(s) PROVE SoftBound'
  <2>1. s \in AllSem /\ s \notin SoftSem /\ mode = "run"
        /\ passeren(s, softBlockCount) /\ UNCHANGED tree
    BY <1>6, SemAssumption DEF sysPasseren, Requests, AllSem, SoftSem
  <2> QED BY <2>1, <1>1, PasserenSoft
<1>7. ASSUME NEW s \in Sem, sysVerhogen(s) PROVE SoftBound'
  <2>1. softBlockCount' = softBlockCount /\ Live' = Live
    BY <1>7 DEF sysVerhogen, Live, tree
  <2>2. \/ p_semAdd' = p_semAdd
        \/ p_semAdd' = [p_semAdd EXCEPT ![Head(blocked[s])] = NULL]
    BY <1>7 DEF sysVerhogen, removeBlocked, asl
  <2>3. SoftBlocked' \subseteq SoftBlocked
    BY <2>1, <2>2, <1>1, <1>2 DEF SoftBlocked, SoftSem, Live
  <2> QED BY <2>1, <2>3, <1>1, SoftStep
<1>8. CASE sysWaitIO
  <2>1. /\ mode = "run" /\ ioReq[currentProcess] # NULL
        /\ passeren(ioReq[currentProcess], softBlockCount + 1) /\ UNCHANGED tree
    BY <1>8 DEF sysWaitIO
  <2>2. ioReq[currentProcess] \in AllSem /\ ioReq[currentProcess] \in SoftSem
    BY <2>1, <1>1 DEF AllSem, SoftSem
  <2>3. softBlockCount + 1 \in Int
    BY <1>1
  <2> QED BY <2>1, <2>2, <2>3, PasserenSoft
<1>9. CASE sysWaitClock
  <2>1. /\ Clock \in AllSem /\ Clock \in SoftSem /\ mode = "run"
        /\ passeren(Clock, softBlockCount + 1) /\ UNCHANGED tree
    BY <1>9 DEF sysWaitClock, Requests, AllSem, SoftSem
  <2>2. softBlockCount + 1 \in Int
    BY <1>1
  <2> QED BY <2>1, <2>2, PasserenSoft
<1>10. CASE handleIntervalTimerInterrupt
  <2>1. /\ softBlockCount' = softBlockCount /\ Live' = Live
        /\ p_semAdd' = [p \in Pcb |-> IF p \in ToSet(blocked[Clock])
                                      THEN NULL ELSE p_semAdd[p]]
    BY <1>10 DEF handleIntervalTimerInterrupt, Live, tree
  <2>2. SoftBlocked' \subseteq SoftBlocked
    BY <2>1, <1>2 DEF SoftBlocked, SoftSem, Live
  <2> QED BY <2>1, <2>2, <1>1, SoftStep
<1> QED BY <1>4, <1>5, <1>6, <1>7, <1>8, <1>9, <1>10, SelfSoft, DeviceSoft
        DEF Next, Syscall, Kill, Interrupt

\* softBlockCount never undercounts the processes that wait for a device or
\* for the clock: the scheduler does not PANIC while one of them is due back.
THEOREM SoftBoundHolds == Spec => []SoftBound
<1>1. Init => SoftBound
  <2> SUFFICES ASSUME Init PROVE SoftBound
    OBVIOUS
  <2>1. SoftBlocked = {}
    BY SemAssumption DEF Init, SoftBlocked, SoftSem, AllSem, Live
  <2> QED BY <2>1, FS_EmptySet DEF Init, SoftBound
<1> QED BY <1>1, SoftBoundStep, CoreInvariant, PTL DEF Spec

\* PANIC is a real deadlock: no live process waits for anything but a V of
\* another one.
THEOREM NoFalseDeadlockHolds == Spec => []NoFalseDeadlock
<1>1. Core /\ WorkConserving /\ SoftBound => NoFalseDeadlock
  <2> SUFFICES ASSUME Core, WorkConserving, SoftBound, mode = "panic", NEW p \in Live
               PROVE  p_semAdd[p] \in Sem
    BY DEF NoFalseDeadlock
  <2>1. softBlockCount <= 0 /\ softBlockCount \in Int
    BY DEF Core, TypeOK, ModeInv
  <2>2. IsFiniteSet(SoftBlocked) /\ Cardinality(SoftBlocked) \in Nat
    BY PcbAssumption, FS_Subset, FS_CardinalityType DEF SoftBlocked, Live
  <2>3. SoftBlocked = {}
    <3>1. Cardinality(SoftBlocked) = 0
      BY <2>1, <2>2 DEF SoftBound
    <3> QED BY <3>1, <2>2, FS_EmptySet
  <2>4. p_semAdd[p] # NULL /\ p_semAdd[p] \in AllSem \cup {NULL}
    BY DEF WorkConserving, Core, TypeOK, Live
  <2> QED BY <2>3, <2>4 DEF SoftBlocked, SoftSem, AllSem
<1> QED BY <1>1, CoreInvariant, WorkConservingHolds, SoftBoundHolds, PTL

-----------------------------------------------------------------------------
(***************************************************************************)
(* processCount.                                                           *)
(***************************************************************************)

\* The processes that processCount counts.
Counting == Live \ {Daemon}

\* There are finitely many.
LEMMA FiniteCounting ==
  IsFiniteSet(Counting) /\ Cardinality(Counting) \in Nat
  BY PcbAssumption, FS_Subset, FS_CardinalityType DEF Counting, Live

\* The machine is not over with a process left, and is over with none.
LEMMA NoneLeft == TypeOK => (Counting = {} <=> Live = {Daemon})
  BY PcbAssumption DEF TypeOK, Counting, Live

\* CountExact survives what changes neither the tree nor the halting.
LEMMA SameCount ==
  ASSUME CountExact, UNCHANGED <<freePcbs, processCount>>,
         mode' = "halt" <=> mode = "halt"
  PROVE  CountExact'
  BY DEF CountExact, Live

\* Outside sysTerminate the scheduler never halts: somebody is alive.
LEMMA SchedulerGoesOn ==
  ASSUME TypeOK, CountExact, mode # "halt", NEW rq, NEW soft,
         scheduler(rq, processCount, soft)
  PROVE  mode' # "halt"
<1>1. Counting # {} /\ processCount = Cardinality(Counting)
  BY NoneLeft DEF CountExact, Counting
<1>2. processCount # 0
  BY <1>1, FiniteCounting, FS_EmptySet
<1> QED BY <1>2 DEF scheduler

\* A process is counted when it is created.
LEMMA CreateExact == Core /\ CountExact /\ sysCreateProcess => CountExact'
<1> SUFFICES ASSUME Core, CountExact, sysCreateProcess PROVE CountExact'
  OBVIOUS
<1>1. TypeOK /\ TypeOK'
  BY CreateCore DEF Core
<1>2. PICK p \in freePcbs : freePcbs' = freePcbs \ {p}
  BY DEF sysCreateProcess
<1>3. /\ processCount' = processCount + 1 /\ mode' # "halt"
  BY DEF sysCreateProcess, Requests
<1>4. p \notin Counting /\ Counting' = Counting \cup {p}
  BY <1>1, <1>2 DEF TypeOK, Counting, Live
<1>5. Cardinality(Counting') = Cardinality(Counting) + 1
  BY <1>4, FiniteCounting, FS_AddElement
<1>6. Live' # {Daemon}
  BY <1>1, <1>2, PcbAssumption DEF TypeOK, Live
<1> QED BY <1>3, <1>5, <1>6 DEF CountExact, Counting

\* It is uncounted when it is terminated, and the last one halts the machine.
LEMMA SelfExact == Core /\ CountExact /\ terminateSelf => CountExact'
<1> SUFFICES ASSUME Core, CountExact, terminateSelf PROVE CountExact'
  OBVIOUS
<1> DEFINE p == Last(killStack)
           procs == oneProcessLess(processCount)
<1>1. /\ TypeOK /\ TypeOK' /\ mode = "kill"
  BY SelfCore DEF Core, terminateSelf
<1>2. /\ p \in Counting /\ freePcbs' = freePcbs \cup {p} /\ processCount' = procs
      /\ \/ procs = 0 /\ mode' = "halt"
         \/ procs # 0 /\ mode' = "kill"
         \/ procs # 0 /\ scheduler(RemoveFirst(readyQueue, p), procs, softBlockCount')
  BY <1>1, KillStack DEF terminateSelf, Counting
<1> HIDE DEF p, procs
<1>3. Counting' = Counting \ {p}
  BY <1>2 DEF Counting, Live
<1>4. /\ IsFiniteSet(Counting')
      /\ Cardinality(Counting') = Cardinality(Counting) - 1
      /\ Cardinality(Counting') \in Nat
  BY <1>2, <1>3, FiniteCounting, FS_RemoveElement, FS_CardinalityType
<1>5. processCount' = Cardinality(Counting')
  BY <1>2, <1>4, FiniteCounting DEF procs, oneProcessLess, CountExact, Counting
<1>6. mode' = "halt" <=> procs = 0
  BY <1>2 DEF scheduler
<1>7. procs = 0 <=> Counting' = {}
  BY <1>2, <1>4, <1>5, FS_EmptySet
<1>8. Counting' = {} <=> Live' = {Daemon}
  BY <1>1, PcbAssumption DEF TypeOK, Counting, Live
<1> QED BY <1>5, <1>6, <1>7, <1>8 DEF CountExact, Counting

\* Every action preserves CountExact, given Core.
LEMMA CountExactStep == Core /\ CountExact /\ [Next]_vars => CountExact'
<1> SUFFICES ASSUME Core, CountExact, [Next]_vars PROVE CountExact'
  OBVIOUS
<1>1. TypeOK
  BY DEF Core
<1>2. CASE UNCHANGED vars \/ Stopped
  BY <1>2, SameCount DEF vars, Stopped
<1>3. CASE sysTerminate \/ terminateChild \/ \E d \in Device : issueCommand(d)
  BY <1>3, SameCount DEF sysTerminate, terminateChild, issueCommand, Requests, tree,
                         queues
<1>4. ASSUME NEW s \in AllSem, NEW soft, mode = "run", passeren(s, soft),
             UNCHANGED tree
      PROVE  CountExact'
  <2>1. mode' # "halt"
    BY <1>1, <1>4, SchedulerGoesOn DEF passeren, queues
  <2> QED BY <2>1, <1>4, SameCount DEF tree
<1>5. CASE sysWaitIO \/ sysWaitClock \/ \E s \in Sem : sysPasseren(s)
  <2>1. mode = "run" /\ UNCHANGED tree
    BY <1>5 DEF sysWaitIO, sysWaitClock, sysPasseren, Requests
  <2>2. currentProcess \in Pcb /\ ioReq \in [Pcb -> Device \cup {NULL}]
    BY <2>1 DEF Core, TypeOK, ModeInv
  <2>3. \E s \in AllSem : \E soft \in {softBlockCount, softBlockCount + 1} :
          passeren(s, soft)
    BY <1>5, <2>2 DEF sysWaitIO, sysWaitClock, sysPasseren, AllSem
  <2> QED BY <2>1, <2>3, <1>4
<1>6. CASE \E s \in Sem : sysVerhogen(s)
  BY <1>6, SameCount DEF sysVerhogen, tree
<1>7. ASSUME NEW rq, NEW soft, InterruptsOn, UNCHANGED tree,
             scheduler(rq, processCount, soft) \/ resume(rq, soft)
      PROVE  CountExact'
  <2>1. mode # "halt"
    BY <1>7 DEF InterruptsOn
  <2>2. mode' # "halt"
    BY <2>1, <1>1, <1>7, SchedulerGoesOn DEF resume
  <2> QED BY <2>1, <2>2, <1>7, SameCount DEF tree
<1>8. CASE handlePLTInterrupt \/ handleIntervalTimerInterrupt
  BY <1>7, <1>8 DEF handlePLTInterrupt, handleIntervalTimerInterrupt
<1>9. ASSUME NEW d \in Device, handleDeviceInterrupt(d) PROVE CountExact'
  <2>1. InterruptsOn /\ UNCHANGED tree
    BY <1>9 DEF handleDeviceInterrupt
  <2>2. CASE \E rq : \E soft : resume(rq, soft)
    BY <2>1, <2>2, <1>7
  <2>3. CASE mode' = IF mode = "wait" THEN "wild" ELSE mode
    BY <2>1, <2>3, SameCount DEF InterruptsOn, tree
  <2> QED BY <1>9, <2>2, <2>3 DEF handleDeviceInterrupt
<1> QED BY <1>2, <1>3, <1>5, <1>6, <1>8, <1>9, CreateExact, SelfExact
        DEF Next, Syscall, Kill, Interrupt

\* processCount is the number of processes, the daemon apart, and the machine
\* halts with the last of them and not before.
THEOREM CountExactHolds == Spec => []CountExact
<1>1. Init => CountExact
  <2> SUFFICES ASSUME Init PROVE CountExact
    OBVIOUS
  <2>1. Live = {Root, Daemon} /\ Live \ {Daemon} = {Root}
    BY PcbAssumption DEF Init, Live, BootPcbs
  <2> QED BY <2>1, PcbAssumption, FS_Singleton DEF Init, CountExact
<1> QED BY <1>1, CountExactStep, CoreInvariant, PTL DEF Spec

-----------------------------------------------------------------------------
(***************************************************************************)
(* The process tree of module Nucleus under sysTerminate: whoever is       *)
(* terminated takes all of its progeny along, and test() all the U-procs.  *)
(***************************************************************************)
(***************************************************************************)
(* NoOrphan is inductive with three facts about where test() and the       *)
(* daemon are in the tree.                                                 *)
(***************************************************************************)
AtRoot ==
  /\ p_prnt[Root] = NULL
  /\ \A c \in Pcb : p_prnt[c] # Daemon
  /\ \A i \in DOMAIN killStack : i > 1 => killStack[i] # Root

\* The live processes under test().
Progeny == Live \ {Root, Daemon}

\* A set of ranked processes has one of smallest rank.
LEMMA Smallest ==
  ASSUME NEW T, T \subseteq Pcb, T # {}, NEW rank \in [Pcb -> Nat]
  PROVE  \E p \in T : \A q \in T : ~(rank[q] < rank[p])
<1> DEFINE R == {rank[p] : p \in T}
<1>1. R \subseteq Nat /\ R # {}
  OBVIOUS
<1>2. PICK m \in R : \A n \in R : ~(<<n, m>> \in OpToRel(<, Nat))
  <2> HIDE DEF R
  <2> QED BY <1>1, NatLessThanWellFounded, WFMin, Zenon
<1>3. \A n \in R : ~(n < m)
  BY <1>1, <1>2 DEF OpToRel
<1>4. PICK p \in T : m = rank[p]
  OBVIOUS
<1> QED BY <1>3, <1>4

\* When sysTerminate comes to test() itself there is nobody left under it.
LEMMA RootIsLast ==
  ASSUME Core, NoOrphan, AtRoot, mode = "kill",
         Last(killStack) = Root, Children(Root) = {}
  PROVE  Progeny = {}
<1>1. PICK rank \in [Pcb -> Nat] : Ranked(rank)
  BY DEF Core, TreeInv
<1>2. killStack \in Seq(Pcb) /\ killStack # <<>>
  BY DEF Core, TypeOK, ModeInv
<1>3. ToSet(killStack) = {Root}
  <2>1. /\ Len(killStack) \in Nat \ {0} /\ DOMAIN killStack = 1 .. Len(killStack)
        /\ killStack[Len(killStack)] = Root
    BY <1>2, FrontLast
  <2>2. Len(killStack) = 1
    BY <2>1 DEF AtRoot
  <2> QED BY <2>1, <2>2 DEF ToSet
<1> SUFFICES ASSUME Progeny # {} PROVE FALSE
  OBVIOUS
<1>4. PICK p \in Progeny : \A q \in Progeny : ~(rank[q] < rank[p])
  <2>1. Progeny \subseteq Pcb
    BY DEF Progeny, Live
  <2> QED BY <2>1, Smallest
<1>5. p \in Pcb /\ p \in Live /\ p_prnt[p] \in Live /\ p_prnt[p] # NULL
  BY <1>3, <1>4, PcbAssumption DEF Progeny, NoOrphan, Live
<1>6. p_prnt[p] # Root /\ p_prnt[p] # Daemon /\ rank[p_prnt[p]] < rank[p]
  BY <1>1, <1>5 DEF Children, AtRoot, Ranked
<1> QED BY <1>4, <1>5, <1>6 DEF Progeny

-----------------------------------------------------------------------------
\* A step that leaves the tree and the stack alone, and does not leave "halt".
LEMMA TreeSame ==
  ASSUME NoOrphan, AtRoot, UNCHANGED <<freePcbs, p_prnt, killStack>>,
         mode = "halt" => mode' = "halt"
  PROVE  (NoOrphan /\ AtRoot)'
  BY DEF NoOrphan, AtRoot, Live

\* SYS1: the new process is under its creator, which is alive.
LEMMA CreateTree ==
  ASSUME Core, NoOrphan, AtRoot, sysCreateProcess
  PROVE  (NoOrphan /\ AtRoot)'
<1> USE PcbAssumption
<1>1. /\ mode = "run" /\ killStack' = killStack /\ killStack = <<>>
      /\ p_prnt \in [Pcb -> Pcb \cup {NULL}]
      /\ currentProcess \in Live /\ currentProcess # Daemon
      /\ freePcbs \subseteq Pcb \ (Template \cup {Daemon})
  BY CallsAssumption
     DEF Core, TypeOK, OnePlace, ModeInv, sysCreateProcess, Requests, MayCall
<1>2. PICK p \in freePcbs : /\ freePcbs' = freePcbs \ {p}
                            /\ p_prnt' = [p_prnt EXCEPT ![p] = currentProcess]
  BY DEF sysCreateProcess
<1>3. Root \in Live /\ p # Root /\ Live' = Live \cup {p}
  BY <1>1, <1>2 DEF NoOrphan, Live
<1>4. AtRoot'
  BY <1>1, <1>2, <1>3 DEF AtRoot
<1>5. NoOrphan'
  <2>1. ASSUME NEW q \in Live' \ {Root, Daemon} PROVE p_prnt'[q] \in Live'
    <3>1. CASE q = p
      BY <3>1, <1>1, <1>2, <1>3 DEF Live
    <3>2. CASE q # p
      <4>1. q \in Live /\ p_prnt'[q] = p_prnt[q] /\ q \notin ToSet(killStack)
        BY <3>2, <2>1, <1>1, <1>2, <1>3 DEF Live, ToSet
      <4> QED BY <4>1, <2>1, <1>3 DEF NoOrphan
    <3> QED BY <3>1, <3>2
  <2> QED BY <2>1, <1>3 DEF NoOrphan
<1> QED BY <1>4, <1>5

\* SYS2 begins.
LEMMA TerminateTree ==
  ASSUME Core, NoOrphan, AtRoot, sysTerminate
  PROVE  (NoOrphan /\ AtRoot)'
<1>1. /\ mode = "run" /\ UNCHANGED <<freePcbs, p_prnt>> /\ Live' = Live
      /\ killStack' = <<currentProcess>> /\ killStack = <<>>
  BY DEF Core, ModeInv, sysTerminate, Requests, tree, Live
<1>2. DOMAIN killStack' = {1} /\ ToSet(killStack) = {}
  BY <1>1 DEF ToSet
<1> QED BY <1>1, <1>2 DEF NoOrphan, AtRoot

\* A child that is taken out of the tree is on the stack instead.
LEMMA ChildTree ==
  ASSUME Core, NoOrphan, AtRoot, terminateChild
  PROVE  (NoOrphan /\ AtRoot)'
<1>1. PICK c \in Children(Last(killStack)) :
        /\ p_prnt' = [p_prnt EXCEPT ![c] = NULL]
        /\ killStack' = Append(killStack, c)
  BY DEF terminateChild
<1>2. /\ killStack \in Seq(Pcb) /\ killStack # <<>> /\ Live' = Live /\ mode = "kill"
      /\ p_prnt \in [Pcb -> Pcb \cup {NULL}] /\ Root \in Live
  BY DEF Core, TypeOK, ModeInv, terminateChild, Live, NoOrphan
<1>3. c \in Pcb /\ c # Root
  <2>1. Last(killStack) \in Pcb
    BY <1>2, FrontLast
  <2> QED BY <1>1, <2>1, PcbAssumption DEF Children, AtRoot
<1>4. /\ ToSet(killStack') = ToSet(killStack) \cup {c}
      /\ DOMAIN killStack' = DOMAIN killStack \cup {Len(killStack) + 1}
      /\ killStack'[Len(killStack) + 1] = c
      /\ \A i \in DOMAIN killStack : killStack'[i] = killStack[i]
  BY <1>1, <1>2, <1>3, AppendMember, AppendProperties, LenProperties
<1>5. NoOrphan'
  BY <1>1, <1>2, <1>3, <1>4 DEF NoOrphan, Live
<1>6. AtRoot'
  BY <1>1, <1>2, <1>3, <1>4, PcbAssumption DEF AtRoot
<1> QED BY <1>5, <1>6

\* The process that goes has no children, and is the last one if it is test().
LEMMA SelfTree ==
  ASSUME Core, NoOrphan, AtRoot, CountExact, terminateSelf
  PROVE  (NoOrphan /\ AtRoot)'
<1> DEFINE p == Last(killStack)
<1>1. /\ mode = "kill" /\ Children(p) = {} /\ p_prnt' = [p_prnt EXCEPT ![p] = NULL]
      /\ freePcbs' = freePcbs \cup {p} /\ killStack' = Front(killStack)
  BY DEF terminateSelf
<1>2. /\ p \in Live /\ p \in Pcb /\ killStack \in Seq(Pcb) /\ killStack # <<>>
      /\ p_prnt \in [Pcb -> Pcb \cup {NULL}] /\ Daemon \in Live /\ Daemon # p
  BY <1>1, KillStack, PcbAssumption DEF Core, TypeOK, ModeInv, Live
<1>3. /\ Len(killStack) \in Nat \ {0} /\ DOMAIN killStack = 1 .. Len(killStack)
      /\ DOMAIN killStack' = 1 .. Len(killStack) - 1
      /\ p = killStack[Len(killStack)]
      /\ \A i \in 1 .. Len(killStack) - 1 : killStack'[i] = killStack[i]
  BY <1>1, <1>2, FrontLast
<1>4. Live' = Live \ {p}
  BY <1>1 DEF Live
<1>5. ASSUME p = Root PROVE mode' = "halt"
  <2>1. Progeny = {}
    BY <1>1, <1>5, RootIsLast
  <2>2. Live' = {Daemon}
    BY <2>1, <1>2, <1>4, <1>5 DEF Progeny
  <2>3. CountExact'
    BY SelfExact
  <2> QED BY <2>2, <2>3 DEF CountExact
<1> HIDE DEF p
<1>6. AtRoot'
  BY <1>1, <1>2, <1>3, PcbAssumption DEF AtRoot
<1>7. NoOrphan'
  <2>1. ASSUME NEW q \in Live' \ {Root, Daemon}
        PROVE  p_prnt'[q] \in Live' \/ q \in ToSet(killStack')
    <3>1. q \in Live \ {Root, Daemon} /\ q # p /\ q \in Pcb /\ p_prnt'[q] = p_prnt[q]
      BY <2>1, <1>1, <1>2, <1>4 DEF Live
    <3>2. CASE p_prnt[q] \in Live
      BY <3>1, <3>2, <1>1, <1>4 DEF Children
    <3>3. CASE q \in ToSet(killStack)
      <4>1. PICK i \in DOMAIN killStack : killStack[i] = q
        BY <3>3 DEF ToSet
      <4>2. i \in DOMAIN killStack' /\ killStack'[i] = q
        BY <4>1, <3>1, <1>3
      <4> QED BY <4>2 DEF ToSet
    <3> QED BY <3>1, <3>2, <3>3 DEF NoOrphan
  <2>2. Root \notin Live' => mode' = "halt"
    BY <1>1, <1>4, <1>5 DEF NoOrphan
  <2> QED BY <2>1, <2>2 DEF NoOrphan
<1> QED BY <1>6, <1>7

-----------------------------------------------------------------------------
\* Every action preserves NoOrphan and AtRoot, given Core and CountExact.
LEMMA TreeStep ==
  Core /\ CountExact /\ NoOrphan /\ AtRoot /\ [Next]_vars => (NoOrphan /\ AtRoot)'
<1> SUFFICES ASSUME Core, CountExact, NoOrphan, AtRoot, [Next]_vars
             PROVE  (NoOrphan /\ AtRoot)'
  OBVIOUS
<1>1. CASE UNCHANGED vars \/ Stopped
  BY <1>1, TreeSame DEF vars, Stopped
<1>2. CASE \/ sysWaitIO \/ sysWaitClock \/ \E d \in Device : issueCommand(d)
           \/ \E s \in Sem : sysPasseren(s) \/ sysVerhogen(s)
  <2>1. mode # "halt" /\ UNCHANGED <<freePcbs, p_prnt, killStack>>
    BY <1>2 DEF sysPasseren, sysVerhogen, sysWaitIO, sysWaitClock, issueCommand,
                Requests, tree
  <2> QED BY <2>1, TreeSame
<1>3. CASE Interrupt
  <2>1. mode # "halt" /\ UNCHANGED <<freePcbs, p_prnt, killStack>>
    BY <1>3 DEF Interrupt, handlePLTInterrupt, handleIntervalTimerInterrupt,
                handleDeviceInterrupt, InterruptsOn, tree
  <2> QED BY <2>1, TreeSame
<1> QED BY <1>1, <1>2, <1>3, CreateTree, TerminateTree, ChildTree, SelfTree
        DEF Next, Syscall, Kill

\* A process outlives neither its creator nor test(): the recursion of
\* sysTerminate leaves no orphan, and the machine halts with test().
THEOREM NoOrphanHolds == Spec => []NoOrphan
<1>1. Init => NoOrphan /\ AtRoot
  <2> SUFFICES ASSUME Init PROVE NoOrphan /\ AtRoot
    OBVIOUS
  <2>1. Live = {Root, Daemon}
    BY PcbAssumption DEF Init, Live, BootPcbs
  <2> QED BY <2>1, PcbAssumption DEF Init, NoOrphan, AtRoot
<1> QED BY <1>1, TreeStep, CoreInvariant, CountExactHolds, PTL DEF Spec

-----------------------------------------------------------------------------
(***************************************************************************)
(* Nucleus implements Semaphores: every step of the kernel is a P, a V, a  *)
(* Join or a Leave of the semaphore service, or does not concern it.       *)
(***************************************************************************)
SemVal  == [s \in Sem |-> semVal[s]]
Waiting == [s \in Sem |-> blocked[s]]

\* What the kernel has to get right for the service, in one place.
Sound == Core /\ SemCount

\* The facts of Sound that the steps below use.
LEMMA SoundFacts ==
  ASSUME Sound
  PROVE  /\ QueueTypes /\ OnePlace /\ Sem \subseteq AllSem
         /\ p_semAdd \in [Pcb -> AllSem \cup {NULL}]
         /\ ioReq \in [Pcb -> Device \cup {NULL}]
         /\ mode = "run" => currentProcess \in Live /\ currentProcess \in Pcb
  BY PcbAssumption DEF Sound, Core, TypeOK, OnePlace, QueueTypes, ModeInv, Live, AllSem

\* The sequence operators of the two modules are the same.
LEMMA SameMembers == \A q : SemService!ToSet(q) = ToSet(q)
  BY DEF SemService!ToSet, ToSet

LEMMA SameRemove == \A q, p : SemService!RemoveFirst(q, p) = RemoveFirst(q, p)
  BY DEF SemService!RemoveFirst, RemoveFirst, SemService!SelectInSeq, SelectInSeq,
         SemService!RemoveAt, RemoveAt, SemService!Min, Min

\* A step that changes no kernel semaphore and no process is none of the
\* service's.
LEMMA Stutter ==
  ASSUME Live' = Live,
         \A s \in Sem : semVal'[s] = semVal[s] /\ blocked'[s] = blocked[s]
  PROVE  UNCHANGED SemService!vars
  BY DEF SemService!vars

\* SYS3 of s is a P of s by the running process.
LEMMA PasserenImplements ==
  ASSUME Sound, NEW s \in Sem, sysPasseren(s), NEW p, p = currentProcess
  PROVE  SemService!P(s, p)
<1>1. /\ QueueTypes /\ OnePlace /\ s \in AllSem /\ mode = "run" /\ Sem \subseteq AllSem
      /\ p \in Live /\ p \in Pcb /\ passeren(s, softBlockCount) /\ Live' = Live
  BY SoundFacts DEF sysPasseren, Requests, Live, tree
<1>2. SemService!Free(p)
  <2>1. \A t \in AllSem : p \notin ToSet(blocked[t])
    BY <1>1, SemAssumption DEF OnePlace
  <2> QED BY <2>1, <1>1, SameMembers DEF SemService!Free
<1>3. SemVal' = [SemVal EXCEPT ![s] = SemVal[s] - 1]
  BY <1>1 DEF SemVal, passeren, QueueTypes
<1>4. Waiting' = [Waiting EXCEPT ![s] =
                    IF SemVal[s] > 0 THEN Waiting[s] ELSE Append(Waiting[s], p)]
  <2>1. semVal[s] \in Int /\ SemVal[s] = semVal[s] /\ Waiting[s] = blocked[s]
    BY <1>1 DEF QueueTypes, SemVal, Waiting
  <2>2. CASE semVal[s] > 0
    <3>1. blocked' = blocked
      BY <1>1, <2>1, <2>2 DEF passeren, asl
    <3> QED BY <3>1, <2>1, <2>2 DEF Waiting
  <2>3. CASE ~(semVal[s] > 0)
    <3>1. blocked' = [blocked EXCEPT ![s] = Append(blocked[s], p)]
      BY <1>1, <2>1, <2>3 DEF passeren
    <3> QED BY <3>1, <2>1, <2>3, <1>1 DEF Waiting, QueueTypes
  <2> QED BY <2>2, <2>3
<1> QED BY <1>1, <1>2, <1>3, <1>4 DEF SemService!P, SemVal, Waiting

\* SYS4 of s is a V of s: it wakes somebody whenever there is somebody to
\* wake, since by SemCount the value is then below zero.
LEMMA VerhogenImplements ==
  ASSUME Sound, NEW s \in Sem, sysVerhogen(s)
  PROVE  SemService!V(s)
<1>1. /\ QueueTypes /\ s \in AllSem /\ Sem \subseteq AllSem /\ Live' = Live
      /\ semVal' = [semVal EXCEPT ![s] = semVal[s] + 1]
  BY SoundFacts DEF sysVerhogen, Live, tree
<1>2. SemVal' = [SemVal EXCEPT ![s] = SemVal[s] + 1]
  BY <1>1 DEF SemVal, QueueTypes
<1>3. blocked[s] # <<>> => semVal[s] < 0
  <2>1. semVal[s] \in Int /\ blocked[s] \in Seq(Pcb) /\ Len(blocked[s]) \in Nat
    BY <1>1, LenProperties DEF QueueTypes
  <2>2. Len(blocked[s]) <= Owed(semVal[s])
    BY <1>1, PerSemaphore DEF Sound, AllCounted, Counted
  <2>3. blocked[s] # <<>> => Len(blocked[s]) # 0
    BY <2>1, EmptySeq
  <2> QED BY <2>1, <2>2, <2>3 DEF Owed
<1>4. Waiting' = [Waiting EXCEPT ![s] =
                    IF Waiting[s] = <<>> THEN Waiting[s] ELSE Tail(Waiting[s])]
  <2>1. CASE blocked[s] # <<>>
    <3>1. blocked' = [blocked EXCEPT ![s] = Tail(blocked[s])]
      BY <1>1, <1>3, <2>1 DEF sysVerhogen, removeBlocked, QueueTypes
    <3> QED BY <3>1, <2>1, <1>1 DEF Waiting, QueueTypes
  <2>2. CASE blocked[s] = <<>>
    BY <1>1, <2>2 DEF sysVerhogen, Waiting, QueueTypes, asl
  <2> QED BY <2>1, <2>2
<1> QED BY <1>1, <1>2, <1>4 DEF SemService!V, SemVal, Waiting

\* SYS1 brings a client.
LEMMA CreateImplements ==
  ASSUME Sound, sysCreateProcess
  PROVE  \E p \in Pcb : SemService!Join(p)
<1>1. PICK p \in freePcbs : freePcbs' = freePcbs \ {p}
  BY DEF sysCreateProcess
<1>2. /\ p \in Pcb /\ p \notin Live /\ Live' = Live \cup {p}
      /\ UNCHANGED <<semVal, blocked>>
  BY <1>1 DEF Sound, Core, TypeOK, Live, sysCreateProcess
<1> QED BY <1>2 DEF SemService!Join

\* The end of one call of sysTerminate is a Leave, and gives back one unit if
\* the process waited on a kernel semaphore.
LEMMA SelfImplements ==
  ASSUME Sound, terminateSelf
  PROVE  \E p \in Pcb : SemService!Leave(p)
<1> USE SemAssumption
<1>0. PICK p : p = Last(killStack)
  OBVIOUS
<1>1. /\ QueueTypes /\ OnePlace /\ Sem \subseteq AllSem
      /\ p_semAdd \in [Pcb -> AllSem \cup {NULL}]
      /\ p \in Live /\ p \in Pcb /\ leaveSemaphore(p) /\ freePcbs' = freePcbs \cup {p}
  BY <1>0, SoundFacts, KillStack DEF Sound, terminateSelf
<1>2. Live' = Live \ {p}
  BY <1>1 DEF Live
<1>3. ASSUME NEW s \in Sem
      PROVE  /\ semVal'[s] = IF p \in ToSet(blocked[s]) THEN semVal[s] + 1 ELSE semVal[s]
             /\ blocked'[s] = RemoveFirst(blocked[s], p)
  <2>1. /\ s \in AllSem /\ s \notin Device /\ s # NULL /\ s # Clock
        /\ blocked[s] \in Seq(Pcb) /\ IsInjective(blocked[s])
        /\ p \in ToSet(blocked[s]) <=> p_semAdd[p] = s
    BY <1>1 DEF QueueTypes, OnePlace, AllSem
  <2>2. CASE p_semAdd[p] = s
    <3>1. /\ semVal' = [semVal EXCEPT ![s] = @ + 1]
          /\ blocked' = [blocked EXCEPT ![s] = RemoveFirst(@, p)]
      BY <2>1, <2>2, <1>1 DEF leaveSemaphore
    <3> QED BY <3>1, <2>1, <2>2, <1>1 DEF QueueTypes
  <2>3. CASE p_semAdd[p] # s
    <3>1. RemoveFirst(blocked[s], p) = blocked[s]
      BY <2>1, <2>3, RemoveMember
    <3>2. semVal'[s] = semVal[s] /\ blocked'[s] = blocked[s]
      BY <2>1, <2>3, <1>1 DEF leaveSemaphore, QueueTypes
    <3> QED BY <3>1, <3>2, <2>1, <2>3
  <2> QED BY <2>2, <2>3
<1>4. SemService!Leave(p)
  BY <1>1, <1>2, <1>3, SameMembers, SameRemove DEF SemService!Leave
<1> QED BY <1>1, <1>4

-----------------------------------------------------------------------------
\* SYS5 and SYS7 are P's of semaphores outside the service.
LEMMA SoftPasseren ==
  ASSUME Sound, NEW s \in SoftSem, NEW soft, passeren(s, soft), UNCHANGED tree
  PROVE  UNCHANGED SemService!vars
<1>1. Live' = Live /\ QueueTypes /\ Sem \subseteq AllSem /\ s \notin Sem
  BY SoundFacts, SemAssumption DEF Live, tree, SoftSem
<1>2. ASSUME NEW t \in Sem
      PROVE  semVal'[t] = semVal[t] /\ blocked'[t] = blocked[t]
  BY <1>1 DEF passeren, QueueTypes, asl
<1> QED BY <1>1, <1>2, Stutter

\* So are the V's of the interrupt handlers.
LEMMA InterruptStutters ==
  ASSUME Sound, Interrupt
  PROVE  UNCHANGED SemService!vars
<1>1. /\ Live' = Live /\ QueueTypes /\ Sem \subseteq AllSem
      /\ Sem \cap Device = {} /\ Clock \notin Sem
  BY SoundFacts, SemAssumption
     DEF Live, tree, Interrupt, handlePLTInterrupt, handleIntervalTimerInterrupt,
         handleDeviceInterrupt
<1>2. CASE handlePLTInterrupt
  BY <1>1, <1>2, Stutter DEF handlePLTInterrupt, asl
<1>3. CASE handleIntervalTimerInterrupt
  <2>1. /\ semVal' = [semVal EXCEPT ![Clock] = 0]
        /\ blocked' = [blocked EXCEPT ![Clock] = <<>>]
    BY <1>3 DEF handleIntervalTimerInterrupt
  <2> QED BY <1>1, <2>1, Stutter DEF QueueTypes
<1>4. ASSUME NEW d \in Device, handleDeviceInterrupt(d)
      PROVE  UNCHANGED SemService!vars
  <2>1. /\ semVal' = [semVal EXCEPT ![d] = @ + 1]
        /\ blocked' = [blocked EXCEPT ![d] = Tail(@)] \/ blocked' = blocked
    BY <1>4 DEF handleDeviceInterrupt, removeBlocked, asl
  <2>2. ASSUME NEW t \in Sem
        PROVE  semVal'[t] = semVal[t] /\ blocked'[t] = blocked[t]
    BY <1>1, <2>1 DEF QueueTypes
  <2> QED BY <1>1, <2>2, Stutter
<1> QED BY <1>2, <1>3, <1>4 DEF Interrupt

\* A step of the nucleus is a step of the service or a stutter.
LEMMA StepImplements ==
  Sound /\ [Next]_vars => [SemService!Next]_(SemService!vars)
<1> SUFFICES ASSUME Sound, [Next]_vars PROVE [SemService!Next]_(SemService!vars)
  OBVIOUS
<1>1. CASE \/ UNCHANGED vars \/ Stopped \/ sysTerminate \/ terminateChild
           \/ \E d \in Device : issueCommand(d)
  <2>1. UNCHANGED <<freePcbs, semVal, blocked>>
    BY <1>1 DEF vars, Stopped, sysTerminate, terminateChild, issueCommand, tree, asl
  <2>2. Live' = Live
    BY <2>1 DEF Live
  <2> QED BY <2>1, <2>2, Stutter
<1>2. CASE sysCreateProcess
  BY <1>2, CreateImplements DEF SemService!Next
<1>3. CASE \E s \in Sem : sysPasseren(s)
  <2>1. PICK s \in Sem : sysPasseren(s)
    BY <1>3
  <2>2. PICK p \in Pcb : p = currentProcess
    BY <2>1, SoundFacts DEF sysPasseren, Requests
  <2>3. SemService!P(s, p)
    BY <2>1, <2>2, PasserenImplements
  <2> QED BY <2>2, <2>3 DEF SemService!Next
<1>4. CASE \E s \in Sem : sysVerhogen(s)
  BY <1>4, VerhogenImplements DEF SemService!Next
<1>5. CASE sysWaitIO
  <2>1. /\ mode = "run" /\ ioReq[currentProcess] # NULL /\ UNCHANGED tree
        /\ passeren(ioReq[currentProcess], softBlockCount + 1)
    BY <1>5 DEF sysWaitIO
  <2>2. ioReq[currentProcess] \in SoftSem
    BY <2>1, SoundFacts DEF SoftSem
  <2> QED BY <2>1, <2>2, SoftPasseren
<1>6. CASE sysWaitClock
  <2>1. Clock \in SoftSem /\ passeren(Clock, softBlockCount + 1) /\ UNCHANGED tree
    BY <1>6 DEF sysWaitClock, SoftSem
  <2> QED BY <2>1, SoftPasseren
<1>7. CASE terminateSelf
  BY <1>7, SelfImplements DEF SemService!Next
<1>8. CASE Interrupt
  BY <1>8, InterruptStutters
<1> QED BY <1>1, <1>2, <1>3, <1>4, <1>5, <1>6, <1>7, <1>8 DEF Next, Syscall, Kill

\* SYS3, SYS4 and the termination of waiters give processes counting
\* semaphores that serve in order of arrival.
THEOREM NucleusImplements == Spec => Implements
<1>1. Init => SemService!Init
  <2> SUFFICES ASSUME Init PROVE SemService!Init
    OBVIOUS
  <2>1. /\ semVal = [s \in AllSem |-> 0] /\ blocked = [s \in AllSem |-> <<>>]
        /\ Sem \subseteq AllSem /\ Live \subseteq Pcb
    BY DEF Init, AllSem, Live
  <2>2. SemVal \in [Sem -> Int] /\ Waiting = [s \in Sem |-> <<>>]
    BY <2>1 DEF SemVal, Waiting
  <2> QED BY <2>1, <2>2 DEF SemService!Init, SemVal, Waiting
<1>2. Spec => []Sound
  <2>1. Core /\ SemCount => Sound
    BY DEF Sound
  <2> QED BY <2>1, CoreInvariant, SemCountHolds, PTL
<1> QED BY <1>1, <1>2, StepImplements, PTL DEF Spec, Implements, SemService!Spec

-----------------------------------------------------------------------------
(***************************************************************************)
(* Interrupts and SYS5.  What the nucleus owes to its clients here: no     *)
(* process but test() has children, so nothing is ever terminated between  *)
(* a command and its SYS5 while test() lives.                              *)
(***************************************************************************)
\* SYS1 is a request of test() alone: a U-proc runs in user mode, where SYS1
\* is a program trap, and no service of the support level issues one.
OnlyTestCreates == "CREATEPROCESS" \notin UprocCalls

\* The processes between the command to device d and their SYS5.
Committed(d) == {p \in Live : ioReq[p] = d}

Balanced(d) == semVal[d] + (IF busy[d] THEN 1 ELSE 0) <= Cardinality(Committed(d))

\* Whoever has commanded a device is alive and waits for nothing, and is not
\* terminated unless test() is; until then every device is in balance.
IoInv ==
  /\ \A c \in Pcb : p_prnt[c] \in {Root, NULL}
  /\ \A p \in Pcb : ioReq[p] # NULL => p \in Live /\ p_semAdd[p] = NULL
  /\ mode = "kill" => /\ ioReq[currentProcess] = NULL
                      /\ currentProcess # Root => Len(killStack) = 1
  /\ Root \in Live /\ ~(mode = "kill" /\ currentProcess = Root)
       => \A d \in Device : Balanced(d)

LEMMA CommittedFinite ==
  ASSUME NEW d
  PROVE  /\ IsFiniteSet(Committed(d)) /\ Cardinality(Committed(d)) \in Nat
         /\ Committed(d) \subseteq Pcb
<1>1. Committed(d) \subseteq Pcb
  BY DEF Committed, Live
<1>. QED  BY <1>1, PcbAssumption, FS_Subset, FS_CardinalityType

\* Outside sysTerminate test() is alive and every device is in balance.
LEMMA BalancedNow ==
  ASSUME NoOrphan, IoInv, mode \in {"run", "wait"}
  PROVE  Root \in Live /\ \A d \in Device : Balanced(d)
  BY DEF NoOrphan, IoInv

\* A step that commands no device and ends no process.
LEMMA Onward ==
  ASSUME NoOrphan, IoInv, mode \in {"run", "wait"}, mode' # "kill",
         UNCHANGED <<freePcbs, p_prnt, ioReq>>,
         \A p \in Pcb : ioReq[p] # NULL => p_semAdd'[p] \in {p_semAdd[p], NULL},
         \A d \in Device : /\ semVal[d] \in Int /\ semVal'[d] \in Int
                           /\ semVal'[d] + (IF busy'[d] THEN 1 ELSE 0)
                                <= semVal[d] + (IF busy[d] THEN 1 ELSE 0)
  PROVE  IoInv'
<1>1. Live' = Live /\ \A d \in Device : Committed(d)' = Committed(d)
  BY DEF Live, Committed
<1>2. ASSUME NEW d \in Device
      PROVE  Balanced(d)'
  <2>1. PICK n \in Nat : n = Cardinality(Committed(d))
    BY CommittedFinite
  <2>2. Cardinality(Committed(d))' = n
    BY <1>1, <2>1
  <2>3. semVal[d] + (IF busy[d] THEN 1 ELSE 0) <= n
    BY <2>1, BalancedNow DEF Balanced
  <2>4. semVal'[d] + (IF busy'[d] THEN 1 ELSE 0) <= n
    BY <2>3
  <2>. QED  BY <2>2, <2>4 DEF Balanced
<1>3. \A p \in Pcb : ioReq'[p] # NULL => p \in Live' /\ p_semAdd'[p] = NULL
  BY <1>1 DEF IoInv
<1>. QED  BY <1>2, <1>3 DEF IoInv

\* A P of the running process, which is not between a command and its SYS5.
LEMMA PasserenIo ==
  ASSUME Core, NoOrphan, IoInv, mode = "run", ioReq[currentProcess] = NULL,
         NEW s \in Sem \cup {Clock}, NEW soft \in Int, passeren(s, soft),
         UNCHANGED <<tree, ioReq, busy>>
  PROVE  IoInv'
<1>1. /\ semVal \in [AllSem -> Int] /\ p_semAdd \in [Pcb -> AllSem \cup {NULL}]
      /\ semVal' = [semVal EXCEPT ![s] = @ - 1]
      /\ \/ UNCHANGED <<asl, queues>>
         \/ /\ p_semAdd' = [p_semAdd EXCEPT ![currentProcess] = s]
            /\ scheduler(readyQueue, processCount, soft)
  BY DEF Core, TypeOK, passeren
<1>2. \A d \in Device : d \in AllSem /\ d # s /\ semVal'[d] = semVal[d] /\ semVal[d] \in Int
  BY <1>1, SemAssumption DEF AllSem
<1>3. \A p \in Pcb : ioReq[p] # NULL => p_semAdd'[p] \in {p_semAdd[p], NULL}
  BY <1>1 DEF asl
<1>4. mode' # "kill"
  BY <1>1 DEF scheduler, queues
<1>5. UNCHANGED <<freePcbs, p_prnt, ioReq>>
  BY DEF tree
<1>6. \A d \in Device : /\ semVal[d] \in Int /\ semVal'[d] \in Int
                        /\ semVal'[d] + (IF busy'[d] THEN 1 ELSE 0)
                             <= semVal[d] + (IF busy[d] THEN 1 ELSE 0)
  BY <1>2
<1>. QED  BY <1>3, <1>4, <1>5, <1>6, Onward

\* SYS5 takes one unit from the semaphore and one process from the committed.
LEMMA WaitIOIo ==
  ASSUME Core, NoOrphan, IoInv, sysWaitIO
  PROVE  IoInv'
<1>1. PICK c, s : c = currentProcess /\ s = ioReq[c]
  OBVIOUS
<1>2. /\ mode = "run" /\ c \in Live /\ c \in Pcb /\ s \in Device /\ s \in AllSem
      /\ semVal \in [AllSem -> Int] /\ p_semAdd \in [Pcb -> AllSem \cup {NULL}]
      /\ ioReq \in [Pcb -> Device \cup {NULL}] /\ NULL \notin Device
  BY <1>1, SemAssumption, PcbAssumption
     DEF Core, TypeOK, OnePlace, ModeInv, sysWaitIO, Live, AllSem
<1>3. /\ ioReq' = [ioReq EXCEPT ![c] = NULL] /\ passeren(s, softBlockCount + 1)
      /\ UNCHANGED <<tree, killStack, busy>>
  BY <1>1 DEF sysWaitIO
<1>4. /\ semVal' = [semVal EXCEPT ![s] = @ - 1]
      /\ \/ UNCHANGED <<asl, queues>>
         \/ /\ p_semAdd' = [p_semAdd EXCEPT ![c] = s]
            /\ scheduler(readyQueue, processCount, softBlockCount + 1)
  BY <1>1, <1>3 DEF passeren
<1>5. Live' = Live /\ p_prnt' = p_prnt /\ mode' # "kill"
  BY <1>2, <1>3, <1>4 DEF tree, Live, scheduler, queues
<1>6. \A p \in Pcb : ioReq'[p] # NULL => p \in Live' /\ p_semAdd'[p] = NULL
  BY <1>2, <1>3, <1>4, <1>5 DEF IoInv, asl
<1>7. ASSUME NEW d \in Device
      PROVE  Balanced(d)'
  <2>0. PICK C : C = Committed(d)
    OBVIOUS
  <2>1. PICK n \in Nat : C = Committed(d) /\ n = Cardinality(C)
    BY <2>0, CommittedFinite
  <2>2. semVal[d] + (IF busy[d] THEN 1 ELSE 0) <= n /\ semVal[d] \in Int
    BY <1>2, <2>1, BalancedNow DEF Balanced, AllSem
  <2>3. CASE d = s
    <3>1. Committed(d)' = C \ {c} /\ c \in C
      BY <1>1, <1>2, <1>3, <1>5, <2>1, <2>3 DEF Committed
    <3>2. Cardinality(C \ {c}) = n - 1
      BY <2>1, <3>1, CommittedFinite, FS_RemoveElement
    <3>3. semVal'[d] = semVal[d] - 1 /\ busy'[d] = busy[d]
      BY <1>2, <1>3, <1>4, <2>3
    <3>4. semVal'[d] + (IF busy'[d] THEN 1 ELSE 0) <= n - 1
      BY <2>2, <3>3
    <3>. QED  BY <3>1, <3>2, <3>4 DEF Balanced
  <2>4. CASE d # s
    <3>1. Committed(d)' = C
      BY <1>1, <1>2, <1>3, <1>5, <2>1, <2>4 DEF Committed
    <3>2. semVal'[d] = semVal[d] /\ busy'[d] = busy[d]
      BY <1>2, <1>3, <1>4, <2>4 DEF AllSem
    <3>. QED  BY <2>1, <2>2, <3>1, <3>2 DEF Balanced
  <2>. QED  BY <2>3, <2>4
<1>. QED  BY <1>5, <1>6, <1>7 DEF IoInv

\* A command adds one interrupt at most and one process to the committed.
LEMMA IssueIo ==
  ASSUME Core, NoOrphan, IoInv, NEW e \in Device, issueCommand(e)
  PROVE  IoInv'
<1>1. PICK c : c = currentProcess
  OBVIOUS
<1>2. /\ mode = "run" /\ c \in Live /\ c \in Pcb /\ p_semAdd[c] = NULL
      /\ ioReq[c] = NULL /\ ioReq \in [Pcb -> Device \cup {NULL}] /\ NULL \notin Device
      /\ busy \in [Device -> BOOLEAN] /\ semVal \in [AllSem -> Int]
  BY <1>1, SemAssumption, PcbAssumption
     DEF Core, TypeOK, OnePlace, ModeInv, issueCommand, Requests, Live, AllSem
<1>3. /\ ioReq' = [ioReq EXCEPT ![c] = e] /\ busy' = [busy EXCEPT ![e] = TRUE]
      /\ semVal' = semVal /\ p_semAdd' = p_semAdd /\ mode' = mode /\ p_prnt' = p_prnt
      /\ Live' = Live
  BY <1>1 DEF issueCommand, tree, asl, queues, Live
<1>4. \A p \in Pcb : ioReq'[p] # NULL => p \in Live' /\ p_semAdd'[p] = NULL
  BY <1>2, <1>3 DEF IoInv
<1>5. ASSUME NEW d \in Device
      PROVE  Balanced(d)'
  <2>0. PICK C : C = Committed(d)
    OBVIOUS
  <2>1. PICK n \in Nat : C = Committed(d) /\ n = Cardinality(C)
    BY <2>0, CommittedFinite
  <2>2. semVal[d] + (IF busy[d] THEN 1 ELSE 0) <= n /\ semVal[d] \in Int
    BY <1>2, <2>1, BalancedNow DEF Balanced, AllSem
  <2>3. CASE d = e
    <3>1. Committed(d)' = C \cup {c} /\ c \notin C
      BY <1>2, <1>3, <2>1, <2>3 DEF Committed
    <3>2. Cardinality(C \cup {c}) = n + 1
      BY <2>1, <3>1, CommittedFinite, FS_AddElement
    <3>3. semVal'[d] + (IF busy'[d] THEN 1 ELSE 0) <= n + 1
      BY <1>3, <2>2
    <3>. QED  BY <3>1, <3>2, <3>3 DEF Balanced
  <2>4. CASE d # e
    <3>1. Committed(d)' = C
      BY <1>2, <1>3, <2>1, <2>4 DEF Committed
    <3>2. semVal'[d] = semVal[d] /\ busy'[d] = busy[d]
      BY <1>2, <1>3, <2>4
    <3>. QED  BY <2>1, <2>2, <3>1, <3>2 DEF Balanced
  <2>. QED  BY <2>3, <2>4
<1>. QED  BY <1>2, <1>3, <1>4, <1>5 DEF IoInv

\* SYS1 is called by test(); the new process has commanded nothing.
LEMMA CreateIo ==
  ASSUME OnlyTestCreates, Core, NoOrphan, IoInv, sysCreateProcess
  PROVE  IoInv'
<1>1. /\ mode = "run" /\ currentProcess = Root /\ p_prnt \in [Pcb -> Pcb \cup {NULL}]
      /\ p_semAdd \in [Pcb -> AllSem \cup {NULL}]
  BY CallsAssumption
     DEF Core, TypeOK, sysCreateProcess, Requests, MayCall, OnlyTestCreates
<1>2. PICK p \in freePcbs : /\ freePcbs' = freePcbs \ {p}
                            /\ p_prnt' = [p_prnt EXCEPT ![p] = currentProcess]
                            /\ p_semAdd' = [p_semAdd EXCEPT ![p] = NULL]
  BY DEF sysCreateProcess
<1>3. semVal' = semVal /\ busy' = busy /\ ioReq' = ioReq /\ mode' = mode
  BY DEF sysCreateProcess
<1>4. p \in Pcb /\ p \notin Live /\ Live' = Live \cup {p} /\ ioReq[p] = NULL
  BY <1>2 DEF Core, TypeOK, Live, IoInv
<1>5. \A q \in Pcb : ioReq'[q] # NULL => q \in Live' /\ p_semAdd'[q] = NULL
  BY <1>1, <1>2, <1>3, <1>4 DEF IoInv
<1>6. \A c \in Pcb : p_prnt'[c] \in {Root, NULL}
  BY <1>1, <1>2 DEF IoInv
<1>7. ASSUME NEW d \in Device
      PROVE  Balanced(d)'
  <2>1. d # NULL
    BY SemAssumption DEF AllSem
  <2>2. Committed(d)' = Committed(d)
    BY <1>3, <1>4, <2>1 DEF Committed
  <2>. QED  BY <1>1, <1>3, <2>2, BalancedNow DEF Balanced
<1>. QED  BY <1>1, <1>3, <1>5, <1>6, <1>7 DEF IoInv

\* SYS2 begins: the process has done the SYS5 of every command.
LEMMA TerminateIo ==
  ASSUME Core, NoOrphan, IoInv, sysTerminate
  PROVE  IoInv'
<1>1. /\ mode = "run" /\ ioReq[currentProcess] = NULL /\ killStack' = <<currentProcess>>
      /\ UNCHANGED <<freePcbs, p_prnt, p_semAdd, ioReq, semVal, busy, currentProcess>>
      /\ Live' = Live
  BY DEF sysTerminate, Requests, tree, asl, io, Live
<1>2. Len(killStack') = 1
  BY <1>1
<1>3. \A d \in Device : Balanced(d)'
  BY <1>1, BalancedNow DEF Balanced, Committed
<1>. QED  BY <1>1, <1>2, <1>3 DEF IoInv

\* Only test() has children to take along.
LEMMA ChildIo ==
  ASSUME Core, NoOrphan, IoInv, terminateChild
  PROVE  IoInv'
<1>1. PICK c \in Children(Last(killStack)) : p_prnt' = [p_prnt EXCEPT ![c] = NULL]
  BY DEF terminateChild
<1>2. /\ mode = "kill" /\ mode' = mode /\ currentProcess' = currentProcess /\ Live' = Live
      /\ UNCHANGED <<p_semAdd, ioReq>> /\ p_prnt \in [Pcb -> Pcb \cup {NULL}]
  BY DEF Core, TypeOK, terminateChild, queues, asl, io, Live
<1>3. /\ killStack \in Seq(Pcb) /\ killStack # <<>> /\ killStack[1] = currentProcess
      /\ Last(killStack) = killStack[Len(killStack)] /\ Last(killStack) \in Pcb
  BY <1>2, FrontLast DEF Core, TypeOK, ModeInv
<1>4. Last(killStack) = Root
  BY <1>1, <1>3, PcbAssumption DEF Children, IoInv
<1>5. currentProcess = Root
  BY <1>2, <1>3, <1>4 DEF IoInv
<1>6. \A q \in Pcb : p_prnt'[q] \in {Root, NULL}
  BY <1>1, <1>2 DEF IoInv
<1>. QED  BY <1>2, <1>5, <1>6 DEF IoInv

\* A process other than test() goes alone, from between two of its services;
\* test() goes last, and with it the machine.
LEMMA SelfIo ==
  ASSUME Core, NoOrphan, IoInv, CountExact', terminateSelf
  PROVE  IoInv'
<1>1. PICK p : p = Last(killStack)
  OBVIOUS
<1>2. /\ mode = "kill" /\ leaveSemaphore(p) /\ p_prnt' = [p_prnt EXCEPT ![p] = NULL]
      /\ ioReq' = [ioReq EXCEPT ![p] = NULL] /\ freePcbs' = freePcbs \cup {p}
      /\ p_semAdd' = p_semAdd /\ busy' = busy
      /\ \/ mode' = "halt"
         \/ p # currentProcess /\ currentProcess' = currentProcess /\ mode' = mode
         \/ /\ p = currentProcess
            /\ scheduler(RemoveFirst(readyQueue, p), oneProcessLess(processCount), softBlockCount')
  BY <1>1 DEF terminateSelf, queues
<1>3. /\ p \in Live /\ p \in Pcb /\ Live' = Live \ {p} /\ currentProcess \in Live
      /\ p_prnt \in [Pcb -> Pcb \cup {NULL}] /\ ioReq \in [Pcb -> Device \cup {NULL}]
      /\ semVal \in [AllSem -> Int] /\ p_semAdd[currentProcess] = NULL
  BY <1>1, <1>2, KillStack DEF Core, TypeOK, OnePlace, ModeInv, Live
<1>4. /\ \A c \in Pcb : p_prnt'[c] \in {Root, NULL}
      /\ \A q \in Pcb : ioReq'[q] # NULL => q \in Live' /\ p_semAdd'[q] = NULL
  BY <1>2, <1>3 DEF IoInv
<1>5. mode' = "halt" => Root \notin Live'
  BY PcbAssumption DEF CountExact
<1>6. CASE currentProcess = Root
  <2>1. mode' = "kill" => p # currentProcess /\ currentProcess' = currentProcess
    BY <1>2 DEF scheduler
  <2>2. ioReq[Root] = NULL
    BY <1>2, <1>6 DEF IoInv
  <2>3. ioReq'[Root] = NULL
    BY <1>2, <1>3, <2>2
  <2>4. Root \in Live' => mode' = "kill"
    BY <1>2, <1>3, <1>5, <1>6
  <2>. QED  BY <1>4, <1>6, <2>1, <2>3, <2>4 DEF IoInv
<1>7. CASE currentProcess # Root
  <2>1. p = currentProcess /\ ioReq[p] = NULL
    <3>1. Len(killStack) = 1 /\ ioReq[currentProcess] = NULL
      BY <1>2, <1>7 DEF IoInv
    <3>2. p = killStack[Len(killStack)] /\ killStack[1] = currentProcess
      BY <1>1, <1>2, FrontLast DEF Core, TypeOK, ModeInv
    <3>. QED  BY <3>1, <3>2
  <2>2. mode' # "kill"
    BY <1>2, <2>1 DEF scheduler
  <2>3. semVal' = semVal
    BY <1>2, <1>3, <2>1, SemAssumption DEF leaveSemaphore, AllSem
  <2>4. Root \in Live => \A d \in Device : Balanced(d)
    BY <1>7 DEF IoInv
  <2>5. \A d \in Device : Committed(d)' = Committed(d)
    <3>1. \A d \in Device : d # NULL
      BY SemAssumption DEF AllSem
    <3>. QED  BY <1>2, <1>3, <2>1, <3>1 DEF Committed
  <2>6. Root \in Live' => \A d \in Device : Balanced(d)'
    BY <1>2, <1>3, <2>3, <2>4, <2>5 DEF Balanced
  <2>. QED  BY <1>4, <2>2, <2>6 DEF IoInv
<1>. QED  BY <1>6, <1>7

\* The V of an interrupt: the unit goes from the device to its semaphore.
LEMMA DeviceIo ==
  ASSUME Core, NoOrphan, IoInv, NEW e \in Device, handleDeviceInterrupt(e)
  PROVE  IoInv'
<1>1. /\ mode \in {"run", "wait"} /\ busy[e] /\ busy' = [busy EXCEPT ![e] = FALSE]
      /\ semVal' = [semVal EXCEPT ![e] = @ + 1] /\ UNCHANGED <<freePcbs, p_prnt, ioReq>>
      /\ p_semAdd \in [Pcb -> AllSem \cup {NULL}] /\ busy \in [Device -> BOOLEAN]
      /\ semVal \in [AllSem -> Int]
  BY DEF handleDeviceInterrupt, InterruptsOn, tree, Core, TypeOK
<1>2. mode' # "kill"
  BY <1>1 DEF handleDeviceInterrupt, resume, scheduler
<1>3. \A p \in Pcb : p_semAdd'[p] \in {p_semAdd[p], NULL}
  BY <1>1 DEF handleDeviceInterrupt, removeBlocked, asl
<1>4. ASSUME NEW d \in Device
      PROVE  /\ semVal[d] \in Int /\ semVal'[d] \in Int
             /\ semVal'[d] + (IF busy'[d] THEN 1 ELSE 0)
                  <= semVal[d] + (IF busy[d] THEN 1 ELSE 0)
  <2>1. d \in AllSem /\ semVal[d] \in Int
    BY <1>1 DEF AllSem
  <2>2. CASE d = e
    BY <1>1, <2>1, <2>2
  <2>3. CASE d # e
    BY <1>1, <2>1, <2>3
  <2>. QED  BY <2>2, <2>3
<1>. QED  BY <1>1, <1>2, <1>3, <1>4, Onward

LEMMA IoStep ==
  ASSUME OnlyTestCreates, Core, NoOrphan, CountExact', IoInv, [Next]_vars
  PROVE  IoInv'
<1>1. /\ semVal \in [AllSem -> Int] /\ p_semAdd \in [Pcb -> AllSem \cup {NULL}]
      /\ softBlockCount \in Int /\ \A d \in Device : d \in AllSem
  BY DEF Core, TypeOK, AllSem
<1>2. CASE UNCHANGED vars \/ Stopped
  BY <1>2 DEF vars, Stopped, IoInv, Balanced, Committed, Live
<1>3. ASSUME NEW s \in Sem, sysPasseren(s)
      PROVE  IoInv'
  BY <1>1, <1>3, PasserenIo DEF sysPasseren, Requests, io
<1>4. ASSUME NEW s \in Sem, sysVerhogen(s)
      PROVE  IoInv'
  <2>1. /\ mode = "run" /\ mode' = mode /\ UNCHANGED <<freePcbs, p_prnt, ioReq>> /\ busy' = busy
        /\ semVal' = [semVal EXCEPT ![s] = @ + 1]
    BY <1>4 DEF sysVerhogen, Requests, tree, io
  <2>2. \A p \in Pcb : p_semAdd'[p] \in {p_semAdd[p], NULL}
    BY <1>1, <1>4 DEF sysVerhogen, removeBlocked, asl
  <2>3. \A d \in Device : d # s /\ semVal'[d] = semVal[d] /\ semVal[d] \in Int
    BY <1>1, <2>1, SemAssumption
  <2>4. \A d \in Device : /\ semVal[d] \in Int /\ semVal'[d] \in Int
                          /\ semVal'[d] + (IF busy'[d] THEN 1 ELSE 0)
                               <= semVal[d] + (IF busy[d] THEN 1 ELSE 0)
    BY <2>1, <2>3
  <2>. QED  BY <2>1, <2>2, <2>4, Onward
<1>5. CASE sysWaitClock
  <2>1. /\ mode = "run" /\ ioReq[currentProcess] = NULL /\ passeren(Clock, softBlockCount + 1)
        /\ UNCHANGED <<tree, ioReq, busy>> /\ softBlockCount + 1 \in Int
    BY <1>1, <1>5 DEF sysWaitClock, Requests, io
  <2>. QED  BY <2>1, PasserenIo
<1>6. CASE handlePLTInterrupt \/ handleIntervalTimerInterrupt
  <2>1. /\ mode \in {"run", "wait"} /\ UNCHANGED <<freePcbs, p_prnt, ioReq>> /\ busy' = busy
        /\ semVal' = semVal \/ semVal' = [semVal EXCEPT ![Clock] = 0]
    BY <1>6 DEF handlePLTInterrupt, handleIntervalTimerInterrupt, InterruptsOn, tree, io
  <2>2. mode' # "kill"
    BY <1>6, <2>1 DEF handlePLTInterrupt, handleIntervalTimerInterrupt, resume, scheduler
  <2>3. \A p \in Pcb : p_semAdd'[p] \in {p_semAdd[p], NULL}
    BY <1>1, <1>6 DEF handlePLTInterrupt, handleIntervalTimerInterrupt, asl
  <2>4. \A d \in Device : semVal'[d] = semVal[d] /\ semVal[d] \in Int
    BY <1>1, <2>1, SemAssumption
  <2>5. \A d \in Device : /\ semVal[d] \in Int /\ semVal'[d] \in Int
                          /\ semVal'[d] + (IF busy'[d] THEN 1 ELSE 0)
                               <= semVal[d] + (IF busy[d] THEN 1 ELSE 0)
    BY <2>1, <2>4
  <2>. QED  BY <2>1, <2>2, <2>3, <2>5, Onward
<1>. QED  BY <1>2, <1>3, <1>4, <1>5, <1>6, CreateIo, TerminateIo, ChildIo, SelfIo, WaitIOIo,
             IssueIo, DeviceIo
          DEF Next, Syscall, Kill, Interrupt

LEMMA IoInvHolds == OnlyTestCreates => (Spec => []IoInv)
<1>. SUFFICES ASSUME OnlyTestCreates
              PROVE  Spec => []IoInv
  OBVIOUS
<1>1. Init => IoInv
  <2>. SUFFICES ASSUME Init
                PROVE  IoInv
    OBVIOUS
  <2>1. ASSUME NEW d \in Device
        PROVE  Balanced(d)
    <3>1. semVal[d] = 0 /\ busy[d] = FALSE
      BY <2>1 DEF Init, AllSem
    <3>2. PICK n \in Nat : n = Cardinality(Committed(d))
      BY CommittedFinite
    <3>. QED  BY <3>1, <3>2 DEF Balanced
  <2>. QED  BY <2>1 DEF Init, IoInv
<1>2. Core /\ NoOrphan /\ CountExact' /\ IoInv /\ [Next]_vars => IoInv'
  BY IoStep
<1>. QED  BY <1>1, <1>2, CoreInvariant, NoOrphanHolds, CountExactHolds, PTL DEF Spec

\* No interrupt is counted that no process is coming to collect.
THEOREM IoBalanceHolds == OnlyTestCreates => (Spec => []IoBalance)
<1>. SUFFICES ASSUME OnlyTestCreates
              PROVE  Spec => []IoBalance
  OBVIOUS
<1>1. IoInv => IoBalance
  BY DEF IoInv, IoBalance, Balanced, Committed
<1>. QED  BY <1>1, IoInvHolds, PTL

\* The idle loop is never resumed with nobody to run: the process that is to
\* do the SYS5 of the interrupting device waits for nothing, so the processor
\* is not idle.
THEOREM NoNullDispatchHolds == OnlyTestCreates => (Spec => []NoNullDispatch)
<1>. SUFFICES ASSUME OnlyTestCreates
              PROVE  Spec => []NoNullDispatch
  OBVIOUS
<1>1. Init => NoNullDispatch
  BY DEF Init, NoNullDispatch
<1>2. ASSUME NoOrphan, WorkConserving, TypeOK, IoInv, NEW d \in Device, mode = "wait", busy[d]
      PROVE  semVal[d] < 0
  <2>1. semVal[d] + 1 <= Cardinality(Committed(d)) /\ semVal[d] \in Int
    BY <1>2, BalancedNow DEF Balanced, TypeOK, AllSem
  <2>2. Committed(d) = {}
    <3>1. d # NULL
      BY SemAssumption DEF AllSem
    <3>. QED  BY <1>2, <3>1 DEF Committed, IoInv, WorkConserving, Live
  <2>3. Cardinality(Committed(d)) = 0
    BY <2>2, FS_EmptySet
  <2>. QED  BY <2>1, <2>3
<1>3. NoOrphan /\ WorkConserving /\ TypeOK /\ IoInv /\ NoNullDispatch /\ [Next]_vars => NoNullDispatch'
  <2>. SUFFICES ASSUME NoOrphan, WorkConserving, TypeOK, IoInv, mode # "wild", [Next]_vars
                PROVE  mode' # "wild"
    BY DEF NoNullDispatch
  <2>1. ASSUME NEW d \in Device, handleDeviceInterrupt(d)
        PROVE  mode' # "wild"
    <3>1. CASE mode = "wait"
      <4>1. semVal[d] < 0 /\ semVal[d] \in Int
        BY <1>2, <2>1, <3>1 DEF handleDeviceInterrupt, TypeOK, AllSem
      <4>2. ~(semVal[d] >= 0)
        BY <4>1
      <4>3. \E rq, soft : resume(rq, soft)
        BY <2>1, <4>2, Zenon DEF handleDeviceInterrupt
      <4>. QED  BY <3>1, <4>3 DEF resume, scheduler
    <3>2. CASE mode # "wait"
      BY <2>1, <3>2 DEF handleDeviceInterrupt, resume, scheduler
    <3>. QED  BY <3>1, <3>2
  <2>2. CASE UNCHANGED vars \/ Stopped
    BY <2>2 DEF vars, Stopped
  <2>3. CASE \/ sysCreateProcess \/ sysTerminate \/ sysWaitIO \/ sysWaitClock
             \/ \E s \in Sem : sysPasseren(s) \/ sysVerhogen(s)
             \/ \E d \in Device : issueCommand(d)
    BY <2>3 DEF sysCreateProcess, sysTerminate, sysWaitIO, sysWaitClock, sysPasseren, sysVerhogen,
                issueCommand, passeren, scheduler, queues
  <2>4. CASE Kill \/ handlePLTInterrupt \/ handleIntervalTimerInterrupt
    BY <2>4 DEF Kill, terminateChild, terminateSelf, handlePLTInterrupt,
                handleIntervalTimerInterrupt, resume, scheduler, queues
  <2>. QED  BY <2>1, <2>2, <2>3, <2>4 DEF Next, Syscall, Interrupt
<1>. QED  BY <1>1, <1>3, NoOrphanHolds, WorkConservingHolds, TypeCorrect, IoInvHolds, PTL DEF Spec
=============================================================================
