-------------------------------- MODULE Paging --------------------------------
(***************************************************************************)
(* phase3/vmSupport.c, with what shares its state: the page tables of      *)
(* initProc.c, the TLB-refill handler of exceptions.c, supTerminate and    *)
(* supportProgTrapHandler of sysSupport.c, and test(), which waits for the *)
(* U-procs to end.  U-procs run in kernel mode with interrupts on here, so *)
(* they interleave between any two steps; a step is a SYSCALL, an atomic   *)
(* section (interrupts off), or code that touches shared data once.        *)
(*                                                                         *)
(* A page's contents are <<asid, page, version>>: whose page it is and the *)
(* number of writes it has seen.  A definition x_y is x with the bug y.    *)
(***************************************************************************)
EXTENDS Integers, SequencesExt

CONSTANTS
  Uproc,            \* U-procs, by ASID
  Test, NULL,
  Page,             \* indices of page table entries
  Touches,          \* <<asid, page>> pairs: the pages that the U-procs use
  DataPage,         \* page 1, valid from the start
  SWAP_POOL_SIZE,
  Ending, Trapping, \* U-procs that ask for SYS9, that raise program traps
  MaxVersion        \* bound on the writes to a page

Frame == 0 .. SWAP_POOL_SIZE - 1
NoFrame == -1       \* PFN 0, below the RAM

ASSUME PagingAssumption ==
  /\ IsFiniteSet(Uproc) /\ Test \notin Uproc /\ NULL \notin Uproc
  /\ SWAP_POOL_SIZE \in Nat \ {0} /\ MaxVersion \in Nat
  /\ Ending \subseteq Uproc /\ Trapping \subseteq Uproc
  /\ Touches \subseteq Uproc \X Page

VARIABLES
  swapPool, swapIndex,
  pageTable, tlb,       \* by U-proc and page; a TLB entry may be missing
  mem, flash,           \* contents of frames, of the U-procs' backing store
  version,              \* history: writes to each page
  sem, waiting,
  pc,
  page, frame, victim,  \* locals of pagerHandler
  k,                    \* local of supTerminate
  j                     \* local of test

sems   == <<sem, waiting>>
store  == <<mem, flash, version>>
locals == <<page, frame, victim>>
vars   == <<swapPool, swapIndex, pageTable, tlb, store, sems, pc, locals, k, j>>

Sem == {"swapPoolSem", "masterSemaphore"}

S == INSTANCE Semaphores WITH Process   <- Uproc \cup {Test},
                              client    <- Uproc \cup {Test},
                              Semaphore <- Sem

Unused == [asid |-> NULL, vpn |-> NULL, occupied |-> FALSE]

\* initSwapPool, initPageTable and initPhase3Resources.
Init ==
  /\ swapPool = [f \in Frame |-> Unused]
  /\ swapIndex = 0
  /\ pageTable = [p \in Uproc |-> [v \in Page |-> [valid |-> v = DataPage, frame |-> NoFrame]]]
  /\ tlb = [p \in Uproc |-> [v \in Page |-> NULL]]
  /\ mem = [f \in Frame |-> NULL]
  /\ flash = [p \in Uproc |-> [v \in Page |-> <<p, v, 0>>]]
  /\ version = [p \in Uproc |-> [v \in Page |-> 0]]
  /\ sem = [s \in Sem |-> IF s = "swapPoolSem" THEN 1 ELSE 0]
  /\ waiting = [s \in Sem |-> <<>>]
  /\ pc = [p \in Uproc \cup {Test} |-> IF p = Test THEN "test" ELSE "unborn"]
  /\ page = [p \in Uproc |-> NULL]
  /\ frame = page /\ victim = page
  /\ k = [p \in Uproc |-> 0]
  /\ j = 0

Halted         == pc[Test] = "halt"
At(p, label)   == ~Halted /\ pc[p] = label /\ S!Free(p)
Goto(p, label) == pc' = [pc EXCEPT ![p] = label]

-----------------------------------------------------------------------------
\* uTLB_RefillHandler copies the entry, valid or not.
uTLB_RefillHandler(p, v) ==
  /\ At(p, "user") /\ tlb[p][v] = NULL
  /\ tlb' = [tlb EXCEPT ![p][v] = pageTable[p][v]]
  /\ UNCHANGED <<swapPool, swapIndex, pageTable, store, sems, pc, locals, k, j>>

\* External: the U-proc stores to a page; every page is writable.
write(p, v) ==
  /\ At(p, "user") /\ version[p][v] < MaxVersion
  /\ tlb[p][v] # NULL /\ tlb[p][v].valid /\ tlb[p][v].frame \in Frame
  /\ version' = [version EXCEPT ![p][v] = @ + 1]
  /\ mem' = [mem EXCEPT ![tlb[p][v].frame] = <<p, v, version[p][v] + 1>>]
  /\ UNCHANGED <<swapPool, swapIndex, pageTable, tlb, flash, sems, pc, locals, k, j>>

\* A TLB-invalid exception is passed up to pagerHandler, which locks the pool.
pageFault(p, v) ==
  /\ At(p, "user") /\ tlb[p][v] # NULL /\ ~tlb[p][v].valid
  /\ S!P("swapPoolSem", p)
  /\ page' = [page EXCEPT ![p] = v]
  /\ Goto(p, "pick")
  /\ UNCHANGED <<swapPool, swapIndex, pageTable, tlb, store, frame, victim, k, j>>

\* getFreeFrame, else pickVictimFrame
pickFrame_noEvict(p) ==
  /\ At(p, "pick")
  /\ frame' = [frame EXCEPT ![p] = swapIndex]
  /\ swapIndex' = (swapIndex + 1) % SWAP_POOL_SIZE
  /\ Goto(p, "load")
  /\ UNCHANGED <<swapPool, pageTable, tlb, store, sems, page, victim, k, j>>

pickFrame_noModulo(p) ==
  LET unoccupied == {f \in Frame : ~swapPool[f].occupied} IN
  /\ At(p, "pick")
  /\ frame' = [frame EXCEPT ![p] = IF unoccupied # {} THEN Min(unoccupied) ELSE swapIndex]
  /\ swapIndex' = IF unoccupied # {} THEN swapIndex ELSE swapIndex + 1
  /\ Goto(p, IF unoccupied # {} THEN "load" ELSE "readVictim")
  /\ UNCHANGED <<swapPool, pageTable, tlb, store, sems, page, victim, k, j>>

pickFrame(p) ==
  LET unoccupied == {f \in Frame : ~swapPool[f].occupied} IN
  /\ At(p, "pick")
  /\ \/ /\ unoccupied # {}
        /\ frame' = [frame EXCEPT ![p] = Min(unoccupied)]
        /\ Goto(p, "load")
        /\ UNCHANGED swapIndex
     \/ /\ unoccupied = {}
        /\ frame' = [frame EXCEPT ![p] = swapIndex]
        /\ swapIndex' = (swapIndex + 1) % SWAP_POOL_SIZE
        /\ Goto(p, "readVictim")
  /\ UNCHANGED <<swapPool, pageTable, tlb, store, sems, page, victim, k, j>>

\* The owner of the frame may have freed it since: asidProcessTable[-1].
readVictim(p) ==
  /\ At(p, "readVictim")
  /\ LET entry == swapPool[frame[p]] IN
       /\ victim' = [victim EXCEPT ![p] = <<entry.asid, entry.vpn>>]
       /\ Goto(p, IF entry.asid = NULL THEN "wild" ELSE "evict")
  /\ UNCHANGED <<swapPool, swapIndex, pageTable, tlb, store, sems, page, frame, k, j>>

\* Interrupts off: the victim's page table entry and its TLB entry, if any.
evict_keepTlb(p) ==
  /\ At(p, "evict")
  /\ pageTable' = [pageTable EXCEPT ![victim[p][1]][victim[p][2]].valid = FALSE]
  /\ Goto(p, "writePage")
  /\ UNCHANGED <<swapPool, swapIndex, tlb, store, sems, locals, k, j>>

evict(p) ==
  /\ At(p, "evict")
  /\ LET owner == victim[p][1]
         v     == victim[p][2]
     IN
       /\ pageTable' = [pageTable EXCEPT ![owner][v].valid = FALSE]
       /\ tlb' = [tlb EXCEPT ![owner][v] = IF @ = NULL THEN @ ELSE pageTable'[owner][v]]
  /\ Goto(p, "writePage")
  /\ UNCHANGED <<swapPool, swapIndex, store, sems, locals, k, j>>

writePage_toOwnFlash(p) ==
  /\ At(p, "writePage")
  /\ flash' = [flash EXCEPT ![p][victim[p][2]] = mem[frame[p]]]
  /\ Goto(p, "load")
  /\ UNCHANGED <<swapPool, swapIndex, pageTable, tlb, mem, version, sems, locals, k, j>>

\* writePageToBackingStore, to the flash device of the victim
writePage(p) ==
  /\ At(p, "writePage")
  /\ flash' = [flash EXCEPT ![victim[p][1]][victim[p][2]] = mem[frame[p]]]
  /\ Goto(p, "load")
  /\ UNCHANGED <<swapPool, swapIndex, pageTable, tlb, mem, version, sems, locals, k, j>>

\* loadPageFromBackingStore
loadPage(p) ==
  /\ At(p, "load")
  /\ mem' = [mem EXCEPT ![frame[p]] = flash[p][page[p]]]
  /\ Goto(p, "enter")
  /\ UNCHANGED <<swapPool, swapIndex, pageTable, tlb, flash, version, sems, locals, k, j>>

enterFrame(p) ==
  /\ At(p, "enter")
  /\ swapPool' = [swapPool EXCEPT ![frame[p]] =
                    [asid |-> p, vpn |-> page[p], occupied |-> TRUE]]
  /\ Goto(p, "map")
  /\ UNCHANGED <<swapIndex, pageTable, tlb, store, sems, locals, k, j>>

\* Interrupts off: the page table entry, and TLBCLR.
mapPage(p) ==
  /\ At(p, "map")
  /\ pageTable' = [pageTable EXCEPT ![p][page[p]] = [valid |-> TRUE, frame |-> frame[p]]]
  /\ tlb' = [q \in Uproc |-> [v \in Page |-> NULL]]
  /\ Goto(p, "unlock")
  /\ UNCHANGED <<swapPool, swapIndex, store, sems, locals, k, j>>

unlockPool_keep(p) ==
  /\ At(p, "unlock")
  /\ page' = [page EXCEPT ![p] = NULL]
  /\ frame' = [frame EXCEPT ![p] = NULL]
  /\ victim' = [victim EXCEPT ![p] = NULL]
  /\ Goto(p, "user")
  /\ UNCHANGED <<swapPool, swapIndex, pageTable, tlb, store, sems, k, j>>

\* Back to the U-proc; its dead locals are reset.
unlockPool(p) ==
  /\ At(p, "unlock")
  /\ S!V("swapPoolSem")
  /\ page' = [page EXCEPT ![p] = NULL]
  /\ frame' = [frame EXCEPT ![p] = NULL]
  /\ victim' = [victim EXCEPT ![p] = NULL]
  /\ Goto(p, "user")
  /\ UNCHANGED <<swapPool, swapIndex, pageTable, tlb, store, k, j>>

-----------------------------------------------------------------------------
\* SYS9: supTerminate looks for the U-proc's frames without locking the pool.
supTerminate(p) ==
  /\ p \in Ending /\ At(p, "user")
  /\ Goto(p, "sweep")
  /\ UNCHANGED <<swapPool, swapIndex, pageTable, tlb, store, sems, locals, k, j>>

\* "release mutual exclusion if held": the V is unconditional.
supportProgTrapHandler(p) ==
  /\ p \in Trapping /\ At(p, "user")
  /\ S!V("swapPoolSem")
  /\ Goto(p, "sweep")
  /\ UNCHANGED <<swapPool, swapIndex, pageTable, tlb, store, locals, k, j>>

checkFrame(p) ==
  /\ At(p, "sweep") /\ k[p] < SWAP_POOL_SIZE
  /\ \/ /\ swapPool[k[p]].occupied /\ swapPool[k[p]].asid = p
        /\ Goto(p, "free")
        /\ UNCHANGED k
     \/ /\ ~(swapPool[k[p]].occupied /\ swapPool[k[p]].asid = p)
        /\ k' = [k EXCEPT ![p] = @ + 1]
        /\ UNCHANGED pc
  /\ UNCHANGED <<swapPool, swapIndex, pageTable, tlb, store, sems, locals, j>>

freeFrame(p) ==
  /\ At(p, "free")
  /\ swapPool' = [swapPool EXCEPT ![k[p]] = Unused]
  /\ k' = [k EXCEPT ![p] = @ + 1]
  /\ Goto(p, "sweep")
  /\ UNCHANGED <<swapIndex, pageTable, tlb, store, sems, locals, j>>

signalMaster_none(p) ==
  /\ At(p, "sweep") /\ k[p] = SWAP_POOL_SIZE
  /\ Goto(p, "exit")
  /\ UNCHANGED <<swapPool, swapIndex, pageTable, tlb, store, sems, locals, k, j>>

signalMaster(p) ==
  /\ At(p, "sweep") /\ k[p] = SWAP_POOL_SIZE
  /\ S!V("masterSemaphore")
  /\ Goto(p, "exit")
  /\ UNCHANGED <<swapPool, swapIndex, pageTable, tlb, store, locals, k, j>>

\* freeSupportStruct and SYS2; the structure is never allocated again.
exit(p) ==
  /\ At(p, "exit")
  /\ Goto(p, "ended")
  /\ UNCHANGED <<swapPool, swapIndex, pageTable, tlb, store, sems, locals, k, j>>

-----------------------------------------------------------------------------
\* test(): the U-procs are created, then waited for one by one.
createUproc(p) ==
  /\ At(Test, "test") /\ pc[p] = "unborn"
  /\ pc' = [pc EXCEPT ![p] = "user",
                      ![Test] = IF \A q \in Uproc \ {p} : pc[q] # "unborn"
                                THEN "wait" ELSE @]
  /\ UNCHANGED <<swapPool, swapIndex, pageTable, tlb, store, sems, locals, k, j>>

waitUproc_oneLess ==
  /\ At(Test, "wait") /\ j < Cardinality(Uproc) - 1
  /\ S!P("masterSemaphore", Test)
  /\ j' = j + 1
  /\ Goto(Test, IF j + 2 = Cardinality(Uproc) THEN "end" ELSE "wait")
  /\ UNCHANGED <<swapPool, swapIndex, pageTable, tlb, store, locals, k>>

waitUproc ==
  /\ At(Test, "wait")
  /\ S!P("masterSemaphore", Test)
  /\ j' = j + 1
  /\ Goto(Test, IF j + 1 = Cardinality(Uproc) THEN "end" ELSE "wait")
  /\ UNCHANGED <<swapPool, swapIndex, pageTable, tlb, store, locals, k>>

\* SYS2 of test() terminates its children too, and the machine halts.
endTest ==
  /\ At(Test, "end")
  /\ Goto(Test, "halt")
  /\ UNCHANGED <<swapPool, swapIndex, pageTable, tlb, store, sems, locals, k, j>>

-----------------------------------------------------------------------------
Lost == \E p \in Uproc : pc[p] = "wild"

pagerHandler(p) ==
  pickFrame(p) \/ readVictim(p) \/ evict(p) \/ writePage(p) \/ loadPage(p)
    \/ enterFrame(p) \/ mapPage(p) \/ unlockPool(p)

terminate(p) == checkFrame(p) \/ freeFrame(p) \/ signalMaster(p) \/ exit(p)

Stopped == (Halted \/ Lost) /\ UNCHANGED vars

Next ==
  \/ waitUproc \/ endTest \/ Stopped
  \/ \E p \in Uproc :
       \/ createUproc(p) \/ pagerHandler(p)
       \/ supTerminate(p) \/ supportProgTrapHandler(p) \/ terminate(p)
       \/ \E v \in {v \in Page : <<p, v>> \in Touches} :
            uTLB_RefillHandler(p, v) \/ write(p, v) \/ pageFault(p, v)

Spec == Init /\ [][Next]_vars

\* Every ready process gets the processor (ReadyRuns of Nucleus) and devices
\* answer; a U-proc need not do anything.
Fairness ==
  /\ WF_vars(waitUproc \/ endTest)
  /\ \A p \in Uproc : WF_vars(pagerHandler(p) \/ terminate(p))

FairSpec == Spec /\ Fairness

-----------------------------------------------------------------------------
\* Types of the pool, the tables and the store.
TypeOK ==
  /\ swapPool \in [Frame -> [asid : Uproc \cup {NULL}, vpn : Page \cup {NULL}, occupied : BOOLEAN]]
  /\ swapIndex \in Frame
  /\ pageTable \in [Uproc -> [Page -> [valid : BOOLEAN, frame : Frame \cup {NoFrame}]]]
  /\ frame \in [Uproc -> Frame \cup {NULL}]
  /\ j \in 0 .. Cardinality(Uproc) /\ k \in [Uproc -> 0 .. SWAP_POOL_SIZE]

Running(p) == pc[p] \notin {"sweep", "free", "exit", "ended"}

\* A valid page table entry of a running U-proc leads to a frame that the swap
\* pool records as that page and that holds its latest contents.
Isolated(p) ==
  \A v \in Page \ {DataPage} : pageTable[p][v].valid =>
    LET f == pageTable[p][v].frame IN
    /\ swapPool[f] = [asid |-> p, vpn |-> v, occupied |-> TRUE]
    /\ mem[f] = <<p, v, version[p][v]>>

\* Until the first U-proc ends no pager takes a frame that is in use, whatever
\* the interleaving of faults, evictions and writes, and none evicts a page of
\* nobody.
PageIsolation ==
  (\A p \in Uproc : Running(p)) => ~Lost /\ \A p \in Uproc : Isolated(p)

\* The same whoever else ends (vmSupport.c:11 claims mutual exclusion over the
\* pool): false, supTerminate frees frames without the lock.
IsolationKept == ~Lost /\ \A p \in Uproc : Running(p) => Isolated(p)

\* A page that is not resident can be had again: its latest contents are in
\* its backing store or on their way there.
NoLostPage ==
  (\A p \in Uproc : Running(p)) =>
    \A p \in Uproc, v \in Page \ {DataPage} :
      \/ pageTable[p][v].valid
      \/ flash[p][v] = <<p, v, version[p][v]>>
      \/ \E q \in Uproc : /\ pc[q] = "writePage" /\ victim[q] = <<p, v>>
                          /\ mem[frame[q]] = <<p, v, version[p][v]>>

\* No U-proc uses a translation that its page table has lost.
TlbCoherent ==
  \A p \in Uproc, v \in Page : tlb[p][v] # NULL => tlb[p][v] = pageTable[p][v]

\* test() halts the machine only when every U-proc is done with its frames.
NoEarlyHalt ==
  Halted => \A p \in Uproc : pc[p] \in {"exit", "ended"}

\* One pager at a time works on the pool (the P and V around it): false once
\* a program trap has released the lock it did not hold.
PagerExclusive ==
  Cardinality({p \in Uproc : At(p, "pick") \/ pc[p] \in
    {"readVictim", "evict", "writePage", "load", "enter", "map", "unlock"}}) <= 1

\* A page fault is served.
Served == \A p \in Uproc : pc[p] = "pick" ~> (pc[p] = "user" \/ Lost)

\* When all the U-procs have ended the machine halts.
Halts == (\A p \in Uproc : pc[p] = "ended") ~> Halted
=============================================================================
