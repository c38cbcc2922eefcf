----------------------------- MODULE PagingProofs -----------------------------
(***************************************************************************)
(* The swap pool of Paging, for any number of U-procs, pages and frames:   *)
(* until a U-proc ends, the lock is held by one pager at a time, a frame   *)
(* belongs to one page, and no page is lost on its way to its backing      *)
(* store and back.                                                         *)
(***************************************************************************)
EXTENDS Paging, SequenceTheorems, FiniteSetTheorems, NaturalsInduction, WellFoundedInduction, TLAPS

Contents == Uproc \X Page \X Nat

\* The steps of the pager, from its P to its V, and those at which it has a frame.
Working == {"pick", "readVictim", "evict", "writePage", "load", "enter", "map", "unlock"}
Framed  == Working \ {"pick", "unlock"}

\* A frame at these steps is of no page: its old one is out, its new one not in.
Detached == {"writePage", "load", "enter", "map"}

Label == Working \cup {"unborn", "user", "wild", "sweep", "free", "exit", "ended",
                       "test", "wait", "end", "halt"}

\* The types of the tables, and what is known of the locals at each step.
TableTypes ==
  /\ swapPool \in [Frame -> [asid : Uproc \cup {NULL}, vpn : Page \cup {NULL}, occupied : BOOLEAN]]
  /\ \A f \in Frame : swapPool[f] = Unused
       \/ \E p \in Uproc, v \in Page : swapPool[f] = [asid |-> p, vpn |-> v, occupied |-> TRUE]
  /\ swapIndex \in Frame
  /\ pageTable \in [Uproc -> [Page -> [valid : BOOLEAN, frame : Frame \cup {NoFrame}]]]
  /\ tlb \in [Uproc -> [Page -> {NULL} \cup [valid : BOOLEAN, frame : Frame \cup {NoFrame}]]]

StoreTypes ==
  /\ mem \in [Frame -> Contents \cup {NULL}]
  /\ flash \in [Uproc -> [Page -> Contents \cup {NULL}]]
  /\ version \in [Uproc -> [Page -> Nat]]

LocalTypes ==
  /\ sem \in [Sem -> Int] /\ waiting \in [Sem -> Seq(Uproc \cup {Test})]
  /\ pc \in [Uproc \cup {Test} -> Label]
  /\ page \in [Uproc -> Page \cup {NULL}] /\ frame \in [Uproc -> Frame \cup {NULL}]
  /\ victim \in [Uproc -> ((Uproc \cup {NULL}) \X (Page \cup {NULL})) \cup {NULL}]
  /\ k \in [Uproc -> 0 .. SWAP_POOL_SIZE] /\ j \in 0 .. Cardinality(Uproc)

StepTypes ==
  /\ \A p \in Uproc :
       /\ pc[p] \in Working \ {"unlock"} => page[p] \in Page
       /\ pc[p] \in Framed => frame[p] \in Frame
       /\ pc[p] \in {"evict", "writePage"} => victim[p] \in Uproc \X Page
       /\ pc[p] = "free" => k[p] < SWAP_POOL_SIZE
  /\ pc[Test] = "test" => j = 0
  /\ pc[Test] = "wait" => j < Cardinality(Uproc)

Types == TableTypes /\ StoreTypes /\ LocalTypes /\ StepTypes

\* The pool is locked by one pager, and those behind it wait in the order of the
\* semaphore.
Lock ==
  LET w == waiting["swapPoolSem"] IN
  /\ IsInjective(w) /\ \A p \in Uproc : p \in Range(w) => pc[p] = "pick"
  /\ Test \notin Range(w)
  /\ \/ sem["swapPoolSem"] = 1 /\ w = <<>> /\ \A p \in Uproc : pc[p] \notin Working
     \/ /\ sem["swapPoolSem"] = 0 - Len(w)
        /\ \E h \in Uproc : /\ pc[h] \in Working /\ h \notin Range(w)
                            /\ \A p \in Uproc : pc[p] \in Working => p = h \/ p \in Range(w)

\* The contents of a page, and the frame it is in.
Latest(p, v)    == <<p, v, version[p][v]>>
Entry(p, v)     == [asid |-> p, vpn |-> v, occupied |-> TRUE]
Mapped(p, v, f) == pageTable[p][v] = [valid |-> TRUE, frame |-> f]
Handled(f)      == \E h \in Uproc : pc[h] \in Detached /\ frame[h] = f

\* Frames and page tables agree both ways, but for the frame a pager works on.
DataOwned == \A p \in Uproc, v \in Page :
  v = DataPage => pageTable[p][v] = [valid |-> TRUE, frame |-> NoFrame]

PagesOwned == \A p \in Uproc, v \in Page \ {DataPage} : pageTable[p][v].valid =>
  LET f == pageTable[p][v].frame IN
  f \in Frame /\ swapPool[f] = Entry(p, v) /\ mem[f] = Latest(p, v) /\ ~Handled(f)

FramesOwned == \A f \in Frame, p \in Uproc, v \in Page :
  swapPool[f] = Entry(p, v) => v # DataPage /\ (Handled(f) \/ Mapped(p, v, f))

Owned == DataOwned /\ PagesOwned /\ FramesOwned

\* What the pager has done so far.
Done(p) ==
  /\ pc[p] \in Working \ {"unlock"} => page[p] # DataPage /\ ~pageTable[p][page[p]].valid
  /\ pc[p] \in {"readVictim", "evict", "writePage"} => swapPool[frame[p]].occupied
  /\ pc[p] \in {"evict", "writePage"} =>
       swapPool[frame[p]] = Entry(victim[p][1], victim[p][2]) /\ victim[p] = <<victim[p][1], victim[p][2]>>
  /\ pc[p] = "writePage" =>
       /\ mem[frame[p]] = Latest(victim[p][1], victim[p][2])
       /\ ~pageTable[victim[p][1]][victim[p][2]].valid
  /\ pc[p] \in {"enter", "map"} => mem[frame[p]] = Latest(p, page[p])
  /\ pc[p] = "map" => swapPool[frame[p]] = Entry(p, page[p])
  /\ pc[p] # "wild"

Progress == \A p \in Uproc : Done(p)

Stored ==
  \A p \in Uproc, v \in Page \ {DataPage} :
    \/ pageTable[p][v].valid
    \/ flash[p][v] = Latest(p, v)
    \/ \E q \in Uproc : pc[q] = "writePage" /\ victim[q] = <<p, v>> /\ mem[frame[q]] = Latest(p, v)

AllRun == \A p \in Uproc : Running(p)
Pool    == Lock /\ Owned /\ Progress /\ Stored
PoolInv == AllRun => Pool
PInv    == Types /\ TlbCoherent /\ PoolInv

-----------------------------------------------------------------------------
LEMMA TypesTypeOK == Types => TypeOK
  BY DEF Types, TypeOK, TableTypes, LocalTypes

LEMMA NestedUpdate ==
  ASSUME NEW A, NEW B, NEW R, NEW f \in [A -> [B -> R]], NEW a \in A, NEW b \in B, NEW r \in R
  PROVE  [f EXCEPT ![a][b] = r] \in [A -> [B -> R]]
  OBVIOUS

LEMMA SemTypes ==
  ASSUME sem \in [Sem -> Int], waiting \in [Sem -> Seq(Uproc \cup {Test})],
         NEW s \in Sem, NEW p \in Uproc \cup {Test}, S!P(s, p) \/ S!V(s)
  PROVE  sem' \in [Sem -> Int] /\ waiting' \in [Sem -> Seq(Uproc \cup {Test})]
<1>1. \A q \in Seq(Uproc \cup {Test}) :
        /\ Append(q, p) \in Seq(Uproc \cup {Test})
        /\ q # <<>> => Tail(q) \in Seq(Uproc \cup {Test})
  OBVIOUS
<1>2. CASE S!P(s, p)
  <2>1. sem' = [sem EXCEPT ![s] = sem[s] - 1]
        /\ waiting' = [waiting EXCEPT ![s] = IF sem[s] > 0 THEN waiting[s] ELSE Append(waiting[s], p)]
    BY <1>2 DEF S!P
  <2> QED BY <1>1, <2>1
<1>3. CASE S!V(s)
  <2>1. sem' = [sem EXCEPT ![s] = sem[s] + 1]
        /\ waiting' = [waiting EXCEPT ![s] = IF waiting[s] = <<>> THEN waiting[s] ELSE Tail(waiting[s])]
    BY <1>3 DEF S!V
  <2> QED BY <1>1, <2>1
<1> QED BY <1>2, <1>3

LEMMA SemNames == "swapPoolSem" \in Sem /\ "masterSemaphore" \in Sem
  BY DEF Sem

\* A step of a U-proc's code that moves its program counter and nothing else of
\* what LocalTypes says, but for the semaphores.
LEMMA PcMoves ==
  ASSUME LocalTypes, NEW p \in Uproc \cup {Test}, NEW l \in Label, Goto(p, l)
  PROVE  /\ pc' \in [Uproc \cup {Test} -> Label] /\ pc'[p] = l
         /\ \A q \in Uproc \cup {Test} : q # p => pc'[q] = pc[q]
  BY DEF LocalTypes, Goto

\* getFreeFrame finds a frame.
LEMMA LeastFrame ==
  ASSUME NEW T \in SUBSET Frame, T # {}
  PROVE  Min(T) \in T
<1>1. T \subseteq Nat
  BY DEF Frame
<1>2. PICK f \in T : \A g \in T : ~ <<g, f>> \in OpToRel(<, Nat)
  BY <1>1, NatLessThanWellFounded, WFMin, Zenon
<1>3. \A g \in T : ~(g < f)
  BY <1>1, <1>2 DEF OpToRel
<1>4. \A g \in T : f <= g
  BY <1>1, <1>3
<1> QED BY <1>4 DEF Min

\* A step that changes no local.
LEMMA OnlyPcMoves ==
  ASSUME Types, NEW p \in Uproc, NEW l \in Label, Goto(p, l), UNCHANGED <<sems, locals, k, j>>,
         /\ l \in Working \ {"unlock"} => page[p] \in Page
         /\ l \in Framed => frame[p] \in Frame
         /\ l \in {"evict", "writePage"} => victim[p] \in Uproc \X Page
         /\ l = "free" => k[p] < SWAP_POOL_SIZE
  PROVE  LocalTypes' /\ StepTypes'
<1>1. /\ pc' \in [Uproc \cup {Test} -> Label] /\ pc'[p] = l
      /\ \A q \in Uproc \cup {Test} : q # p => pc'[q] = pc[q]
  BY PcMoves DEF Types
<1>0. p # Test
  BY PagingAssumption
<1>2. LocalTypes'
  BY <1>1 DEF Types, LocalTypes, sems, locals
<1>3. StepTypes'
  BY <1>0, <1>1 DEF Types, StepTypes, sems, locals
<1> QED BY <1>2, <1>3

LEMMA UserTypes ==
  ASSUME Types, NEW p \in Uproc, NEW v \in Page,
         uTLB_RefillHandler(p, v) \/ write(p, v) \/ pageFault(p, v)
  PROVE  Types'
<1> USE DEF Types
<1>1. CASE uTLB_RefillHandler(p, v)
  <2>1. pageTable[p][v] \in [valid : BOOLEAN, frame : Frame \cup {NoFrame}]
    BY DEF TableTypes
  <2>2. tlb' = [tlb EXCEPT ![p] = [tlb[p] EXCEPT ![v] = pageTable[p][v]]]
    BY <1>1 DEF uTLB_RefillHandler
  <2>3. TableTypes'
    BY <1>1, <2>1, <2>2 DEF uTLB_RefillHandler, TableTypes
  <2> QED BY <1>1, <2>3 DEF uTLB_RefillHandler, StoreTypes, LocalTypes, StepTypes, store, sems, locals
<1>2. CASE write(p, v)
  <2>1. version[p][v] + 1 \in Nat /\ <<p, v, version[p][v] + 1>> \in Contents
    BY DEF StoreTypes, Contents
  <2>2. version' = [version EXCEPT ![p] = [version[p] EXCEPT ![v] = version[p][v] + 1]]
        /\ mem' = [mem EXCEPT ![tlb[p][v].frame] = <<p, v, version[p][v] + 1>>] /\ flash' = flash
    BY <1>2 DEF write
  <2>3. mem' \in [Frame -> Contents \cup {NULL}] /\ flash' \in [Uproc -> [Page -> Contents \cup {NULL}]]
    BY <2>1, <2>2 DEF StoreTypes
  <2>4. version' \in [Uproc -> [Page -> Nat]]
    <3>1. [version[p] EXCEPT ![v] = version[p][v] + 1] \in [Page -> Nat]
      BY <2>1 DEF StoreTypes
    <3> QED BY <2>2, <3>1 DEF StoreTypes
  <2> QED BY <1>2, <2>3, <2>4 DEF write, StoreTypes, TableTypes, LocalTypes, StepTypes, sems, locals
<1>3. CASE pageFault(p, v)
  <2>1. sem' \in [Sem -> Int] /\ waiting' \in [Sem -> Seq(Uproc \cup {Test})]
    BY <1>3, SemTypes, SemNames DEF pageFault, LocalTypes
  <2>2. page' = [page EXCEPT ![p] = v]
        /\ UNCHANGED <<swapPool, swapIndex, pageTable, tlb, store, frame, victim, k, j>>
    BY <1>3 DEF pageFault
  <2>3. /\ pc' \in [Uproc \cup {Test} -> Label] /\ pc'[p] = "pick"
        /\ \A q \in Uproc \cup {Test} : q # p => pc'[q] = pc[q]
    <3>1. Goto(p, "pick") /\ "pick" \in Label
      BY <1>3 DEF pageFault, Label, Working
    <3> QED BY <3>1, PcMoves
  <2>4. LocalTypes'
    BY <2>1, <2>2, <2>3 DEF LocalTypes
  <2>5. StepTypes'
    BY <2>2, <2>3, PagingAssumption DEF StepTypes, LocalTypes, Working, Framed
  <2> QED BY <2>2, <2>4, <2>5 DEF TableTypes, StoreTypes, store
<1> QED BY <1>1, <1>2, <1>3

LEMMA PagerTypes ==
  ASSUME Types, NEW p \in Uproc, pagerHandler(p)
  PROVE  Types'
<1> USE DEF Types
<1>0. /\ pc[p] \in Working \ {"unlock"} => page[p] \in Page
      /\ pc[p] \in Framed => frame[p] \in Frame
      /\ pc[p] \in {"evict", "writePage"} => victim[p] \in Uproc \X Page
      /\ p # Test
  BY PagingAssumption DEF StepTypes
<1>1. CASE pickFrame(p)
  <2> DEFINE unoccupied == {f \in Frame : ~swapPool[f].occupied}
  <2>1. /\ pc[p] = "pick" /\ frame'[p] \in Frame /\ swapIndex' \in Frame
        /\ frame' \in [Uproc -> Frame \cup {NULL}]
        /\ \A q \in Uproc : q # p => frame'[q] = frame[q]
        /\ \E l \in {"load", "readVictim"} : Goto(p, l)
        /\ UNCHANGED <<swapPool, pageTable, tlb, store, sems, page, victim, k, j>>
    <3>1. CASE unoccupied # {} /\ frame' = [frame EXCEPT ![p] = Min(unoccupied)] /\ UNCHANGED swapIndex
      <4>1. Min(unoccupied) \in Frame
        BY <3>1, LeastFrame
      <4> QED BY <1>1, <3>1, <4>1 DEF pickFrame, At, TableTypes, LocalTypes
    <3>2. CASE /\ frame' = [frame EXCEPT ![p] = swapIndex]
               /\ swapIndex' = (swapIndex + 1) % SWAP_POOL_SIZE
      <4>1. swapIndex \in Frame /\ (swapIndex + 1) % SWAP_POOL_SIZE \in Frame
        BY PagingAssumption DEF TableTypes, Frame
      <4> QED BY <1>1, <3>2, <4>1 DEF pickFrame, At, TableTypes, LocalTypes
    <3> QED BY <1>1, <3>1, <3>2 DEF pickFrame
  <2>2. PICK l \in {"load", "readVictim"} : Goto(p, l) /\ l \in Label
    BY <2>1 DEF Label, Working
  <2>3. /\ pc' \in [Uproc \cup {Test} -> Label] /\ pc'[p] = l
        /\ \A q \in Uproc \cup {Test} : q # p => pc'[q] = pc[q]
    BY <2>2, PcMoves
  <2>4. LocalTypes' /\ TableTypes' /\ StoreTypes'
    BY <2>1, <2>3 DEF LocalTypes, TableTypes, StoreTypes, store, sems
  <2>5. StepTypes'
    BY <1>0, <2>1, <2>3 DEF StepTypes, Working, Framed
  <2> QED BY <2>4, <2>5
<1>2. CASE readVictim(p)
  <2>1. /\ pc[p] = "readVictim" /\ UNCHANGED <<swapPool, swapIndex, pageTable, tlb, store, sems, page, frame, k, j>>
        /\ victim' = [victim EXCEPT ![p] = <<swapPool[frame[p]].asid, swapPool[frame[p]].vpn>>]
    BY <1>2 DEF readVictim, At
  <2>2. /\ frame[p] \in Frame /\ swapPool[frame[p]].asid \in Uproc \cup {NULL}
        /\ swapPool[frame[p]].vpn \in Page \cup {NULL}
        /\ swapPool[frame[p]].asid # NULL => swapPool[frame[p]].vpn \in Page
    BY <1>0, <2>1 DEF TableTypes, Framed, Working, Unused
  <2>3. PICK l \in {"wild", "evict"} : l \in Label /\ Goto(p, l) /\ (l = "evict" => swapPool[frame[p]].asid # NULL)
    <3>1. Goto(p, IF swapPool[frame[p]].asid = NULL THEN "wild" ELSE "evict")
      BY <1>2 DEF readVictim
    <3>2. "wild" \in Label /\ "evict" \in Label
      BY DEF Label, Working
    <3> QED BY <3>1, <3>2
  <2>4. /\ pc' \in [Uproc \cup {Test} -> Label] /\ pc'[p] = l
        /\ \A q \in Uproc \cup {Test} : q # p => pc'[q] = pc[q]
    BY <2>3, PcMoves
  <2> DEFINE w == <<swapPool[frame[p]].asid, swapPool[frame[p]].vpn>>
             W == (Uproc \cup {NULL}) \X (Page \cup {NULL})
  <2>5. victim' \in [Uproc -> W \cup {NULL}] /\ victim'[p] = w /\ \A q \in Uproc : q # p => victim'[q] = victim[q]
    <3>1. w \in W
      BY <2>2
    <3>2. victim' = [victim EXCEPT ![p] = w] /\ victim \in [Uproc -> W \cup {NULL}]
      BY <2>1 DEF LocalTypes
    <3> HIDE DEF w, W
    <3> QED BY <3>1, <3>2
  <2>8. LocalTypes' /\ TableTypes' /\ StoreTypes'
    BY <2>1, <2>4, <2>5 DEF LocalTypes, TableTypes, StoreTypes, store, sems
  <2>6. l = "evict" => victim'[p] \in Uproc \X Page
    BY <2>2, <2>3, <2>5
  <2>7. StepTypes'
    BY <1>0, <2>1, <2>3, <2>4, <2>5, <2>6 DEF StepTypes, Working, Framed
  <2> QED BY <2>7, <2>8
<1>3. CASE evict(p)
  <2> DEFINE o == victim[p][1]
             v == victim[p][2]
  <2>1. /\ pc[p] = "evict" /\ Goto(p, "writePage") /\ "writePage" \in Label
        /\ UNCHANGED <<swapPool, swapIndex, store, sems, locals, k, j>>
        /\ pageTable' = [pageTable EXCEPT ![o][v].valid = FALSE]
        /\ tlb' = [tlb EXCEPT ![o][v] = IF @ = NULL THEN @ ELSE pageTable'[o][v]]
    BY <1>3 DEF evict, At, Label, Working
  <2>2. o \in Uproc /\ v \in Page
    BY <1>0, <2>1
  <2>3. LocalTypes' /\ StepTypes'
    BY <1>0, <2>1, OnlyPcMoves DEF Working, Framed
  <2>4. pageTable' \in [Uproc -> [Page -> [valid : BOOLEAN, frame : Frame \cup {NoFrame}]]]
    <3> DEFINE R == [valid : BOOLEAN, frame : Frame \cup {NoFrame}]
             r == pageTable[o][v]
    <3>1. pageTable \in [Uproc -> [Page -> R]]
      BY DEF TableTypes
    <3>2. r \in R
      BY <2>2, <3>1
    <3>3. [r EXCEPT !.valid = FALSE] \in R
      <4> HIDE DEF r
      <4> QED BY <3>2
    <3>4. pageTable' = [pageTable EXCEPT ![o][v] = [r EXCEPT !.valid = FALSE]]
      BY <2>1
    <3>5. pageTable' \in [Uproc -> [Page -> R]]
      <4> HIDE DEF R, r, o, v
      <4> QED BY <2>2, <3>1, <3>3, <3>4, NestedUpdate
    <3> QED BY <3>5
  <2>5. tlb' \in [Uproc -> [Page -> {NULL} \cup [valid : BOOLEAN, frame : Frame \cup {NoFrame}]]]
    <3> DEFINE R == {NULL} \cup [valid : BOOLEAN, frame : Frame \cup {NoFrame}]
               r == IF tlb[o][v] = NULL THEN tlb[o][v] ELSE pageTable'[o][v]
    <3>1. tlb \in [Uproc -> [Page -> R]]
      BY DEF TableTypes
    <3>2. pageTable'[o][v] \in R
      BY <2>2, <2>4
    <3>3. r \in R
      BY <2>2, <3>1, <3>2
    <3>4. tlb' = [tlb EXCEPT ![o][v] = r]
      BY <2>1
    <3>5. tlb' \in [Uproc -> [Page -> R]]
      <4> HIDE DEF R, r, o, v
      <4> QED BY <2>2, <3>1, <3>3, <3>4, NestedUpdate
    <3> QED BY <3>5
  <2>6. TableTypes'
    <3>1. UNCHANGED <<swapPool, swapIndex>>
      BY <2>1
    <3> QED BY <2>4, <2>5, <3>1 DEF TableTypes
  <2> QED BY <2>1, <2>3, <2>6 DEF StoreTypes, store
<1>4. CASE writePage(p)
  <2>1. /\ pc[p] = "writePage" /\ Goto(p, "load") /\ "load" \in Label
        /\ UNCHANGED <<swapPool, swapIndex, pageTable, tlb, mem, version, sems, locals, k, j>>
        /\ flash' = [flash EXCEPT ![victim[p][1]][victim[p][2]] = mem[frame[p]]]
    BY <1>4 DEF writePage, At, Label, Working
  <2>2. LocalTypes' /\ StepTypes'
    BY <1>0, <2>1, OnlyPcMoves DEF Working, Framed
  <2>3. StoreTypes'
    <3>1. mem[frame[p]] \in Contents \cup {NULL} /\ victim[p][1] \in Uproc /\ victim[p][2] \in Page
      BY <1>0, <2>1 DEF StoreTypes, Framed, Working
    <3> QED BY <2>1, <3>1 DEF StoreTypes
  <2> QED BY <2>1, <2>2, <2>3 DEF TableTypes
<1>5. CASE loadPage(p)
  <2>1. /\ pc[p] = "load" /\ Goto(p, "enter") /\ "enter" \in Label
        /\ UNCHANGED <<swapPool, swapIndex, pageTable, tlb, flash, version, sems, locals, k, j>>
        /\ mem' = [mem EXCEPT ![frame[p]] = flash[p][page[p]]]
    BY <1>5 DEF loadPage, At, Label, Working
  <2>2. LocalTypes' /\ StepTypes'
    BY <1>0, <2>1, OnlyPcMoves DEF Working, Framed
  <2>3. StoreTypes'
    <3>1. flash[p][page[p]] \in Contents \cup {NULL}
      BY <1>0, <2>1 DEF StoreTypes, Working
    <3> QED BY <2>1, <3>1 DEF StoreTypes
  <2> QED BY <2>1, <2>2, <2>3 DEF TableTypes
<1>6. CASE enterFrame(p)
  <2>1. /\ pc[p] = "enter" /\ Goto(p, "map") /\ "map" \in Label
        /\ UNCHANGED <<swapIndex, pageTable, tlb, store, sems, locals, k, j>>
        /\ swapPool' = [swapPool EXCEPT ![frame[p]] = [asid |-> p, vpn |-> page[p], occupied |-> TRUE]]
    BY <1>6 DEF enterFrame, At, Label, Working
  <2>2. LocalTypes' /\ StepTypes'
    BY <1>0, <2>1, OnlyPcMoves DEF Working, Framed
  <2>3. page[p] \in Page
    BY <1>0, <2>1 DEF Working
  <2>4. TableTypes'
    BY <2>1, <2>3 DEF TableTypes
  <2> QED BY <2>1, <2>2, <2>4 DEF StoreTypes, store
<1>7. CASE mapPage(p)
  <2>1. /\ pc[p] = "map" /\ Goto(p, "unlock") /\ "unlock" \in Label
        /\ UNCHANGED <<swapPool, swapIndex, store, sems, locals, k, j>>
        /\ pageTable' = [pageTable EXCEPT ![p][page[p]] = [valid |-> TRUE, frame |-> frame[p]]]
        /\ tlb' = [q \in Uproc |-> [v \in Page |-> NULL]]
    BY <1>7 DEF mapPage, At, Label, Working
  <2>2. LocalTypes' /\ StepTypes'
    BY <1>0, <2>1, OnlyPcMoves DEF Working, Framed
  <2>3. page[p] \in Page /\ frame[p] \in Frame
    BY <1>0, <2>1 DEF Working, Framed
  <2>4. TableTypes'
    BY <2>1, <2>3 DEF TableTypes
  <2> QED BY <2>1, <2>2, <2>4 DEF StoreTypes, store
<1>8. CASE unlockPool(p)
  <2>1. /\ Goto(p, "user") /\ "user" \in Label /\ S!V("swapPoolSem")
        /\ page' = [page EXCEPT ![p] = NULL]
        /\ frame' = [frame EXCEPT ![p] = NULL]
        /\ victim' = [victim EXCEPT ![p] = NULL]
        /\ UNCHANGED <<swapPool, swapIndex, pageTable, tlb, store, k, j>>
    BY <1>8 DEF unlockPool, Label
  <2>2. sem' \in [Sem -> Int] /\ waiting' \in [Sem -> Seq(Uproc \cup {Test})]
    BY <2>1, SemTypes, SemNames DEF LocalTypes
  <2>3. /\ pc' \in [Uproc \cup {Test} -> Label] /\ pc'[p] = "user"
        /\ \A q \in Uproc \cup {Test} : q # p => pc'[q] = pc[q]
    BY <2>1, PcMoves
  <2>4. victim' \in [Uproc -> ((Uproc \cup {NULL}) \X (Page \cup {NULL})) \cup {NULL}]
    <3> DEFINE W == (Uproc \cup {NULL}) \X (Page \cup {NULL})
    <3>1. victim \in [Uproc -> W \cup {NULL}]
      BY DEF LocalTypes
    <3>2. victim' = [victim EXCEPT ![p] = NULL]
      BY <2>1
    <3>3. victim' \in [Uproc -> W \cup {NULL}]
      <4> HIDE DEF W
      <4> QED BY <3>1, <3>2
    <3> QED BY <3>3
  <2>5. LocalTypes'
    BY <2>1, <2>2, <2>3, <2>4 DEF LocalTypes
  <2>6. StepTypes'
    BY <1>0, <2>1, <2>3 DEF StepTypes, LocalTypes, Working, Framed
  <2> QED BY <2>1, <2>5, <2>6 DEF TableTypes, StoreTypes, store
<1> QED BY <1>1, <1>2, <1>3, <1>4, <1>5, <1>6, <1>7, <1>8 DEF pagerHandler

LEMMA EndingTypes ==
  ASSUME Types, NEW p \in Uproc,
         supTerminate(p) \/ supportProgTrapHandler(p) \/ terminate(p)
  PROVE  Types'
<1> USE DEF Types
<1>1. "sweep" \in Label /\ "free" \in Label /\ "exit" \in Label /\ "ended" \in Label
  BY DEF Label
<1>2. ASSUME S!V("swapPoolSem") \/ S!V("masterSemaphore"), NEW l \in {"sweep", "exit"}, l \in Label, Goto(p, l),
             UNCHANGED <<swapPool, swapIndex, pageTable, tlb, store, locals, k, j>>
      PROVE  Types'
  <2>1. sem' \in [Sem -> Int] /\ waiting' \in [Sem -> Seq(Uproc \cup {Test})]
    BY <1>2, SemTypes, SemNames DEF LocalTypes
  <2>2. /\ pc' \in [Uproc \cup {Test} -> Label] /\ pc'[p] = l
        /\ \A q \in Uproc \cup {Test} : q # p => pc'[q] = pc[q]
    BY <1>2, PcMoves
  <2>3. p # Test
    BY PagingAssumption
  <2>4. LocalTypes' /\ StepTypes'
    BY <1>2, <2>1, <2>2, <2>3 DEF LocalTypes, StepTypes, locals, Working, Framed
  <2> QED BY <1>2, <2>4 DEF TableTypes, StoreTypes, store
<1>3. CASE supTerminate(p)
  <2>1. /\ Goto(p, "sweep") /\ UNCHANGED <<sems, locals, k, j>>
        /\ UNCHANGED <<swapPool, swapIndex, pageTable, tlb, store>>
    BY <1>3 DEF supTerminate
  <2>2. LocalTypes' /\ StepTypes'
    BY <1>1, <2>1, OnlyPcMoves DEF Working, Framed
  <2> QED BY <2>1, <2>2 DEF TableTypes, StoreTypes, store
<1>4. CASE supportProgTrapHandler(p)
  BY <1>1, <1>2, <1>4 DEF supportProgTrapHandler
<1>5. CASE checkFrame(p)
  <2>1. /\ pc[p] = "sweep" /\ k[p] < SWAP_POOL_SIZE
        /\ UNCHANGED <<swapPool, swapIndex, pageTable, tlb, store, sems, locals, j>>
    BY <1>5 DEF checkFrame, At
  <2>2. CASE Goto(p, "free") /\ UNCHANGED k
    <3>1. LocalTypes' /\ StepTypes'
      BY <1>1, <2>1, <2>2, OnlyPcMoves DEF Working, Framed
    <3> QED BY <2>1, <3>1 DEF TableTypes, StoreTypes, store
  <2>3. CASE k' = [k EXCEPT ![p] = k[p] + 1] /\ UNCHANGED pc
    <3>1. k' \in [Uproc -> 0 .. SWAP_POOL_SIZE] /\ \A q \in Uproc : pc[q] = "free" => k'[q] = k[q]
      BY <2>1, <2>3, PagingAssumption DEF LocalTypes
    <3>2. LocalTypes' /\ StepTypes'
      BY <2>1, <2>3, <3>1 DEF LocalTypes, StepTypes, sems, locals
    <3> QED BY <2>1, <3>2 DEF TableTypes, StoreTypes, store
  <2> QED BY <1>5, <2>2, <2>3 DEF checkFrame
<1>6. CASE freeFrame(p)
  <2>1. /\ pc[p] = "free" /\ Goto(p, "sweep") /\ k' = [k EXCEPT ![p] = k[p] + 1]
        /\ swapPool' = [swapPool EXCEPT ![k[p]] = Unused]
        /\ UNCHANGED <<swapIndex, pageTable, tlb, store, sems, locals, j>>
    BY <1>6 DEF freeFrame, At
  <2>2. /\ pc' \in [Uproc \cup {Test} -> Label] /\ pc'[p] = "sweep"
        /\ \A q \in Uproc \cup {Test} : q # p => pc'[q] = pc[q]
    BY <1>1, <2>1, PcMoves
  <2>3. k' \in [Uproc -> 0 .. SWAP_POOL_SIZE] /\ \A q \in Uproc : q # p => k'[q] = k[q]
    BY <2>1, PagingAssumption DEF LocalTypes, StepTypes
  <2>4. p # Test
    BY PagingAssumption
  <2>5. LocalTypes' /\ StepTypes'
    BY <2>1, <2>2, <2>3, <2>4 DEF LocalTypes, StepTypes, sems, locals, Working, Framed
  <2>6. TableTypes'
    BY <2>1, ZenonT(40) DEF TableTypes, Unused
  <2> QED BY <2>1, <2>5, <2>6 DEF StoreTypes, store
<1>7. CASE signalMaster(p)
  BY <1>1, <1>2, <1>7 DEF signalMaster
<1>8. CASE exit(p)
  <2>1. /\ Goto(p, "ended") /\ UNCHANGED <<sems, locals, k, j>>
        /\ UNCHANGED <<swapPool, swapIndex, pageTable, tlb, store>>
    BY <1>8 DEF exit
  <2>2. LocalTypes' /\ StepTypes'
    BY <1>1, <2>1, OnlyPcMoves DEF Working, Framed
  <2> QED BY <2>1, <2>2 DEF TableTypes, StoreTypes, store
<1> QED BY <1>3, <1>4, <1>5, <1>6, <1>7, <1>8 DEF terminate

LEMMA TestTypes ==
  ASSUME Types, waitUproc \/ endTest \/ \E p \in Uproc : createUproc(p)
  PROVE  Types'
<1> USE DEF Types
<1>1. Cardinality(Uproc) \in Nat /\ Test \notin Uproc
  BY PagingAssumption, FS_CardinalityType
<1>2. CASE waitUproc
  <2>1. /\ pc[Test] = "wait" /\ S!P("masterSemaphore", Test) /\ j' = j + 1
        /\ Goto(Test, IF j + 1 = Cardinality(Uproc) THEN "end" ELSE "wait")
        /\ UNCHANGED <<swapPool, swapIndex, pageTable, tlb, store, locals, k>>
    BY <1>2 DEF waitUproc, At
  <2>2. sem' \in [Sem -> Int] /\ waiting' \in [Sem -> Seq(Uproc \cup {Test})]
    BY <2>1, SemTypes, SemNames DEF LocalTypes
  <2>3. PICK l \in {"end", "wait"} : l \in Label /\ Goto(Test, l) /\ (l = "wait" => j + 1 # Cardinality(Uproc))
    BY <2>1 DEF Label
  <2>4. /\ pc' \in [Uproc \cup {Test} -> Label] /\ pc'[Test] = l
        /\ \A q \in Uproc \cup {Test} : q # Test => pc'[q] = pc[q]
    BY <2>3, PcMoves
  <2>5. j < Cardinality(Uproc) /\ j \in Nat
    BY <1>1, <2>1 DEF StepTypes, LocalTypes
  <2>6. LocalTypes'
    BY <1>1, <2>1, <2>2, <2>4, <2>5 DEF LocalTypes, locals
  <2>7. StepTypes'
    BY <1>1, <2>1, <2>3, <2>4, <2>5 DEF StepTypes, locals
  <2> QED BY <2>1, <2>6, <2>7 DEF TableTypes, StoreTypes, store
<1>3. CASE endTest
  <2>1. /\ Goto(Test, "halt") /\ "halt" \in Label
        /\ UNCHANGED <<swapPool, swapIndex, pageTable, tlb, store, sems, locals, k, j>>
    BY <1>3 DEF endTest, Label
  <2>2. /\ pc' \in [Uproc \cup {Test} -> Label] /\ pc'[Test] = "halt"
        /\ \A q \in Uproc \cup {Test} : q # Test => pc'[q] = pc[q]
    BY <2>1, PcMoves
  <2>3. LocalTypes' /\ StepTypes'
    BY <1>1, <2>1, <2>2 DEF LocalTypes, StepTypes, sems, locals
  <2> QED BY <2>1, <2>3 DEF TableTypes, StoreTypes, store
<1>4. ASSUME NEW p \in Uproc, createUproc(p) PROVE Types'
  <2>1. /\ pc[Test] = "test" /\ pc[p] = "unborn"
        /\ UNCHANGED <<swapPool, swapIndex, pageTable, tlb, store, sems, locals, k, j>>
    BY <1>4 DEF createUproc, At
  <2>2. /\ pc' \in [Uproc \cup {Test} -> Label] /\ pc'[p] = "user" /\ pc'[Test] \in {"test", "wait"}
        /\ \A q \in Uproc : q # p => pc'[q] = pc[q]
    <3>1. PICK l \in {"test", "wait"} : pc' = [pc EXCEPT ![p] = "user", ![Test] = l]
      BY <1>4, <2>1 DEF createUproc
    <3>2. "user" \in Label /\ l \in Label /\ pc \in [Uproc \cup {Test} -> Label]
      BY DEF Label, LocalTypes
    <3>3. pc' \in [Uproc \cup {Test} -> Label]
      <4>1. [pc EXCEPT ![p] = "user"] \in [Uproc \cup {Test} -> Label]
        BY <3>2
      <4>2. pc' = [[pc EXCEPT ![p] = "user"] EXCEPT ![Test] = l]
        BY <3>1
      <4> QED BY <3>2, <4>1, <4>2
    <3>4. /\ pc'[p] = "user" /\ pc'[Test] = l
          /\ \A q \in Uproc : q # p => pc'[q] = pc[q]
      BY <1>1, <3>1, <3>2
    <3> QED BY <3>3, <3>4
  <2>3. j = 0 /\ Cardinality(Uproc) > 0
    <3>1. Cardinality(Uproc) # 0
      BY PagingAssumption, FS_EmptySet
    <3> QED BY <1>1, <2>1, <3>1 DEF StepTypes
  <2>4. LocalTypes' /\ StepTypes'
    BY <1>1, <2>1, <2>2, <2>3 DEF LocalTypes, StepTypes, sems, locals, Working, Framed
  <2> QED BY <2>1, <2>4 DEF TableTypes, StoreTypes, store
<1> QED BY <1>2, <1>3, <1>4

LEMMA InitTypes == Init => Types
<1> SUFFICES ASSUME Init PROVE Types
  OBVIOUS
<1>1. TableTypes
  BY PagingAssumption DEF Init, TableTypes, Frame, Unused
<1>2. StoreTypes
  BY DEF Init, StoreTypes, Contents
<1>3. LocalTypes
  <2>1. Cardinality(Uproc) \in Nat
    BY PagingAssumption, FS_CardinalityType
  <2>2. "test" \in Label /\ "unborn" \in Label
    BY DEF Label
  <2>3. pc \in [Uproc \cup {Test} -> Label] /\ waiting \in [Sem -> Seq(Uproc \cup {Test})]
    BY <2>2 DEF Init
  <2>4. page \in [Uproc -> Page \cup {NULL}] /\ frame \in [Uproc -> Frame \cup {NULL}]
        /\ victim \in [Uproc -> ((Uproc \cup {NULL}) \X (Page \cup {NULL})) \cup {NULL}]
    BY DEF Init
  <2> QED BY <2>1, <2>3, <2>4, PagingAssumption DEF Init, LocalTypes
<1>4. StepTypes
  BY PagingAssumption DEF Init, StepTypes, Working, Framed
<1> QED BY <1>1, <1>2, <1>3, <1>4 DEF Types

-----------------------------------------------------------------------------
\* Translations in the TLB.
LEMMA Coherent ==
  ASSUME Types, TlbCoherent, [Next]_vars
  PROVE  TlbCoherent'
<1>1. CASE UNCHANGED <<pageTable, tlb>>
  BY <1>1 DEF TlbCoherent
<1>2. ASSUME NEW p \in Uproc, NEW v \in Page, uTLB_RefillHandler(p, v) PROVE TlbCoherent'
  <2>1. tlb' = [tlb EXCEPT ![p][v] = pageTable[p][v]] /\ UNCHANGED pageTable
        /\ tlb \in [Uproc -> [Page -> {NULL} \cup [valid : BOOLEAN, frame : Frame \cup {NoFrame}]]]
    BY <1>2 DEF uTLB_RefillHandler, Types, TableTypes
  <2> QED BY <2>1 DEF TlbCoherent
<1>3. ASSUME NEW p \in Uproc, evict(p) PROVE TlbCoherent'
  <2> DEFINE o == victim[p][1]
             v == victim[p][2]
  <2>1. /\ tlb' = [tlb EXCEPT ![o][v] = IF tlb[o][v] = NULL THEN tlb[o][v] ELSE pageTable'[o][v]]
        /\ pageTable' = [pageTable EXCEPT ![o][v].valid = FALSE]
    BY <1>3 DEF evict
  <2>2. /\ tlb \in [Uproc -> [Page -> {NULL} \cup [valid : BOOLEAN, frame : Frame \cup {NoFrame}]]]
        /\ pageTable \in [Uproc -> [Page -> [valid : BOOLEAN, frame : Frame \cup {NoFrame}]]]
        /\ o \in Uproc /\ v \in Page
    BY <1>3 DEF evict, At, Types, TableTypes, StepTypes
  <2>3. ASSUME NEW q \in Uproc, NEW u \in Page, tlb'[q][u] # NULL PROVE tlb'[q][u] = pageTable'[q][u]
    <3>1. CASE q = o /\ u = v
      <4>1. tlb'[o][v] = IF tlb[o][v] = NULL THEN tlb[o][v] ELSE pageTable'[o][v]
        <5> HIDE DEF o, v
        <5> QED BY <2>1, <2>2
      <4> QED BY <2>3, <3>1, <4>1
    <3>2. CASE ~(q = o /\ u = v)
      <4>1. tlb'[q][u] = tlb[q][u]
        <5> HIDE DEF o, v
        <5> QED BY <2>1, <2>2, <3>2
      <4>2. pageTable'[q][u] = pageTable[q][u]
        <5> HIDE DEF o, v
        <5> QED BY <2>1, <2>2, <3>2
      <4> QED BY <2>3, <4>1, <4>2 DEF TlbCoherent
    <3> QED BY <3>1, <3>2
  <2> QED BY <2>3 DEF TlbCoherent
<1>4. ASSUME NEW p \in Uproc, mapPage(p) PROVE TlbCoherent'
  BY <1>4 DEF mapPage, TlbCoherent
<1>5. CASE UNCHANGED vars
  BY <1>1, <1>5 DEF vars
<1>6. CASE waitUproc \/ endTest \/ Stopped
  BY <1>1, <1>6 DEF waitUproc, endTest, Stopped, vars
<1>7. ASSUME NEW p \in Uproc,
             createUproc(p) \/ supTerminate(p) \/ supportProgTrapHandler(p) \/ terminate(p)
      PROVE  TlbCoherent'
  BY <1>1, <1>7 DEF createUproc, supTerminate, supportProgTrapHandler, terminate, checkFrame, freeFrame,
                    signalMaster, exit
<1>8. ASSUME NEW p \in Uproc, pagerHandler(p) PROVE TlbCoherent'
  BY <1>1, <1>3, <1>4, <1>8 DEF pagerHandler, pickFrame, readVictim, writePage, loadPage, enterFrame, unlockPool
<1>9. ASSUME NEW p \in Uproc, NEW v \in Page, uTLB_RefillHandler(p, v) \/ write(p, v) \/ pageFault(p, v)
      PROVE  TlbCoherent'
  BY <1>1, <1>2, <1>9 DEF write, pageFault
<1> QED BY <1>5, <1>6, <1>7, <1>8, <1>9 DEF Next

-----------------------------------------------------------------------------
\* The lock of the pool.
Queue == waiting["swapPoolSem"]
Value == sem["swapPoolSem"]

LEMMA LockType == Types => Queue \in Seq(Uproc \cup {Test}) /\ Value \in Int
  BY SemNames DEF Types, LocalTypes, Queue, Value

\* A U-proc that is in the pager and does not wait is alone in there.
LEMMA Holder ==
  ASSUME Types, Lock, NEW p \in Uproc, pc[p] \in Working, S!Free(p)
  PROVE  /\ p \notin Range(Queue) /\ Value = 0 - Len(Queue) /\ IsInjective(Queue)
         /\ \A q \in Uproc : pc[q] \in Working /\ q # p => pc[q] = "pick" /\ q \in Range(Queue)
         /\ \A q \in Range(Queue) : q \in Uproc /\ pc[q] = "pick"
<1>1. p \notin Range(Queue)
  BY SemNames DEF S!Free, S!ToSet, Range, Queue
<1>2. Queue \in Seq(Uproc \cup {Test})
  BY LockType
<1>3. \A q \in Range(Queue) : q \in Uproc /\ pc[q] = "pick"
  BY <1>2, RangeOfSeq DEF Lock, Queue
<1> QED BY <1>1, <1>3 DEF Lock, Queue, Value

LEMMA LockKept ==
  ASSUME Types, Lock, NEW p \in Uproc, UNCHANGED <<Queue, Value>>,
         \A q \in Uproc : q # p => pc'[q] = pc[q],
         \/ pc[p] \notin Working /\ pc'[p] \notin Working
         \/ pc[p] \in Working /\ pc'[p] \in Working /\ p \notin Range(Queue)
  PROVE  Lock'
<1>1. \A q \in Uproc : q \in Range(Queue) => pc'[q] = "pick"
  BY DEF Lock, Queue, Working
<1>2. \A q \in Uproc : pc'[q] \in Working <=> pc[q] \in Working
  OBVIOUS
<1>3. waiting["swapPoolSem"]' = Queue /\ sem["swapPoolSem"]' = Value
  BY DEF Queue, Value
<1> QED BY <1>1, <1>2, <1>3 DEF Lock, Queue, Value

LEMMA LockTaken ==
  ASSUME Types, Lock, NEW p \in Uproc, S!P("swapPoolSem", p), pc[p] \notin Working, pc'[p] = "pick",
         \A q \in Uproc : q # p => pc'[q] = pc[q]
  PROVE  Lock'
<1> DEFINE r == Append(Queue, p)
<1>1. Queue \in Seq(Uproc \cup {Test}) /\ Value \in Int /\ p # Test
  BY LockType, PagingAssumption
<1>2. Value' = Value - 1 /\ Queue' = IF Value > 0 THEN Queue ELSE r
  BY SemNames DEF S!P, Queue, Value, Types, LocalTypes
<1>3. p \notin Range(Queue)
  BY SemNames DEF S!P, S!Free, S!ToSet, Range, Queue
<1>4. IsInjective(r) /\ Range(r) = Range(Queue) \cup {p} /\ Len(r) = Len(Queue) + 1
  <2>1. Len(r) = Len(Queue) + 1 /\ \A i \in 1 .. Len(Queue) : r[i] = Queue[i]
    BY <1>1
  <2>2. r[Len(Queue) + 1] = p
    BY <1>1
  <2>3. IsInjective(Queue)
    BY DEF Lock, Queue
  <2>4. Range(r) = Range(Queue) \cup {p}
    BY <1>1, <2>1, <2>2 DEF Range
  <2>5. IsInjective(r)
    BY <1>1, <1>3, <2>1, <2>2, <2>3 DEF IsInjective, Range
  <2> QED BY <2>1, <2>4, <2>5
<1>5. "pick" \in Working
  BY DEF Working
<1>6. CASE Value = 1 /\ Queue = <<>> /\ \A q \in Uproc : pc[q] \notin Working
  <2>1. Value' = 0 /\ Queue' = Queue
    BY <1>2, <1>6
  <2>2. Len(Queue) = 0 /\ DOMAIN Queue = {}
    BY <1>6
  <2>3. Range(Queue) = {} /\ IsInjective(Queue)
    BY <2>2 DEF Range, IsInjective
  <2>4. waiting["swapPoolSem"]' = Queue /\ sem["swapPoolSem"]' = 0 - Len(Queue)
    BY <2>1, <2>2 DEF Queue, Value
  <2>5. pc'[p] \in Working /\ \A q \in Uproc : pc'[q] \in Working => q = p
    BY <1>5, <1>6
  <2> HIDE DEF r
  <2> QED BY <2>3, <2>4, <2>5 DEF Lock
<1>7. CASE Value = 0 - Len(Queue) /\ \E h \in Uproc : /\ pc[h] \in Working /\ h \notin Range(Queue)
                            /\ \A q \in Uproc : pc[q] \in Working => q = h \/ q \in Range(Queue)
  <2>1. Queue' = r /\ Value' = 0 - Len(r)
    BY <1>1, <1>2, <1>4, <1>7
  <2>2. PICK h \in Uproc : /\ pc[h] \in Working /\ h \notin Range(Queue)
                           /\ \A q \in Uproc : pc[q] \in Working => q = h \/ q \in Range(Queue)
    BY <1>7
  <2>3. h # p /\ h \notin Range(r) /\ pc'[h] \in Working
    BY <1>4, <2>2
  <2>4. \A q \in Uproc : pc'[q] \in Working => q = h \/ q \in Range(r)
    BY <1>4, <2>2
  <2>5. \A q \in Uproc : q \in Range(r) => pc'[q] = "pick"
    BY <1>4 DEF Lock, Queue
  <2>6. Test \notin Range(r) /\ IsInjective(r)
    BY <1>1, <1>4 DEF Lock, Queue
  <2>7. waiting["swapPoolSem"]' = r /\ sem["swapPoolSem"]' = 0 - Len(r)
    BY <2>1 DEF Queue, Value
  <2> HIDE DEF r
  <2> QED BY <2>3, <2>4, <2>5, <2>6, <2>7 DEF Lock
<1> QED BY <1>6, <1>7 DEF Lock, Queue, Value

LEMMA LockPassed ==
  ASSUME Types, Lock, NEW p \in Uproc, pc[p] = "unlock", S!Free(p), S!V("swapPoolSem"),
         pc'[p] = "user", \A q \in Uproc : q # p => pc'[q] = pc[q]
  PROVE  Lock'
<1>1. Queue \in Seq(Uproc \cup {Test}) /\ Value \in Int
  BY LockType
<1>2. Value' = Value + 1 /\ Queue' = IF Queue = <<>> THEN Queue ELSE Tail(Queue)
  BY SemNames DEF S!V, Queue, Value, Types, LocalTypes
<1>3. /\ p \notin Range(Queue) /\ Value = 0 - Len(Queue) /\ IsInjective(Queue)
      /\ \A q \in Uproc : pc[q] \in Working /\ q # p => pc[q] = "pick" /\ q \in Range(Queue)
      /\ \A q \in Range(Queue) : q \in Uproc /\ pc[q] = "pick"
  BY Holder DEF Working
<1>4. CASE Queue = <<>>
  <2>1. Queue' = <<>> /\ Value' = 1 /\ Range(<<>>) = {} /\ IsInjective(<<>>)
    BY <1>2, <1>3, <1>4 DEF Range, IsInjective
  <2>2. \A q \in Uproc : pc'[q] \notin Working
    BY <1>3, <1>4, <2>1 DEF Working
  <2> QED BY <2>1, <2>2 DEF Lock, Queue, Value
<1>5. CASE Queue # <<>>
  <2> DEFINE h == Queue[1]
             r == Tail(Queue)
  <2>1. Len(r) = Len(Queue) - 1 /\ Len(Queue) > 0 /\ \A i \in 1 .. Len(Queue) - 1 : r[i] = Queue[i + 1]
    BY <1>1, <1>5
  <2>2. Range(Queue) = {h} \cup Range(r)
    <3>1. Range(Queue) = {Queue[i] : i \in 1 .. Len(Queue)} /\ Range(r) = {r[i] : i \in 1 .. Len(Queue) - 1}
      <4>1. r \in Seq(Uproc \cup {Test})
        BY <1>1, <1>5
      <4> HIDE DEF r
      <4> QED BY <1>1, <2>1, <4>1, RangeEquality
    <3>2. \A i \in 1 .. Len(Queue) : i = 1 \/ (i - 1 \in 1 .. Len(Queue) - 1 /\ Queue[i] = r[i - 1])
      BY <1>1, <2>1
    <3>3. \A i \in 1 .. Len(Queue) - 1 : i + 1 \in 1 .. Len(Queue) /\ r[i] = Queue[i + 1]
      BY <1>1, <2>1
    <3>4. 1 \in 1 .. Len(Queue)
      BY <1>1, <2>1
    <3> HIDE DEF r
    <3> QED BY <3>1, <3>2, <3>3, <3>4
  <2>3. h \notin Range(r) /\ IsInjective(r)
    BY <1>1, <1>3, <2>1 DEF Range, IsInjective
  <2>4. Queue' = r /\ Value' = 0 - Len(r)
    BY <1>1, <1>2, <1>3, <1>5, <2>1
  <2>5. h \in Uproc /\ h # p /\ pc'[h] \in Working
    BY <1>3, <2>2 DEF Working
  <2>6. \A q \in Uproc : pc'[q] \in Working => q = h \/ q \in Range(r)
    BY <1>3, <2>2 DEF Working
  <2>7. \A q \in Uproc : q \in Range(r) => pc'[q] = "pick"
    BY <1>3, <2>2
  <2>8. Test \notin Range(r)
    BY <1>3, <2>2, PagingAssumption
  <2>9. waiting["swapPoolSem"]' = r /\ sem["swapPoolSem"]' = 0 - Len(r)
    BY <2>4 DEF Queue, Value
  <2> HIDE DEF r, h
  <2> QED BY <2>3, <2>5, <2>6, <2>7, <2>8, <2>9 DEF Lock
<1> QED BY <1>4, <1>5

-----------------------------------------------------------------------------
\* While no U-proc has ended the pool, the tables and the backing store agree.
LEMMA NestedRead ==
  ASSUME NEW A, NEW B, NEW R, NEW f \in [A -> [B -> R]], NEW a \in A, NEW b \in B, NEW r
  PROVE  \A c \in A, d \in B : [f EXCEPT ![a][b] = r][c][d] = IF c = a /\ d = b THEN r ELSE f[c][d]
  OBVIOUS

\* The pager that holds the lock is the only one with a frame, before its step
\* and after it.
LEMMA Alone ==
  ASSUME Types, Lock, NEW p \in Uproc, pc[p] \in Working, S!Free(p),
         \A q \in Uproc : q # p => pc'[q] = pc[q]
  PROVE  /\ \A q \in Uproc : q # p => pc[q] \notin Working \ {"pick"} /\ pc'[q] \notin Working \ {"pick"}
         /\ \A f \in Frame : Handled(f) <=> pc[p] \in Detached /\ frame[p] = f
         /\ \A f \in Frame : Handled(f)' <=> pc'[p] \in Detached /\ frame'[p] = f
<1>1. \A q \in Uproc : pc[q] \in Working /\ q # p => pc[q] = "pick"
  BY Holder
<1>2. Detached \subseteq Working \ {"pick"}
  BY DEF Detached, Working
<1>3. \A q \in Uproc : q # p => pc[q] \notin Working \ {"pick"} /\ pc'[q] \notin Working \ {"pick"}
  BY <1>1
<1> QED BY <1>2, <1>3 DEF Handled

LEMMA OwnedSame ==
  ASSUME Owned, UNCHANGED <<swapPool, pageTable, mem, version>>,
         \A h \in Uproc : /\ pc'[h] \in Detached <=> pc[h] \in Detached
                          /\ pc[h] \in Detached => frame'[h] = frame[h]
  PROVE  Owned'
<1>1. DataOwned'
  BY DEF Owned, DataOwned
<1>2. PagesOwned'
  BY DEF Owned, PagesOwned, Handled, Entry, Latest
<1>3. FramesOwned'
  BY DEF Owned, FramesOwned, Handled, Mapped, Entry
<1> QED BY <1>1, <1>2, <1>3 DEF Owned

LEMMA PoolSame ==
  ASSUME Types, Pool, UNCHANGED <<swapPool, pageTable, store, sems, pc, locals>>
  PROVE  Pool'
<1>0. Lock'
  BY DEF Pool, Lock, sems
<1>1. Owned'
  BY OwnedSame DEF Pool, store, locals
<1>2. Progress' /\ Stored'
  BY DEF Pool, Progress, Done, Stored, Entry, Latest, store, locals
<1> QED BY <1>0, <1>1, <1>2 DEF Pool

LEMMA PoolInit == Init => Pool
<1> SUFFICES ASSUME Init PROVE Pool
  OBVIOUS
<1>0. /\ \A p \in Uproc : pc[p] = "unborn"
      /\ sem["swapPoolSem"] = 1 /\ waiting["swapPoolSem"] = <<>>
  BY PagingAssumption, SemNames DEF Init
<1>1. Lock
  <2>1. DOMAIN <<>> = {}
    OBVIOUS
  <2>2. Range(<<>>) = {} /\ IsInjective(<<>>)
    BY <2>1 DEF Range, IsInjective
  <2> QED BY <1>0, <2>2 DEF Lock, Working
<1>2. Owned
  BY DEF Init, Owned, DataOwned, PagesOwned, FramesOwned, Unused, Entry, Frame, NoFrame
<1>3. Progress
  BY <1>0 DEF Progress, Done, Working
<1>4. Stored
  BY DEF Init, Stored, Latest
<1> QED BY <1>1, <1>2, <1>3, <1>4 DEF Pool

\* A U-proc writes to the frame of its page, which no pager works on.
LEMMA PoolWrite ==
  ASSUME Types, TlbCoherent, Pool, NEW p \in Uproc, NEW v \in Page, write(p, v)
  PROVE  Pool'
<1> DEFINE f == tlb[p][v].frame
           c == <<p, v, version[p][v] + 1>>
<1>1. /\ f \in Frame /\ pageTable[p][v].valid /\ pageTable[p][v].frame = f /\ pc[p] = "user"
      /\ mem' = [mem EXCEPT ![f] = c] /\ version' = [version EXCEPT ![p][v] = version[p][v] + 1]
      /\ UNCHANGED <<swapPool, pageTable, flash, sem, waiting, pc, page, frame, victim>>
  BY DEF write, At, TlbCoherent, sems, locals
<1>2. v # DataPage /\ swapPool[f] = Entry(p, v) /\ ~Handled(f)
  <2>1. v # DataPage
    BY <1>1 DEF Pool, Owned, DataOwned, Frame, NoFrame
  <2> HIDE DEF f
  <2> QED BY <1>1, <2>1 DEF Pool, Owned, PagesOwned
<1>3. /\ mem \in [Frame -> Contents \cup {NULL}] /\ version \in [Uproc -> [Page -> Nat]]
  BY DEF Types, StoreTypes
<1>4. \A q \in Uproc, u \in Page : version'[q][u] = IF q = p /\ u = v THEN version[p][v] + 1 ELSE version[q][u]
  BY <1>1, <1>3, NestedRead
<1>5. mem'[f] = c /\ \A g \in Frame : g # f => mem'[g] = mem[g]
  <2> HIDE DEF f, c
  <2> QED BY <1>1, <1>3
<1>6. Latest(p, v)' = c /\ \A q \in Uproc, u \in Page : ~(q = p /\ u = v) => Latest(q, u)' = Latest(q, u)
  BY <1>4 DEF Latest
<1>7. Lock'
  BY <1>1 DEF Pool, Lock
<1> HIDE DEF f, c
<1>8. Owned'
  <2>2. ASSUME NEW q \in Uproc, NEW u \in Page \ {DataPage}, pageTable[q][u].valid
        PROVE  mem'[pageTable[q][u].frame] = Latest(q, u)'
    <3>1. CASE q = p /\ u = v
      BY <1>1, <1>5, <1>6, <3>1
    <3>2. CASE ~(q = p /\ u = v)
      <4> DEFINE g == pageTable[q][u].frame
      <4>1. g \in Frame /\ swapPool[g] = Entry(q, u) /\ mem[g] = Latest(q, u)
        BY <2>2 DEF Pool, Owned, PagesOwned
      <4>2. g # f
        BY <1>2, <3>2, <4>1 DEF Entry
      <4> QED BY <1>5, <1>6, <3>2, <4>1, <4>2
    <3> QED BY <3>1, <3>2
  <2>3. \A q \in Uproc, u \in Page \ {DataPage} : pageTable[q][u].valid =>
          LET g == pageTable[q][u].frame IN
          g \in Frame /\ swapPool[g] = Entry(q, u) /\ mem'[g] = Latest(q, u)' /\ ~Handled(g)
    BY <2>2 DEF Pool, Owned, PagesOwned
  <2>4. PagesOwned'
    BY <1>1, <2>3 DEF PagesOwned, Entry, Handled, Latest
  <2>5. DataOwned'
    BY <1>1 DEF Pool, Owned, DataOwned
  <2>6. FramesOwned'
    BY <1>1 DEF Pool, Owned, FramesOwned, Mapped, Entry, Handled
  <2> QED BY <2>4, <2>5, <2>6 DEF Owned
<1>9. Progress'
  <2>1. ASSUME NEW q \in Uproc, pc[q] \in Detached PROVE frame[q] \in Frame /\ frame[q] # f
    <3>1. frame[q] \in Frame
      BY <2>1 DEF Types, StepTypes, Detached, Framed, Working
    <3> QED BY <1>1, <1>2, <2>1, <3>1 DEF Handled
  <2>2. ASSUME NEW q \in Uproc, pc[q] = "writePage"
        PROVE  mem'[frame[q]] = <<victim[q][1], victim[q][2], version'[victim[q][1]][victim[q][2]]>>
    <3>1. victim[q] \in Uproc \X Page /\ mem[frame[q]] = Latest(victim[q][1], victim[q][2])
          /\ ~pageTable[victim[q][1]][victim[q][2]].valid
      BY <2>2 DEF Types, StepTypes, Pool, Progress, Done
    <3>2. ~(victim[q][1] = p /\ victim[q][2] = v)
      BY <1>1, <3>1
    <3> QED BY <1>4, <1>5, <2>1, <2>2, <3>1, <3>2 DEF Detached, Latest
  <2>3. ASSUME NEW q \in Uproc, pc[q] \in {"enter", "map"}
        PROVE  mem'[frame[q]] = <<q, page[q], version'[q][page[q]]>>
    <3>1. page[q] \in Page /\ mem[frame[q]] = Latest(q, page[q]) /\ q # p
      BY <1>1, <2>3 DEF Types, StepTypes, Pool, Progress, Done, Working
    <3> QED BY <1>4, <1>5, <2>1, <2>3, <3>1 DEF Detached, Latest
  <2> QED BY <1>1, <2>2, <2>3 DEF Pool, Progress, Done, Entry, Latest
<1>10. Stored'
  <2> SUFFICES ASSUME NEW q \in Uproc, NEW u \in Page \ {DataPage}
               PROVE  \/ pageTable'[q][u].valid
                      \/ flash'[q][u] = Latest(q, u)'
                      \/ \E h \in Uproc : pc'[h] = "writePage" /\ victim'[h] = <<q, u>> /\ mem'[frame'[h]] = Latest(q, u)'
    BY DEF Stored
  <2>1. CASE q = p /\ u = v
    BY <1>1, <2>1
  <2>2. ASSUME ~(q = p /\ u = v), NEW h \in Uproc, pc[h] = "writePage", mem[frame[h]] = Latest(q, u)
        PROVE  mem'[frame'[h]] = Latest(q, u)'
    <3>1. frame[h] \in Frame /\ frame[h] # f
      BY <1>1, <1>2, <2>2 DEF Types, StepTypes, Framed, Working, Handled, Detached
    <3> QED BY <1>1, <1>5, <1>6, <2>2, <3>1
  <2> QED BY <1>1, <1>6, <2>1, <2>2 DEF Pool, Stored
<1> QED BY <1>7, <1>8, <1>9, <1>10 DEF Pool

\* A page that faults is not resident: the TLB does not say otherwise.
LEMMA PoolFault ==
  ASSUME Types, TlbCoherent, Pool, NEW p \in Uproc, NEW v \in Page, pageFault(p, v)
  PROVE  Pool'
<1>1. /\ pc[p] = "user" /\ Goto(p, "pick") /\ "pick" \in Label /\ page' = [page EXCEPT ![p] = v]
      /\ UNCHANGED <<swapPool, pageTable, mem, flash, version, frame, victim>>
      /\ ~pageTable[p][v].valid /\ S!P("swapPoolSem", p)
  BY DEF pageFault, At, Label, Working, store, TlbCoherent
<1>2. pc'[p] = "pick" /\ \A q \in Uproc : q # p => pc'[q] = pc[q]
  BY <1>1, PcMoves DEF Types
<1>3. Lock'
  BY <1>1, <1>2, LockTaken DEF Pool, Working
<1>4. page'[p] = v /\ v # DataPage /\ \A q \in Uproc : q # p => page'[q] = page[q]
  BY <1>1 DEF Types, LocalTypes, Pool, Owned, DataOwned
<1>6. Owned'
  BY <1>1, <1>2, OwnedSame DEF Pool, Detached
<1>7. Progress'
  BY <1>1, <1>2, <1>4, SMTT(30) DEF Pool, Progress, Done, Latest, Entry, Working
<1>8. Stored'
  <2>1. \A q \in Uproc : pc[q] = "writePage" <=> pc'[q] = "writePage"
    BY <1>1, <1>2
  <2> QED BY <1>1, <2>1 DEF Pool, Stored, Latest
<1> QED BY <1>3, <1>6, <1>7, <1>8 DEF Pool

-----------------------------------------------------------------------------
\* The steps of the pager that holds the lock: what they have in common.
LEMMA PagerStep ==
  ASSUME Types, Lock, NEW p \in Uproc, NEW l \in Working, pc[p] \in Working, S!Free(p),
         Goto(p, l), UNCHANGED <<sem, waiting>>
  PROVE  /\ Lock' /\ pc'[p] = l
         /\ \A q \in Uproc : q # p => pc'[q] = pc[q] /\ pc[q] \notin Working \ {"pick"}
         /\ \A h \in Uproc : pc[h] \in Detached => h = p
         /\ \A h \in Uproc : pc'[h] \in Detached => h = p
<1>1. pc'[p] = l /\ \A q \in Uproc : q # p => pc'[q] = pc[q]
  BY PcMoves DEF Types, Label
<1>2. \A q \in Uproc : q # p => pc[q] \notin Working \ {"pick"}
  BY <1>1, Alone
<1>3. Lock'
  BY <1>1, LockKept, Holder DEF Queue, Value
<1>4. Detached \subseteq Working \ {"pick"}
  BY DEF Detached, Working
<1> QED BY <1>1, <1>2, <1>3, <1>4

LEMMA ProgressOf ==
  ASSUME Progress, NEW p \in Uproc, Done(p)',
         \A q \in Uproc : q # p => /\ pc'[q] = pc[q] /\ pc[q] \notin Working \ {"pick"}
                                   /\ page'[q] = page[q]
                                   /\ pc[q] = "pick" => ~pageTable'[q][page[q]].valid
  PROVE  Progress'
<1>1. ASSUME NEW q \in Uproc, q # p PROVE Done(q)'
  <2>1. Done(q) /\ pc'[q] = pc[q] /\ page'[q] = page[q]
    BY <1>1 DEF Progress
  <2> QED BY <1>1, <2>1 DEF Done, Working
<1> QED BY <1>1 DEF Progress

LEMMA PoolPick ==
  ASSUME Types, Pool, NEW p \in Uproc, pickFrame(p)
  PROVE  Pool'
<1> DEFINE unoccupied == {f \in Frame : ~swapPool[f].occupied}
<1>1. /\ pc[p] = "pick" /\ S!Free(p) /\ UNCHANGED <<swapPool, pageTable, mem, flash, version, sem, waiting, page, victim>>
      /\ \E f \in Frame, l \in {"load", "readVictim"} :
           /\ frame' = [frame EXCEPT ![p] = f] /\ Goto(p, l)
           /\ IF l = "load" THEN ~swapPool[f].occupied ELSE swapPool[f].occupied
  <2>1. pc[p] = "pick" /\ S!Free(p) /\ UNCHANGED <<swapPool, pageTable, mem, flash, version, sem, waiting, page, victim>>
    BY DEF pickFrame, At, store, sems
  <2>2. CASE unoccupied # {} /\ frame' = [frame EXCEPT ![p] = Min(unoccupied)] /\ Goto(p, "load")
    <3>1. Min(unoccupied) \in unoccupied
      BY <2>2, LeastFrame
    <3> QED BY <2>1, <2>2, <3>1
  <2>3. CASE unoccupied = {} /\ frame' = [frame EXCEPT ![p] = swapIndex] /\ Goto(p, "readVictim")
    <3>1. swapIndex \in Frame /\ swapPool[swapIndex].occupied
      BY <2>3 DEF Types, TableTypes
    <3> QED BY <2>1, <2>3, <3>1
  <2> QED BY <2>2, <2>3 DEF pickFrame
<1>2. PICK f \in Frame, l \in {"load", "readVictim"} :
        /\ frame' = [frame EXCEPT ![p] = f] /\ Goto(p, l)
        /\ IF l = "load" THEN ~swapPool[f].occupied ELSE swapPool[f].occupied
  BY <1>1
<1>3. /\ Lock' /\ pc'[p] = l
      /\ \A q \in Uproc : q # p => pc'[q] = pc[q] /\ pc[q] \notin Working \ {"pick"}
      /\ \A h \in Uproc : pc[h] \in Detached => h = p
      /\ \A h \in Uproc : pc'[h] \in Detached => h = p
  <2>1. l \in Working /\ pc[p] \in Working
    BY <1>1 DEF Working
  <2> QED BY <1>1, <1>2, <2>1, PagerStep DEF Pool
<1>4. frame'[p] = f
  BY <1>2 DEF Types, LocalTypes
<1>5. \A h \in Uproc : pc[h] \notin Detached
  BY <1>1, <1>3 DEF Detached
<1>6. \A h \in Uproc : pc'[h] \in Detached => h = p /\ l = "load"
  BY <1>3 DEF Detached
<1>7. Owned'
  <2>1. PagesOwned'
    BY <1>1, <1>2, <1>4, <1>6, SMTT(30) DEF Pool, Owned, PagesOwned, Handled, Entry, Latest
  <2>2. FramesOwned'
    BY <1>1, <1>5 DEF Pool, Owned, FramesOwned, Handled, Mapped, Entry
  <2> QED BY <1>1, <2>1, <2>2 DEF Pool, Owned, DataOwned
<1>8. Done(p)'
  BY <1>1, <1>2, <1>3, <1>4 DEF Pool, Progress, Done, Working
<1>9. Progress'
  BY <1>1, <1>3, <1>8, ProgressOf DEF Pool, Progress, Done, Working
<1>10. Stored'
  <2>1. \A q \in Uproc : pc[q] # "writePage"
    BY <1>5 DEF Detached
  <2> QED BY <1>1, <2>1 DEF Pool, Stored, Latest
<1> QED BY <1>3, <1>7, <1>9, <1>10 DEF Pool

\* The frame that is to be evicted has an owner as long as no U-proc has ended.
LEMMA PoolReadVictim ==
  ASSUME Types, Pool, NEW p \in Uproc, readVictim(p)
  PROVE  Pool'
<1> DEFINE e == swapPool[frame[p]]
<1>1. /\ pc[p] = "readVictim" /\ S!Free(p)
      /\ UNCHANGED <<swapPool, pageTable, mem, flash, version, sem, waiting, page, frame>>
      /\ victim' = [victim EXCEPT ![p] = <<e.asid, e.vpn>>]
      /\ Goto(p, IF e.asid = NULL THEN "wild" ELSE "evict")
  BY DEF readVictim, At, store, sems
<1>2. frame[p] \in Frame /\ e = Entry(e.asid, e.vpn) /\ e.asid \in Uproc /\ e.vpn \in Page
  <2>1. frame[p] \in Frame /\ e.occupied
    BY <1>1 DEF Types, StepTypes, Framed, Working, Pool, Progress, Done
  <2>2. e # Unused
    BY <2>1 DEF Unused
  <2>3. PICK q \in Uproc, v \in Page : e = Entry(q, v)
    BY <2>1, <2>2 DEF Types, TableTypes, Entry
  <2> QED BY <2>1, <2>3 DEF Entry
<1>3. e.asid # NULL
  BY <1>2, PagingAssumption
<1>4. /\ Lock' /\ pc'[p] = "evict"
      /\ \A q \in Uproc : q # p => pc'[q] = pc[q] /\ pc[q] \notin Working \ {"pick"}
      /\ \A h \in Uproc : pc[h] \in Detached => h = p
      /\ \A h \in Uproc : pc'[h] \in Detached => h = p
  <2>1. "evict" \in Working /\ pc[p] \in Working /\ Goto(p, "evict")
    BY <1>1, <1>3 DEF Working
  <2> QED BY <1>1, <2>1, PagerStep DEF Pool
<1>5. victim'[p] = <<e.asid, e.vpn>>
  BY <1>1 DEF Types, LocalTypes
<1>6. Owned'
  BY <1>1, <1>4, OwnedSame DEF Pool, Detached
<1>7. Done(p)'
  <2>1. PICK q \in Uproc, v \in Page : swapPool[frame[p]] = Entry(q, v) /\ victim'[p] = <<q, v>>
    BY <1>2, <1>5
  <2>2. victim'[p][1] = q /\ victim'[p][2] = v
    BY <2>1
  <2>3. page[p] # DataPage /\ ~pageTable[p][page[p]].valid /\ Entry(q, v).occupied
    BY <1>1 DEF Pool, Progress, Done, Working, Entry
  <2> QED BY <1>1, <1>4, <2>1, <2>2, <2>3 DEF Done, Entry
<1>8. Progress'
  BY <1>1, <1>4, <1>7, ProgressOf DEF Pool, Progress, Done, Working
<1>9. Stored'
  <2>1. \A q \in Uproc : pc[q] # "writePage"
    BY <1>1, <1>4 DEF Detached
  <2> QED BY <1>1, <2>1 DEF Pool, Stored, Latest
<1> QED BY <1>4, <1>6, <1>8, <1>9 DEF Pool

\* The page table of the victim loses its page; its contents stay in the frame.
LEMMA PoolEvict ==
  ASSUME Types, Pool, NEW p \in Uproc, evict(p)
  PROVE  Pool'
<1> DEFINE f == frame[p]
<1>1. /\ pc[p] = "evict" /\ S!Free(p)
      /\ UNCHANGED <<swapPool, mem, flash, version, sem, waiting, page, frame, victim>>
      /\ Goto(p, "writePage")
  BY DEF evict, At, store, sems, locals
<1>2. f \in Frame /\ victim[p] \in Uproc \X Page
  BY <1>1 DEF Types, StepTypes, Framed, Working
<1>3. PICK o \in Uproc, v \in Page : victim[p] = <<o, v>>
  BY <1>2
<1>4. /\ Lock' /\ pc'[p] = "writePage"
      /\ \A q \in Uproc : q # p => pc'[q] = pc[q] /\ pc[q] \notin Working \ {"pick"}
      /\ \A h \in Uproc : pc[h] \notin Detached
      /\ \A h \in Uproc : pc'[h] \in Detached => h = p
  <2>1. "writePage" \in Working /\ pc[p] \in Working /\ pc[p] \notin Detached
    BY <1>1 DEF Working, Detached
  <2> QED BY <1>1, <2>1, PagerStep DEF Pool
<1>5. swapPool[f] = Entry(o, v) /\ victim[p][1] = o /\ victim[p][2] = v
  BY <1>1, <1>3 DEF Pool, Progress, Done
<1>6. v # DataPage /\ Mapped(o, v, f)
  BY <1>2, <1>4, <1>5 DEF Pool, Owned, FramesOwned, Handled
<1>7. mem[f] = Latest(o, v)
  BY <1>6 DEF Pool, Owned, PagesOwned, Mapped
<1>8. \A q \in Uproc, u \in Page :
        /\ ~(q = o /\ u = v) => pageTable'[q][u] = pageTable[q][u]
        /\ q = o /\ u = v => ~pageTable'[q][u].valid
  <2> DEFINE R == [valid : BOOLEAN, frame : Frame \cup {NoFrame}]
             r == [pageTable[o][v] EXCEPT !.valid = FALSE]
  <2>1. pageTable' = [pageTable EXCEPT ![o][v] = r]
    BY <1>5 DEF evict
  <2>2. pageTable \in [Uproc -> [Page -> R]]
    BY DEF Types, TableTypes
  <2>3. ~r.valid
    <3>1. pageTable[o][v] \in R
      BY <2>2
    <3> QED BY <3>1
  <2>4. \A q \in Uproc, u \in Page : pageTable'[q][u] = IF q = o /\ u = v THEN r ELSE pageTable[q][u]
    <3> HIDE DEF r, R
    <3> QED BY <2>1, <2>2, NestedRead
  <2> QED BY <2>3, <2>4
<1>9. Owned'
  <2>1. PagesOwned'
    <3>1. ASSUME NEW q \in Uproc, NEW u \in Page \ {DataPage}, pageTable'[q][u].valid
          PROVE  /\ pageTable'[q][u] = pageTable[q][u] /\ pageTable[q][u].valid
                 /\ pageTable[q][u].frame # f
      <4>1. ~(q = o /\ u = v) /\ pageTable'[q][u] = pageTable[q][u]
        BY <1>8, <3>1
      <4>2. swapPool[pageTable[q][u].frame] = Entry(q, u)
        BY <3>1, <4>1 DEF Pool, Owned, PagesOwned
      <4> QED BY <1>5, <3>1, <4>1, <4>2 DEF Entry
    <3>2. \A q \in Uproc, u \in Page \ {DataPage} : pageTable'[q][u].valid =>
            LET g == pageTable'[q][u].frame IN
            g \in Frame /\ g # f /\ swapPool[g] = Entry(q, u) /\ mem[g] = Latest(q, u)
      BY <3>1 DEF Pool, Owned, PagesOwned
    <3> QED BY <1>1, <1>4, <3>2 DEF PagesOwned, Handled, Entry, Latest
  <2>2. FramesOwned'
    <3>1. ASSUME NEW g \in Frame, NEW q \in Uproc, NEW u \in Page, swapPool[g] = Entry(q, u), g # f
          PROVE  u # DataPage /\ Mapped(q, u, g)'
      <4>1. u # DataPage /\ Mapped(q, u, g)
        BY <1>4, <3>1 DEF Pool, Owned, FramesOwned, Handled
      <4>2. ~(q = o /\ u = v)
        BY <1>6, <3>1, <4>1 DEF Mapped
      <4> QED BY <1>8, <4>1, <4>2 DEF Mapped
    <3>2. \A q \in Uproc, u \in Page : swapPool[f] = Entry(q, u) => u # DataPage
      BY <1>5, <1>6 DEF Entry
    <3>3. "writePage" \in Detached
      BY DEF Detached
    <3> QED BY <1>1, <1>4, <3>1, <3>2, <3>3 DEF FramesOwned, Handled, Entry
  <2>3. DataOwned'
    BY <1>6, <1>8 DEF Pool, Owned, DataOwned
  <2> QED BY <2>1, <2>2, <2>3 DEF Owned
<1>10. Done(p)'
  <2>1. page[p] \in Page /\ page[p] # DataPage /\ ~pageTable[p][page[p]].valid
    BY <1>1 DEF Types, StepTypes, Pool, Progress, Done, Working
  <2>2. ~pageTable'[p][page[p]].valid /\ ~pageTable'[o][v].valid
    BY <1>8, <2>1
  <2> QED BY <1>1, <1>3, <1>4, <1>5, <1>7, <2>1, <2>2 DEF Done, Entry, Latest
<1>11. Progress'
  <2>1. ASSUME NEW q \in Uproc, pc[q] = "pick" PROVE ~pageTable'[q][page[q]].valid
    <3>1. page[q] \in Page /\ ~pageTable[q][page[q]].valid
      BY <2>1 DEF Types, StepTypes, Pool, Progress, Done, Working
    <3> QED BY <1>8, <3>1
  <2> QED BY <1>1, <1>4, <1>10, <2>1, ProgressOf DEF Pool
<1>12. Stored'
  <2> SUFFICES ASSUME NEW q \in Uproc, NEW u \in Page \ {DataPage}
               PROVE  \/ pageTable'[q][u].valid
                      \/ flash'[q][u] = Latest(q, u)'
                      \/ \E h \in Uproc : pc'[h] = "writePage" /\ victim'[h] = <<q, u>> /\ mem'[frame'[h]] = Latest(q, u)'
    BY DEF Stored
  <2>1. CASE q = o /\ u = v
    BY <1>1, <1>3, <1>4, <1>7, <2>1 DEF Latest
  <2>2. CASE ~(q = o /\ u = v)
    <3>1. \A h \in Uproc : pc[h] # "writePage"
      BY <1>4 DEF Detached
    <3> QED BY <1>1, <1>8, <2>2, <3>1 DEF Pool, Stored, Latest
  <2> QED BY <2>1, <2>2
<1> QED BY <1>4, <1>9, <1>11, <1>12 DEF Pool

\* The backing store of the victim has its page.
LEMMA PoolWritePage ==
  ASSUME Types, Pool, NEW p \in Uproc, writePage(p)
  PROVE  Pool'
<1>1. /\ pc[p] = "writePage" /\ S!Free(p) /\ Goto(p, "load")
      /\ UNCHANGED <<swapPool, pageTable, mem, version, sem, waiting, page, frame, victim>>
  BY DEF writePage, At, sems, locals
<1>2. PICK o \in Uproc, v \in Page : victim[p] = <<o, v>>
  BY <1>1 DEF Types, StepTypes
<1>3. /\ Lock' /\ pc'[p] = "load"
      /\ \A q \in Uproc : q # p => pc'[q] = pc[q] /\ pc[q] \notin Working \ {"pick"}
      /\ \A h \in Uproc : pc[h] \in Detached => h = p
      /\ \A h \in Uproc : pc'[h] \in Detached => h = p
  <2>1. "load" \in Working /\ pc[p] \in Working
    BY <1>1 DEF Working
  <2> QED BY <1>1, <2>1, PagerStep DEF Pool
<1>4. mem[frame[p]] = Latest(o, v)
  BY <1>1, <1>2 DEF Pool, Progress, Done
<1>5. flash'[o][v] = Latest(o, v)
      /\ \A q \in Uproc, u \in Page : ~(q = o /\ u = v) => flash'[q][u] = flash[q][u]
  <2>1. flash' = [flash EXCEPT ![o][v] = mem[frame[p]]]
    BY <1>2 DEF writePage
  <2>2. flash \in [Uproc -> [Page -> Contents \cup {NULL}]]
    BY DEF Types, StoreTypes
  <2>3. \A q \in Uproc, u \in Page : flash'[q][u] = IF q = o /\ u = v THEN mem[frame[p]] ELSE flash[q][u]
    BY <2>1, <2>2, NestedRead
  <2> QED BY <1>4, <2>3
<1>6. Owned'
  <2>1. pc[p] \in Detached /\ pc'[p] \in Detached
    BY <1>1, <1>3 DEF Detached
  <2> QED BY <1>1, <1>3, <2>1, OwnedSame DEF Pool
<1>7. Done(p)'
  BY <1>1, <1>3 DEF Pool, Progress, Done, Working
<1>8. Progress'
  BY <1>1, <1>3, <1>7, ProgressOf DEF Pool, Progress, Done, Working
<1>9. Stored'
  <2>1. \A h \in Uproc : pc[h] = "writePage" => h = p
    BY <1>3 DEF Detached
  <2> QED BY <1>1, <1>2, <1>5, <2>1 DEF Pool, Stored, Latest
<1> QED BY <1>3, <1>6, <1>8, <1>9 DEF Pool

\* A page that is nowhere else comes from its backing store with all its writes.
LEMMA PoolLoad ==
  ASSUME Types, Pool, NEW p \in Uproc, loadPage(p)
  PROVE  Pool'
<1> DEFINE f == frame[p]
<1>1. /\ pc[p] = "load" /\ S!Free(p) /\ Goto(p, "enter")
      /\ mem' = [mem EXCEPT ![f] = flash[p][page[p]]]
      /\ UNCHANGED <<swapPool, pageTable, flash, version, sem, waiting, page, frame, victim>>
  BY DEF loadPage, At, sems, locals
<1>2. f \in Frame /\ page[p] \in Page /\ page[p] # DataPage /\ ~pageTable[p][page[p]].valid
  BY <1>1 DEF Types, StepTypes, Framed, Working, Pool, Progress, Done
<1>3. /\ Lock' /\ pc'[p] = "enter"
      /\ \A q \in Uproc : q # p => pc'[q] = pc[q] /\ pc[q] \notin Working \ {"pick"}
      /\ \A h \in Uproc : pc[h] \in Detached => h = p
      /\ \A h \in Uproc : pc'[h] \in Detached => h = p
  <2>1. "enter" \in Working /\ pc[p] \in Working
    BY <1>1 DEF Working
  <2> QED BY <1>1, <2>1, PagerStep DEF Pool
<1>4. \A h \in Uproc : pc[h] # "writePage" /\ pc'[h] # "writePage"
  BY <1>1, <1>3 DEF Detached
<1>5. flash[p][page[p]] = Latest(p, page[p])
  BY <1>2, <1>4 DEF Pool, Stored
<1>6. mem'[f] = Latest(p, page[p]) /\ \A g \in Frame : g # f => mem'[g] = mem[g]
  <2>1. mem \in [Frame -> Contents \cup {NULL}]
    BY DEF Types, StoreTypes
  <2> HIDE DEF f
  <2> QED BY <1>1, <1>2, <1>5, <2>1
<1>7. pc[p] \in Detached /\ pc'[p] \in Detached
  BY <1>1, <1>3 DEF Detached
<1>8. Owned'
  <2>1. PagesOwned'
    <3>1. \A q \in Uproc, u \in Page \ {DataPage} : pageTable[q][u].valid =>
            LET g == pageTable[q][u].frame IN
            g \in Frame /\ g # f /\ swapPool[g] = Entry(q, u) /\ mem'[g] = Latest(q, u)
      BY <1>6, <1>7 DEF Pool, Owned, PagesOwned, Handled
    <3> QED BY <1>1, <1>3, <3>1 DEF PagesOwned, Handled, Entry, Latest
  <2>2. FramesOwned'
    BY <1>1, <1>3, <1>7 DEF Pool, Owned, FramesOwned, Handled, Mapped, Entry
  <2> QED BY <1>1, <2>1, <2>2 DEF Pool, Owned, DataOwned
<1>9. Done(p)'
  BY <1>1, <1>2, <1>3, <1>6 DEF Done, Latest
<1>10. Progress'
  BY <1>1, <1>3, <1>9, ProgressOf DEF Pool, Progress, Done, Working
<1>11. Stored'
  BY <1>1, <1>4 DEF Pool, Stored, Latest
<1> QED BY <1>3, <1>8, <1>10, <1>11 DEF Pool

\* The frame is entered for the page whose contents it has.
LEMMA PoolEnter ==
  ASSUME Types, Pool, NEW p \in Uproc, enterFrame(p)
  PROVE  Pool'
<1> DEFINE f == frame[p]
<1>1. /\ pc[p] = "enter" /\ S!Free(p) /\ Goto(p, "map")
      /\ swapPool' = [swapPool EXCEPT ![f] = Entry(p, page[p])]
      /\ UNCHANGED <<pageTable, mem, flash, version, sem, waiting, page, frame, victim>>
  BY DEF enterFrame, At, store, sems, locals, Entry
<1>2. f \in Frame /\ page[p] \in Page /\ page[p] # DataPage /\ ~pageTable[p][page[p]].valid
      /\ mem[f] = Latest(p, page[p])
  BY <1>1 DEF Types, StepTypes, Framed, Working, Pool, Progress, Done
<1>3. /\ Lock' /\ pc'[p] = "map"
      /\ \A q \in Uproc : q # p => pc'[q] = pc[q] /\ pc[q] \notin Working \ {"pick"}
      /\ \A h \in Uproc : pc[h] \in Detached => h = p
      /\ \A h \in Uproc : pc'[h] \in Detached => h = p
  <2>1. "map" \in Working /\ pc[p] \in Working
    BY <1>1 DEF Working
  <2> QED BY <1>1, <2>1, PagerStep DEF Pool
<1>4. swapPool'[f] = Entry(p, page[p]) /\ \A g \in Frame : g # f => swapPool'[g] = swapPool[g]
  <2>1. DOMAIN swapPool = Frame
    BY DEF Types, TableTypes
  <2> HIDE DEF f
  <2> QED BY <1>1, <1>2, <2>1
<1>5. pc[p] \in Detached /\ pc'[p] \in Detached
  BY <1>1, <1>3 DEF Detached
<1>6. Owned'
  <2>1. PagesOwned'
    <3>1. \A q \in Uproc, u \in Page \ {DataPage} : pageTable[q][u].valid =>
            LET g == pageTable[q][u].frame IN
            g \in Frame /\ g # f /\ swapPool'[g] = Entry(q, u) /\ mem[g] = Latest(q, u)
      BY <1>4, <1>5 DEF Pool, Owned, PagesOwned, Handled
    <3> QED BY <1>1, <1>3, <3>1 DEF PagesOwned, Handled, Entry, Latest
  <2>2. FramesOwned'
    <3>1. \A q \in Uproc, u \in Page : swapPool'[f] = Entry(q, u) => u # DataPage
      BY <1>2, <1>4 DEF Entry
    <3>2. \A g \in Frame, q \in Uproc, u \in Page :
            g # f /\ swapPool'[g] = Entry(q, u) => u # DataPage /\ Mapped(q, u, g)
      BY <1>3, <1>4 DEF Pool, Owned, FramesOwned, Handled
    <3> QED BY <1>1, <1>5, <3>1, <3>2 DEF FramesOwned, Handled, Mapped, Entry
  <2> QED BY <1>1, <2>1, <2>2 DEF Pool, Owned, DataOwned
<1>7. Done(p)'
  BY <1>1, <1>2, <1>3, <1>4 DEF Done, Latest, Entry
<1>8. Progress'
  BY <1>1, <1>3, <1>7, ProgressOf DEF Pool, Progress, Done, Working
<1>9. Stored'
  <2>1. \A h \in Uproc : pc[h] # "writePage"
    BY <1>1, <1>3 DEF Detached
  <2> QED BY <1>1, <2>1 DEF Pool, Stored, Latest
<1> QED BY <1>3, <1>6, <1>8, <1>9 DEF Pool

\* The page table gets the frame, which no other page has.
LEMMA PoolMap ==
  ASSUME Types, Pool, NEW p \in Uproc, mapPage(p)
  PROVE  Pool'
<1> DEFINE f == frame[p]
           v == page[p]
           r == [valid |-> TRUE, frame |-> f]
<1>1. /\ pc[p] = "map" /\ S!Free(p) /\ Goto(p, "unlock")
      /\ pageTable' = [pageTable EXCEPT ![p][v] = r]
      /\ UNCHANGED <<swapPool, mem, flash, version, sem, waiting, page, frame, victim>>
  BY DEF mapPage, At, store, sems, locals
<1>2. /\ f \in Frame /\ v \in Page /\ v # DataPage /\ ~pageTable[p][v].valid
      /\ mem[f] = Latest(p, v) /\ swapPool[f] = Entry(p, v)
  BY <1>1 DEF Types, StepTypes, Framed, Working, Pool, Progress, Done
<1>3. /\ Lock' /\ pc'[p] = "unlock"
      /\ \A q \in Uproc : q # p => pc'[q] = pc[q] /\ pc[q] \notin Working \ {"pick"}
      /\ \A h \in Uproc : pc[h] \in Detached => h = p
      /\ \A h \in Uproc : pc'[h] \notin Detached
  <2>1. "unlock" \in Working /\ pc[p] \in Working /\ "unlock" \notin Detached
    BY <1>1 DEF Working, Detached
  <2> QED BY <1>1, <2>1, PagerStep DEF Pool
<1>4. \A q \in Uproc, u \in Page : pageTable'[q][u] = IF q = p /\ u = v THEN r ELSE pageTable[q][u]
  <2>1. pageTable \in [Uproc -> [Page -> [valid : BOOLEAN, frame : Frame \cup {NoFrame}]]]
    BY DEF Types, TableTypes
  <2> HIDE DEF v, r
  <2> QED BY <1>1, <1>2, <2>1, NestedRead
<1>5. pc[p] \in Detached
  BY <1>1 DEF Detached
<1>6. r.valid /\ r.frame = f
  OBVIOUS
<1>7. Owned'
  <2>1. PagesOwned'
    <3>1. \A q \in Uproc, u \in Page \ {DataPage} : pageTable'[q][u].valid =>
            LET g == pageTable'[q][u].frame IN
            g \in Frame /\ swapPool[g] = Entry(q, u) /\ mem[g] = Latest(q, u)
      <4> HIDE DEF f, v, r
      <4> QED BY <1>2, <1>4, <1>6 DEF Pool, Owned, PagesOwned
    <3> QED BY <1>1, <1>3, <3>1, SMTT(30) DEF PagesOwned, Handled, Entry, Latest
  <2>2. FramesOwned'
    <3>1. ASSUME NEW g \in Frame, NEW q \in Uproc, NEW u \in Page, swapPool[g] = Entry(q, u)
          PROVE  u # DataPage /\ pageTable'[q][u] = [valid |-> TRUE, frame |-> g]
      <4>1. CASE g = f
        <5>1. q = p /\ u = v
          BY <1>2, <3>1, <4>1 DEF Entry
        <5> QED BY <1>2, <1>4, <4>1, <5>1
      <4>2. CASE g # f
        <5>1. u # DataPage /\ pageTable[q][u] = [valid |-> TRUE, frame |-> g]
          BY <1>3, <3>1, <4>2 DEF Pool, Owned, FramesOwned, Handled, Mapped
        <5>2. ~(q = p /\ u = v)
          BY <1>2, <5>1
        <5> QED BY <1>4, <5>1, <5>2
      <4> QED BY <4>1, <4>2
    <3> QED BY <1>1, <3>1 DEF FramesOwned, Mapped, Entry
  <2>3. DataOwned'
    <3> HIDE DEF v, r
    <3> QED BY <1>2, <1>4, ZenonT(40) DEF Pool, Owned, DataOwned
  <2> QED BY <2>1, <2>2, <2>3 DEF Owned
<1>8. Done(p)'
  BY <1>3 DEF Done
<1>9. Progress'
  <2>1. \A q \in Uproc : q # p /\ pc[q] = "pick" => ~pageTable'[q][page[q]].valid
    <3>1. \A q \in Uproc : pc[q] = "pick" => page[q] \in Page /\ ~pageTable[q][page[q]].valid
      BY DEF Types, StepTypes, Pool, Progress, Done, Working
    <3> QED BY <1>4, <3>1
  <2> QED BY <1>1, <1>3, <1>8, <2>1, ProgressOf DEF Pool
<1>10. Stored'
  <2>1. \A h \in Uproc : pc[h] # "writePage"
    BY <1>1, <1>3 DEF Detached
  <2>2. \A q \in Uproc, u \in Page : pageTable[q][u].valid => pageTable'[q][u].valid
    <3> HIDE DEF v, r
    <3> QED BY <1>4, <1>6
  <2> QED BY <1>1, <2>1, <2>2 DEF Pool, Stored, Latest
<1> QED BY <1>3, <1>7, <1>9, <1>10 DEF Pool

LEMMA PoolUnlock ==
  ASSUME Types, Pool, NEW p \in Uproc, unlockPool(p)
  PROVE  Pool'
<1>1. /\ pc[p] = "unlock" /\ S!Free(p) /\ Goto(p, "user") /\ "user" \in Label /\ S!V("swapPoolSem")
      /\ UNCHANGED <<swapPool, pageTable, mem, flash, version>>
      /\ \A q \in Uproc : q # p => page'[q] = page[q] /\ frame'[q] = frame[q] /\ victim'[q] = victim[q]
  BY DEF unlockPool, At, store, Label, Types, LocalTypes
<1>2. pc'[p] = "user" /\ \A q \in Uproc : q # p => pc'[q] = pc[q]
  BY <1>1, PcMoves DEF Types
<1>3. Lock'
  BY <1>1, <1>2, LockPassed DEF Pool
<1>4. \A q \in Uproc : q # p => pc[q] \notin Working \ {"pick"}
  BY <1>1, <1>2, Alone DEF Pool, Working
<1>5. \A q \in Uproc : pc[q] \notin Detached /\ pc'[q] \notin Detached
  BY <1>1, <1>2, <1>4 DEF Detached, Working
<1>6. Owned'
  BY <1>1, <1>5, OwnedSame DEF Pool
<1>7. Done(p)'
  BY <1>2 DEF Done, Working
<1>8. Progress'
  BY <1>1, <1>2, <1>4, <1>7, ProgressOf DEF Pool, Progress, Done, Working
<1>9. Stored'
  BY <1>1, <1>5 DEF Pool, Stored, Latest, Detached
<1> QED BY <1>3, <1>6, <1>8, <1>9 DEF Pool

-----------------------------------------------------------------------------
\* test() and the U-procs outside of the pager.
LEMMA PoolOthers ==
  ASSUME Types, Pool, UNCHANGED <<swapPool, pageTable, store, locals, Queue, Value>>,
         \A q \in Uproc : pc'[q] = pc[q] \/ (pc[q] = "unborn" /\ pc'[q] = "user")
  PROVE  Pool'
<1>1. \A q \in Uproc : pc'[q] = pc[q] \/ (pc[q] \notin Working /\ pc'[q] \notin Working /\ pc'[q] # "wild")
  BY DEF Working
<1>2. Lock'
  <2>1. waiting["swapPoolSem"]' = Queue /\ sem["swapPoolSem"]' = Value
    BY DEF Queue, Value
  <2>2. \A q \in Uproc : pc[q] = "pick" => pc'[q] = "pick"
    BY <1>1 DEF Working
  <2>3. \A q \in Uproc : pc'[q] \in Working <=> pc[q] \in Working
    BY <1>1
  <2> QED BY <2>1, <2>2, <2>3 DEF Pool, Lock, Queue, Value
<1>3. \A q \in Uproc : pc'[q] = pc[q] \/ (pc[q] \notin Detached /\ pc'[q] \notin Detached)
  BY <1>1 DEF Working, Detached
<1>4. Owned'
  BY <1>3, OwnedSame DEF Pool, store, locals
<1>5. Progress'
  <2> SUFFICES ASSUME NEW q \in Uproc PROVE Done(q)'
    BY DEF Progress
  <2>1. CASE pc'[q] = pc[q]
    BY <2>1 DEF Pool, Progress, Done, Entry, Latest, store, locals
  <2>2. CASE pc'[q] \notin Working /\ pc'[q] # "wild"
    BY <2>2 DEF Done, Working
  <2> QED BY <1>1, <2>1, <2>2
<1>6. Stored'
  <2>1. \A q \in Uproc : pc[q] = "writePage" => pc'[q] = "writePage"
    OBVIOUS
  <2> QED BY <2>1 DEF Pool, Stored, Latest, store, locals
<1> QED BY <1>2, <1>4, <1>5, <1>6 DEF Pool

LEMMA PoolTest ==
  ASSUME Types, Pool, waitUproc \/ endTest \/ \E p \in Uproc : createUproc(p)
  PROVE  Pool'
<1>1. Test \notin Uproc /\ pc \in [Uproc \cup {Test} -> Label]
  BY PagingAssumption DEF Types, LocalTypes
<1>2. CASE waitUproc
  <2>1. UNCHANGED <<swapPool, pageTable, store, locals>> /\ \A q \in Uproc : pc'[q] = pc[q]
    BY <1>1, <1>2 DEF waitUproc, Goto
  <2>2. UNCHANGED <<Queue, Value>>
    BY <1>2, SemNames DEF waitUproc, S!P, Queue, Value, Types, LocalTypes
  <2> QED BY <2>1, <2>2, PoolOthers
<1>3. CASE endTest
  <2>1. UNCHANGED <<swapPool, pageTable, store, locals, Queue, Value>> /\ \A q \in Uproc : pc'[q] = pc[q]
    BY <1>1, <1>3 DEF endTest, Goto, sems, Queue, Value
  <2> QED BY <2>1, PoolOthers
<1>4. ASSUME NEW p \in Uproc, createUproc(p) PROVE Pool'
  <2>1. UNCHANGED <<swapPool, pageTable, store, locals, Queue, Value>> /\ pc[p] = "unborn"
    BY <1>4 DEF createUproc, sems, Queue, Value
  <2>2. PICK l : pc' = [pc EXCEPT ![p] = "user", ![Test] = l]
    BY <1>4 DEF createUproc
  <2>3. pc'[p] = "user" /\ \A q \in Uproc : q # p => pc'[q] = pc[q]
    BY <1>1, <2>2
  <2> QED BY <2>1, <2>3, PoolOthers
<1> QED BY <1>2, <1>3, <1>4

\* No step brings an ended U-proc back.
LEMMA PoolNext ==
  ASSUME Types, TlbCoherent, PoolInv, [Next]_vars
  PROVE  PoolInv'
<1> SUFFICES ASSUME AllRun' PROVE Pool'
  BY DEF PoolInv
<1>0. pc \in [Uproc \cup {Test} -> Label] /\ Test \notin Uproc
  BY PagingAssumption DEF Types, LocalTypes
<1>1. CASE UNCHANGED vars \/ Stopped
  <2>1. UNCHANGED vars
    BY <1>1 DEF Stopped
  <2>2. UNCHANGED <<swapPool, pageTable, store, sems, pc, locals>>
    BY <2>1 DEF vars
  <2>3. AllRun
    BY <2>2 DEF AllRun, Running
  <2> QED BY <2>2, <2>3, PoolSame DEF PoolInv
<1>2. CASE waitUproc \/ endTest
  <2>1. \A q \in Uproc : pc'[q] = pc[q]
    BY <1>0, <1>2 DEF waitUproc, endTest, Goto
  <2>2. AllRun
    BY <2>1 DEF AllRun, Running
  <2> QED BY <1>2, <2>2, PoolTest DEF PoolInv
<1>3. ASSUME NEW p \in Uproc, createUproc(p) PROVE Pool'
  <2>1. pc[p] = "unborn" /\ \A q \in Uproc : q # p => pc'[q] = pc[q]
    BY <1>0, <1>3 DEF createUproc
  <2>2. AllRun
    BY <2>1 DEF AllRun, Running
  <2> QED BY <1>3, <2>2, PoolTest DEF PoolInv
<1>4. ASSUME NEW p \in Uproc, pagerHandler(p) PROVE Pool'
  <2>1. pc[p] \in Working /\ \A q \in Uproc : q # p => pc'[q] = pc[q]
    BY <1>0, <1>4 DEF pagerHandler, pickFrame, readVictim, evict, writePage, loadPage, enterFrame, mapPage,
                      unlockPool, At, Goto, Working
  <2>2. AllRun
    BY <2>1 DEF AllRun, Running, Working
  <2>3. Pool
    BY <2>2 DEF PoolInv
  <2> QED BY <1>4, <2>3, PoolPick, PoolReadVictim, PoolEvict, PoolWritePage, PoolLoad, PoolEnter, PoolMap,
             PoolUnlock DEF pagerHandler
<1>5. ASSUME NEW p \in Uproc, supTerminate(p) \/ supportProgTrapHandler(p) \/ terminate(p) PROVE Pool'
  <2>1. pc'[p] \in {"sweep", "free", "exit", "ended"}
    BY <1>0, <1>5 DEF supTerminate, supportProgTrapHandler, terminate, checkFrame, freeFrame, signalMaster, exit,
                      At, Goto
  <2> QED BY <2>1 DEF AllRun, Running
<1>6. ASSUME NEW p \in Uproc, NEW v \in Page, uTLB_RefillHandler(p, v) PROVE Pool'
  <2>1. UNCHANGED <<swapPool, pageTable, store, sems, pc, locals>>
    BY <1>6 DEF uTLB_RefillHandler
  <2>2. AllRun
    BY <2>1 DEF AllRun, Running
  <2> QED BY <2>1, <2>2, PoolSame DEF PoolInv
<1>7. ASSUME NEW p \in Uproc, NEW v \in Page, write(p, v) \/ pageFault(p, v) PROVE Pool'
  <2>1. pc[p] = "user" /\ \A q \in Uproc : q # p => pc'[q] = pc[q]
    BY <1>0, <1>7 DEF write, pageFault, At, Goto
  <2>2. AllRun
    BY <2>1 DEF AllRun, Running
  <2> QED BY <1>7, <2>2, PoolWrite, PoolFault DEF PoolInv
<1> QED BY <1>1, <1>2, <1>3, <1>4, <1>5, <1>6, <1>7 DEF Next

LEMMA TypesNext ==
  ASSUME Types, [Next]_vars
  PROVE  Types'
<1>1. CASE UNCHANGED vars \/ Stopped
  <2>1. UNCHANGED vars
    BY <1>1 DEF Stopped
  <2> QED BY <2>1 DEF Types, TableTypes, StoreTypes, LocalTypes, StepTypes, vars, store, sems, locals
<1>2. ASSUME NEW p \in Uproc, supTerminate(p) \/ supportProgTrapHandler(p) \/ terminate(p) PROVE Types'
  BY <1>2, EndingTypes
<1> QED BY <1>1, <1>2, TestTypes, PagerTypes, UserTypes DEF Next

-----------------------------------------------------------------------------
\* test() and masterSemaphore: a signal for each U-proc that is done.
Signalled   == {p \in Uproc : pc[p] \in {"exit", "ended"}}
Signals     == sem["masterSemaphore"]
MasterQueue == waiting["masterSemaphore"]

Waited ==
  /\ Signals = Cardinality(Signalled) - j
  /\ \/ MasterQueue = <<>> /\ Signals >= 0
     \/ MasterQueue = <<Test>> /\ Signals + 1 = 0
  /\ pc[Test] \in {"end", "halt"} => j = Cardinality(Uproc)
  /\ Halted => MasterQueue = <<>>

LEMMA MasterType ==
  ASSUME Types
  PROVE  /\ Signals \in Int /\ MasterQueue \in Seq(Uproc \cup {Test}) /\ j \in Nat
         /\ IsFiniteSet(Signalled) /\ Cardinality(Signalled) \in Nat /\ Cardinality(Uproc) \in Nat
         /\ Test \notin Uproc /\ pc \in [Uproc \cup {Test} -> Label]
<1>1. IsFiniteSet(Signalled) /\ IsFiniteSet(Uproc)
  BY PagingAssumption, FS_Subset DEF Signalled
<1> QED BY <1>1, SemNames, PagingAssumption, FS_CardinalityType
      DEF Types, LocalTypes, Signals, MasterQueue

LEMMA MasterFree ==
  ASSUME NEW p, S!Free(p)
  PROVE  MasterQueue # <<p>>
<1>1. p \notin Range(MasterQueue)
  BY SemNames DEF S!Free, S!ToSet, Range, MasterQueue
<1>2. Range(<<p>>) = {p}
  <2>1. DOMAIN <<p>> = {1} /\ <<p>>[1] = p
    OBVIOUS
  <2> QED BY <2>1 DEF Range
<1> QED BY <1>1, <1>2

LEMMA WaitedKept ==
  ASSUME Waited, UNCHANGED <<Signals, MasterQueue, j>>, pc'[Test] = pc[Test],
         \A p \in Uproc : pc'[p] \in {"exit", "ended"} <=> pc[p] \in {"exit", "ended"}
  PROVE  Waited'
<1>1. Signalled' = Signalled
  BY DEF Signalled
<1> QED BY <1>1 DEF Waited, Halted

LEMMA WaitedNext ==
  ASSUME Types, Waited, [Next]_vars
  PROVE  Waited'
<1>0. /\ Signals \in Int /\ MasterQueue \in Seq(Uproc \cup {Test}) /\ j \in Nat
      /\ IsFiniteSet(Signalled) /\ Cardinality(Signalled) \in Nat /\ Cardinality(Uproc) \in Nat
      /\ Test \notin Uproc /\ pc \in [Uproc \cup {Test} -> Label]
  BY MasterType
<1>1. CASE UNCHANGED vars \/ Stopped
  <2>1. UNCHANGED vars
    BY <1>1 DEF Stopped
  <2>2. UNCHANGED <<pc, sems, j>>
    BY <2>1 DEF vars
  <2> QED BY <2>2, WaitedKept DEF sems, Signals, MasterQueue
<1>2. ASSUME NEW p \in Uproc,
             \/ createUproc(p) \/ pagerHandler(p) \/ supTerminate(p) \/ supportProgTrapHandler(p)
             \/ checkFrame(p) \/ freeFrame(p) \/ exit(p)
             \/ \E v \in Page : uTLB_RefillHandler(p, v) \/ write(p, v) \/ pageFault(p, v)
      PROVE  Waited'
  <2>1. UNCHANGED <<Signals, MasterQueue, j>>
    <3>1. CASE \E v \in Page : pageFault(p, v)
      BY <3>1 DEF pageFault, S!P, Signals, MasterQueue, Types, LocalTypes, Sem
    <3>2. CASE unlockPool(p)
      BY <3>2 DEF unlockPool, S!V, Signals, MasterQueue, Types, LocalTypes, Sem
    <3>3. CASE supportProgTrapHandler(p)
      BY <3>3 DEF supportProgTrapHandler, S!V, Signals, MasterQueue, Types, LocalTypes, Sem
    <3>4. CASE createUproc(p) \/ supTerminate(p) \/ checkFrame(p) \/ freeFrame(p) \/ exit(p)
               \/ (\E v \in Page : uTLB_RefillHandler(p, v) \/ write(p, v))
      BY <3>4 DEF createUproc, supTerminate, checkFrame, freeFrame, exit, uTLB_RefillHandler, write, sems,
                  Signals, MasterQueue
    <3>5. CASE pickFrame(p) \/ readVictim(p) \/ evict(p) \/ writePage(p) \/ loadPage(p) \/ enterFrame(p)
               \/ mapPage(p)
      BY <3>5 DEF pickFrame, readVictim, evict, writePage, loadPage, enterFrame, mapPage, sems, Signals,
                  MasterQueue
    <3> QED BY <1>2, <3>1, <3>2, <3>3, <3>4, <3>5 DEF pagerHandler
  <2>2. \A q \in Uproc : q # p => pc'[q] = pc[q]
    BY <1>0, <1>2 DEF createUproc, pagerHandler, pickFrame, readVictim, evict, writePage, loadPage, enterFrame,
                      mapPage, unlockPool, supTerminate, supportProgTrapHandler, checkFrame, freeFrame, exit,
                      uTLB_RefillHandler, write, pageFault, Goto
  <2>3. pc'[p] \in {"exit", "ended"} <=> pc[p] \in {"exit", "ended"}
    <3>1. CASE pagerHandler(p)
      BY <1>0, <3>1 DEF pagerHandler, pickFrame, readVictim, evict, writePage, loadPage, enterFrame,
                        mapPage, unlockPool, At, Goto
    <3>2. CASE ~pagerHandler(p)
      BY <1>0, <1>2, <3>2 DEF createUproc, supTerminate, supportProgTrapHandler, checkFrame, freeFrame, exit,
                        uTLB_RefillHandler, write, pageFault, At, Goto
    <3> QED BY <3>1, <3>2
  <2>4. CASE ~createUproc(p)
    <3>1. pc'[Test] = pc[Test]
      BY <1>0, <1>2, <2>4 DEF pagerHandler, pickFrame, readVictim, evict, writePage, loadPage, enterFrame,
                      mapPage, unlockPool, supTerminate, supportProgTrapHandler, checkFrame, freeFrame, exit,
                      uTLB_RefillHandler, write, pageFault, Goto
    <3> QED BY <2>1, <2>2, <2>3, <3>1, WaitedKept
  <2>5. CASE createUproc(p)
    <3>1. pc[Test] = "test" /\ pc'[Test] \in {"test", "wait"}
      BY <1>0, <2>5 DEF createUproc, At
    <3>2. Signalled' = Signalled
      BY <2>2, <2>3 DEF Signalled
    <3> QED BY <2>1, <3>1, <3>2 DEF Waited, Halted
  <2> QED BY <2>4, <2>5
<1>3. ASSUME NEW p \in Uproc, signalMaster(p) PROVE Waited'
  <2>1. /\ pc[p] = "sweep" /\ ~Halted /\ S!V("masterSemaphore") /\ Goto(p, "exit") /\ j' = j
    BY <1>3 DEF signalMaster, At
  <2>2. pc'[p] = "exit" /\ \A q \in Uproc \cup {Test} : q # p => pc'[q] = pc[q]
    BY <1>0, <2>1 DEF Goto
  <2>3. Signalled' = Signalled \cup {p} /\ p \notin Signalled
    BY <2>1, <2>2 DEF Signalled
  <2>4. Cardinality(Signalled') = Cardinality(Signalled) + 1
    BY <1>0, <2>3, FS_AddElement
  <2>5. Signals' = Signals + 1 /\ MasterQueue' = IF MasterQueue = <<>> THEN MasterQueue ELSE Tail(MasterQueue)
    BY <2>1, SemNames DEF S!V, Signals, MasterQueue, Types, LocalTypes
  <2>6. MasterQueue' = <<>> /\ Signals' >= 0
    <3>1. CASE MasterQueue = <<>> /\ Signals >= 0
      BY <1>0, <2>5, <3>1
    <3>2. CASE MasterQueue = <<Test>> /\ Signals + 1 = 0
      <4>1. Tail(<<Test>>) = <<>> /\ <<Test>> # <<>>
        OBVIOUS
      <4> QED BY <2>5, <3>2, <4>1
    <3> QED BY <3>1, <3>2 DEF Waited
  <2>7. pc'[Test] = pc[Test]
    BY <1>0, <2>2
  <2>8. Signals' = Cardinality(Signalled') - j
    BY <1>0, <2>4, <2>5 DEF Waited
  <2> QED BY <2>1, <2>6, <2>7, <2>8 DEF Waited, Halted
<1>4. CASE waitUproc
  <2>1. /\ pc[Test] = "wait" /\ S!P("masterSemaphore", Test) /\ j' = j + 1 /\ ~Halted
        /\ Goto(Test, IF j + 1 = Cardinality(Uproc) THEN "end" ELSE "wait")
    BY <1>4 DEF waitUproc, At
  <2>2. /\ pc'[Test] \in {"end", "wait"} /\ \A q \in Uproc : pc'[q] = pc[q]
        /\ pc'[Test] = "end" => j' = Cardinality(Uproc)
    BY <1>0, <2>1 DEF Goto
  <2>3. Signalled' = Signalled
    BY <2>2 DEF Signalled
  <2>4. S!Free(Test)
    BY <2>1 DEF S!P
  <2>5. MasterQueue = <<>> /\ Signals >= 0
    BY <2>4, MasterFree DEF Waited
  <2>6. Signals' = Signals - 1
        /\ MasterQueue' = IF Signals > 0 THEN MasterQueue ELSE Append(MasterQueue, Test)
    BY <2>1, SemNames DEF S!P, Signals, MasterQueue, Types, LocalTypes
  <2>7. \/ MasterQueue' = <<>> /\ Signals' >= 0
        \/ MasterQueue' = <<Test>> /\ Signals' + 1 = 0
    <3>1. Append(<<>>, Test) = <<Test>>
      OBVIOUS
    <3>2. CASE Signals > 0
      BY <1>0, <2>5, <2>6, <3>2
    <3>3. CASE Signals = 0
      BY <1>0, <2>5, <2>6, <3>1, <3>3
    <3> QED BY <1>0, <2>5, <3>2, <3>3
  <2>8. Signals' = Cardinality(Signalled) - j'
    BY <1>0, <2>1, <2>6 DEF Waited
  <2> QED BY <2>2, <2>3, <2>7, <2>8 DEF Waited, Halted
<1>5. CASE endTest
  <2>1. pc[Test] = "end" /\ S!Free(Test) /\ Goto(Test, "halt") /\ UNCHANGED <<sems, j>>
    BY <1>5 DEF endTest, At
  <2>2. pc'[Test] = "halt" /\ \A q \in Uproc : pc'[q] = pc[q]
    BY <1>0, <2>1 DEF Goto
  <2>3. MasterQueue = <<>> /\ UNCHANGED <<Signals, MasterQueue, j>>
    BY <2>1, MasterFree DEF Waited, sems, Signals, MasterQueue
  <2>4. Signalled' = Signalled
    BY <2>2 DEF Signalled
  <2> QED BY <2>1, <2>2, <2>3, <2>4 DEF Waited, Halted
<1> QED BY <1>1, <1>2, <1>3, <1>4, <1>5 DEF Next, terminate

LEMMA WaitedInit == Init => Waited
<1> SUFFICES ASSUME Init PROVE Waited
  OBVIOUS
<1>1. Signalled = {} /\ pc[Test] = "test"
  BY PagingAssumption DEF Init, Signalled
<1>2. Signals = 0 /\ MasterQueue = <<>> /\ j = 0
  BY SemNames DEF Init, Signals, MasterQueue
<1> QED BY <1>1, <1>2, FS_EmptySet DEF Waited, Halted

-----------------------------------------------------------------------------
\* The inductive invariant of the swap pool.
THEOREM PagingInvariant == Spec => []PInv
<1>1. Init => PInv
  <2> SUFFICES ASSUME Init PROVE PInv
    OBVIOUS
  <2>1. TlbCoherent
    BY DEF Init, TlbCoherent
  <2> QED BY <2>1, InitTypes, PoolInit DEF PInv, PoolInv
<1>2. PInv /\ [Next]_vars => PInv'
  BY TypesNext, Coherent, PoolNext DEF PInv
<1> QED BY <1>1, <1>2, PTL DEF Spec

\* The tables hold what their types say; getFreeFrame and pickVictimFrame
\* return frames of the pool.
THEOREM PagingTypes == Spec => []TypeOK
<1>1. PInv => TypeOK
  BY TypesTypeOK DEF PInv
<1> QED BY <1>1, PagingInvariant, PTL

\* The TLB never keeps a translation that the page table has lost, whatever
\* ends or traps: evict and mapPage repair it with interrupts off.
THEOREM TlbStaysCoherent == Spec => []TlbCoherent
<1>1. PInv => TlbCoherent
  BY DEF PInv
<1> QED BY <1>1, PagingInvariant, PTL

\* Until a U-proc ends, a valid page table entry leads to a frame that is that
\* page's alone and that has all its writes.
THEOREM PagesStayIsolated == Spec => []PageIsolation
<1>1. PInv => PageIsolation
  <2> SUFFICES ASSUME PInv, AllRun PROVE ~Lost /\ \A p \in Uproc : Isolated(p)
    BY DEF PageIsolation, AllRun
  <2>1. Pool
    BY DEF PInv, PoolInv
  <2>2. ~Lost
    BY <2>1 DEF Pool, Progress, Done, Lost
  <2>3. \A p \in Uproc : Isolated(p)
    BY <2>1 DEF Pool, Owned, PagesOwned, Isolated, Entry, Latest
  <2> QED BY <2>2, <2>3
<1> QED BY <1>1, PagingInvariant, PTL

\* Until a U-proc ends, a page that is not resident is whole in its backing
\* store or on its way there.
THEOREM NoPageIsLost == Spec => []NoLostPage
<1>1. PInv => NoLostPage
  <2> SUFFICES ASSUME PInv, AllRun PROVE Stored
    BY DEF NoLostPage, AllRun, Stored, Latest
  <2> QED BY DEF PInv, PoolInv, Pool
<1> QED BY <1>1, PagingInvariant, PTL

\* test() does not end the machine under a U-proc that still has frames: its P's
\* and the V's of supTerminate are counted, whoever ends first.
THEOREM NoEarlyHaltHolds == Spec => []NoEarlyHalt
<1>1. Init => Types /\ Waited
  BY InitTypes, WaitedInit
<1>2. Types /\ Waited /\ [Next]_vars => (Types /\ Waited)'
  BY TypesNext, WaitedNext
<1>3. Types /\ Waited => NoEarlyHalt
  <2> SUFFICES ASSUME Types, Waited, Halted PROVE Signalled = Uproc
    BY DEF NoEarlyHalt, Signalled
  <2>1. /\ Cardinality(Signalled) \in Nat /\ Cardinality(Uproc) \in Nat /\ IsFiniteSet(Uproc) /\ Signals \in Int
    BY MasterType, PagingAssumption
  <2>2. MasterQueue = <<>> /\ j = Cardinality(Uproc)
    BY DEF Waited, Halted
  <2>3. <<>> # <<Test>>
    OBVIOUS
  <2>4. Signals >= 0 /\ Signals = Cardinality(Signalled) - j
    BY <2>2, <2>3 DEF Waited
  <2>5. Cardinality(Signalled) <= Cardinality(Uproc) /\ (Cardinality(Uproc) = Cardinality(Signalled) => Uproc = Signalled)
    BY <2>1, FS_Subset DEF Signalled
  <2> QED BY <2>1, <2>2, <2>4, <2>5
<1> QED BY <1>1, <1>2, <1>3, PTL DEF Spec
=============================================================================
