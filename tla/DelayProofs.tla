---------------------------- MODULE DelayProofs -----------------------------
(***************************************************************************)
(* Proofs about module Delay, for any number of U-procs and descriptors,   *)
(* any delays asked for and any clock: the lists of descriptors, the lock  *)
(* around them, one V for one P, and the alarm clock that it implements.   *)
(***************************************************************************)
EXTENDS Delay, ListLemmas

UprocLabel  == {"user", "ended", "alloc", "insert", "unlock", "sleep", "resume"}
DaemonLabel == {"waitclock", "lock", "read", "loop", "unlink"}
Label       == UprocLabel \cup DaemonLabel
Client      == Uproc \cup {Daemon}
InSection(p) ==
  pc[p] \in IF p = Daemon THEN {"read", "loop", "unlink"} ELSE {"alloc", "insert", "unlock"}

Holder(p) == InSection(p) /\ p \notin ToSet(waiting["ADLsem"])

LocalTypes ==
  /\ sem \in [Uproc \cup {"ADLsem"} -> Int]
  /\ waiting \in [Uproc \cup {"ADLsem"} -> Seq(Uproc \cup {Daemon})]
  /\ pc \in [Uproc \cup {Daemon} -> Label]
  /\ \A p \in Uproc : pc[p] \in UprocLabel
  /\ pc[Daemon] \in DaemonLabel
  /\ secCnt \in [Uproc -> Nat] /\ due \in [Uproc -> Nat]
  /\ currTime <= tod

LockInv ==
  LET queue == waiting["ADLsem"] IN
  /\ IsInjective(queue)
  /\ \A p \in ToSet(queue) : pc[p] = IF p = Daemon THEN "read" ELSE "alloc"
  /\ \/ /\ sem["ADLsem"] = 1 /\ queue = <<>>
        /\ \A p \in Uproc \cup {Daemon} : ~Holder(p)
     \/ /\ sem["ADLsem"] + Len(queue) = 0
        /\ \E h \in Uproc \cup {Daemon} : Holder(h)
        /\ \A p, q \in Uproc \cup {Daemon} : Holder(p) /\ Holder(q) => p = q

InHand == {node[p] : p \in {q \in Uproc : pc[q] = "insert"}}

ListInv ==
  /\ IsList(ADL, delayd_h, d_next, NULL) /\ IsList(Idle, delaydFree_h, d_next, NULL)
  /\ ToSet(ADL) \cap ToSet(Idle) = {}
  /\ InHand \cap (ToSet(ADL) \cup ToSet(Idle)) = {}
  /\ ToSet(ADL) \cup ToSet(Idle) \cup InHand = Node
  /\ ADL # <<>> /\ ADL[Len(ADL)] = Dummy
  /\ \A i \in 1 .. Len(ADL) - 1 : d_wakeTime[ADL[i]] <= d_wakeTime[ADL[i+1]]
  /\ d_wakeTime[Dummy] = MAXINT

Delayed == ToSet(ADL) \ {Dummy}

OwnerInv ==
  /\ \A n \in Delayed : d_supStruct[n] \in Uproc
  /\ \A n, m \in Delayed : d_supStruct[n] = d_supStruct[m] => n = m
  /\ d_supStruct[Dummy] = NULL
  /\ \A p \in Uproc : pc[p] = "insert" => node[p] \in Node /\ d_supStruct[node[p]] = p

CurrInv ==
  /\ pc[Daemon] \in {"loop", "unlink"} => curr = delayd_h
  /\ pc[Daemon] = "unlink" => curr # Dummy

WakeOf(p) ==
  /\ waiting[p] = IF sem[p] = -1 THEN <<p>> ELSE <<>>
  /\ Pending(p) => \/ pc[p] \in {"unlock", "sleep"} /\ sem[p] = 0
                   \/ pc[p] = "resume" /\ sem[p] = -1
  /\ ~Pending(p) => sem[p] = IF pc[p] \in {"unlock", "sleep"} THEN 1 ELSE 0

WakeInv == \A p \in Uproc : WakeOf(p)

NoOverflow == \A n \in Secs : n * SECOND + LastCall <= MAXINT

TimeOf(p) ==
  /\ pc[p] = "alloc" => tod <= LastCall /\ secCnt[p] \in Secs
  /\ pc[p] = "insert" => d_wakeTime[node[p]] = due[p]
  /\ \A n \in Delayed : d_supStruct[n] = p /\ Pending(p) => d_wakeTime[n] = due[p]
  /\ ~Pending(p) /\ pc[p] \in {"unlock", "sleep", "resume"} => due[p] <= tod

TimeInv == \A p \in Uproc : TimeOf(p)

DInv == TypeOK /\ LocalTypes /\ LockInv /\ ListInv /\ OwnerInv /\ CurrInv /\ WakeInv

-----------------------------------------------------------------------------
LEMMA Nodes ==
  /\ IsFiniteSet(Node) /\ NULL \notin Node /\ Node \subseteq Nat /\ Dummy \in Node
  /\ Cardinality(Node) = DELAY_LIST_SIZE /\ Dummy \in Nat
<1>1. Cardinality(Uproc) \in Nat
  BY DelayAssumption, FS_CardinalityType
<1>2. DELAY_LIST_SIZE \in Nat \ {0} /\ Dummy \in Nat
  BY <1>1, DelayAssumption DEF Dummy
<1>3. IsFiniteSet(0 .. Dummy) /\ Cardinality(0 .. Dummy) = DELAY_LIST_SIZE
  BY <1>2, FS_Interval DEF Dummy
<1> QED BY <1>2, <1>3, DelayAssumption DEF Node

\* A value is wrapped into an int, and one that fits is not changed.
LEMMA WrapInt ==
  /\ \A n \in Int : Wrap(n) \in -MAXINT - 1 .. MAXINT
  /\ \A n \in 0 .. MAXINT : Wrap(n) = n
<1>1. MAXINT \in Nat
  BY DelayAssumption
<1> DEFINE m == 2 * (MAXINT + 1)
<1>2. m \in Nat \ {0} /\ m = 2 * MAXINT + 2
  BY <1>1
<1> HIDE DEF m
<1>3. \A k \in Int : k % m \in 0 .. m - 1
  BY <1>2
<1>4. \A k \in 0 .. m - 1 : k % m = k
  BY <1>2
<1>5. ASSUME NEW n \in Int PROVE Wrap(n) \in -MAXINT - 1 .. MAXINT
  <2>1. (n + MAXINT + 1) % m \in 0 .. m - 1
    BY <1>1, <1>3
  <2>2. Wrap(n) = ((n + MAXINT + 1) % m) - (MAXINT + 1)
    BY DEF Wrap, m
  <2> QED BY <1>1, <1>2, <2>1, <2>2
<1>6. ASSUME NEW n \in 0 .. MAXINT PROVE Wrap(n) = n
  <2>1. n + MAXINT + 1 \in 0 .. m - 1
    BY <1>1, <1>2
  <2>2. (n + MAXINT + 1) % m = n + MAXINT + 1
    BY <1>4, <2>1
  <2>3. Wrap(n) = ((n + MAXINT + 1) % m) - (MAXINT + 1)
    BY DEF Wrap, m
  <2> QED BY <1>1, <2>2, <2>3
<1> QED BY <1>5, <1>6

-----------------------------------------------------------------------------
Semaphore == Uproc \cup {"ADLsem"}

LEMMA FreeIs ==
  ASSUME NEW p \in Client
  PROVE  S!Free(p) <=> \A t \in Semaphore : p \notin ToSet(waiting[t])
  BY DEF S!Free, S!ToSet, ToSet, Semaphore, Client

\* A P, and a V.
LEMMA DoP ==
  ASSUME LocalTypes, NEW s \in Semaphore, NEW p \in Client, S!P(s, p)
  PROVE  /\ sem' \in [Semaphore -> Int] /\ waiting' \in [Semaphore -> Seq(Client)]
         /\ \A t \in Semaphore : p \notin ToSet(waiting[t])
         /\ sem'[s] = sem[s] - 1
         /\ waiting'[s] = IF sem[s] > 0 THEN waiting[s] ELSE Append(waiting[s], p)
         /\ \A t \in Semaphore : t # s => sem'[t] = sem[t] /\ waiting'[t] = waiting[t]
<1>1. Append(waiting[s], p) \in Seq(Client)
  BY AppendProperties DEF LocalTypes, Semaphore, Client
<1>2. /\ sem' = [sem EXCEPT ![s] = @ - 1]
      /\ waiting' = [waiting EXCEPT ![s] = IF sem[s] > 0 THEN @ ELSE Append(@, p)]
  BY DEF S!P
<1>3. \A t \in Semaphore : p \notin ToSet(waiting[t])
  BY FreeIs DEF S!P
<1> QED BY <1>1, <1>2, <1>3 DEF LocalTypes, Semaphore, Client

LEMMA DoV ==
  ASSUME LocalTypes, NEW s \in Semaphore, S!V(s)
  PROVE  /\ sem' \in [Semaphore -> Int] /\ waiting' \in [Semaphore -> Seq(Client)]
         /\ sem'[s] = sem[s] + 1
         /\ waiting'[s] = IF waiting[s] = <<>> THEN <<>> ELSE Tail(waiting[s])
         /\ \A t \in Semaphore : t # s => sem'[t] = sem[t] /\ waiting'[t] = waiting[t]
<1>1. \A q \in Seq(Client) : q # <<>> => Tail(q) \in Seq(Client)
  BY HeadTailProperties
<1> QED BY <1>1 DEF LocalTypes, S!V, Semaphore, Client

LEMMA DoGoto ==
  ASSUME LocalTypes, NEW p \in Client, NEW l \in Label, Goto(p, l),
         p = Daemon => l \in DaemonLabel, p # Daemon => l \in UprocLabel
  PROVE  /\ pc' \in [Client -> Label] /\ pc'[p] = l
         /\ \A q \in Client : q # p => pc'[q] = pc[q]
         /\ \A q \in Uproc : pc'[q] \in UprocLabel
         /\ pc'[Daemon] \in DaemonLabel
  BY DelayAssumption DEF LocalTypes, Goto, Client

\* A process waits for the lock where it asked for it, and on its own semaphore
\* where it sleeps: elsewhere it runs.
LEMMA FreeLock ==
  ASSUME LocalTypes, LockInv, WakeInv, NEW p \in Client
  PROVE  /\ p \in ToSet(waiting["ADLsem"]) =>
              pc[p] = (IF p = Daemon THEN "read" ELSE "alloc") /\ ~S!Free(p)
         /\ \A q \in Uproc : p \in ToSet(waiting[q]) =>
              p = q /\ sem[q] = -1 /\ pc[p] = "resume" /\ ~S!Free(p)
         /\ p = Daemon \/ pc[p] # "resume" =>
              (S!Free(p) <=> p \notin ToSet(waiting["ADLsem"]))
         /\ p # Daemon /\ pc[p] = "resume" => (S!Free(p) <=> sem[p] # -1)
<1>1. \A q \in Uproc : p \in ToSet(waiting[q]) => p = q /\ sem[q] = -1 /\ pc[p] = "resume"
  <2> SUFFICES ASSUME NEW q \in Uproc, p \in ToSet(waiting[q])
               PROVE  p = q /\ sem[q] = -1 /\ pc[p] = "resume"
    OBVIOUS
  <2>1. waiting[q] = IF sem[q] = -1 THEN <<q>> ELSE <<>>
    BY DEF WakeInv, WakeOf
  <2>2. ToSet(<<>>) = {} /\ ToSet(<<q>>) = {q}
    BY DEF ToSet
  <2>3. sem[q] = -1 /\ p = q
    BY <2>1, <2>2
  <2>4. pc[q] = "resume"
    <3>1. CASE Pending(q)
      <4>1. \/ pc[q] \in {"unlock", "sleep"} /\ sem[q] = 0
            \/ pc[q] = "resume" /\ sem[q] = -1
        BY <3>1 DEF WakeInv, WakeOf
      <4> QED BY <4>1, <2>3
    <3>2. CASE ~Pending(q)
      <4>1. sem[q] = IF pc[q] \in {"unlock", "sleep"} THEN 1 ELSE 0
        BY <3>2 DEF WakeInv, WakeOf
      <4> QED BY <4>1, <2>3
    <3> QED BY <3>1, <3>2
  <2> QED BY <2>3, <2>4
<1>2. \A q \in Uproc : sem[q] = -1 => q \in ToSet(waiting[q])
  <2> SUFFICES ASSUME NEW q \in Uproc, sem[q] = -1 PROVE q \in ToSet(waiting[q])
    OBVIOUS
  <2>1. waiting[q] = <<q>>
    BY DEF WakeInv, WakeOf
  <2> QED BY <2>1 DEF ToSet
<1>3. p \in ToSet(waiting["ADLsem"]) => pc[p] = (IF p = Daemon THEN "read" ELSE "alloc")
  BY DEF LockInv
<1>4. S!Free(p) <=> \A t \in Uproc \cup {"ADLsem"} : p \notin ToSet(waiting[t])
  BY FreeIs DEF Semaphore
<1>5. p # Daemon => p \in Uproc
  BY DEF Client
<1>6. pc[Daemon] # "resume"
  BY DEF LocalTypes, DaemonLabel
<1> QED BY <1>1, <1>2, <1>3, <1>4, <1>5, <1>6

\* The lock is asked for.
LEMMA LockP ==
  ASSUME LocalTypes, LockInv, NEW p \in Client, S!P("ADLsem", p),
         ~InSection(p), Goto(p, IF p = Daemon THEN "read" ELSE "alloc")
  PROVE  LockInv'
<1> DEFINE q == waiting["ADLsem"]
<1>1. /\ q \in Seq(Client) /\ p \notin ToSet(q) /\ sem'["ADLsem"] = sem["ADLsem"] - 1
      /\ waiting'["ADLsem"] = IF sem["ADLsem"] > 0 THEN q ELSE Append(q, p)
      /\ sem["ADLsem"] \in Int /\ Len(q) \in Nat
  BY DoP, LenProperties DEF Semaphore, LocalTypes, Client
<1>2. /\ pc'[p] = IF p = Daemon THEN "read" ELSE "alloc"
      /\ \A r \in Client : r # p => pc'[r] = pc[r]
  BY DoGoto DEF Label, UprocLabel, DaemonLabel
<1>3. InSection(p)' /\ \A r \in Client : r # p => (InSection(r)' <=> InSection(r))
  BY <1>2 DEF InSection, Client
<1>4. CASE sem["ADLsem"] = 1 /\ q = <<>> /\ \A r \in Client : ~Holder(r)
  <2>1. waiting'["ADLsem"] = <<>> /\ sem'["ADLsem"] = 0
    BY <1>1, <1>4
  <2>2. ToSet(<<>>) = {} /\ Len(<<>>) = 0 /\ IsInjective(<<>>)
    BY DEF ToSet, IsInjective
  <2>3. \A r \in Client : Holder(r)' <=> r = p
    BY <1>3, <1>4, <2>1, <2>2 DEF Holder
  <2>4. sem'["ADLsem"] + Len(waiting["ADLsem"]') = 0
    BY <2>1, <2>2
  <2>5. \E h \in Client : Holder(h)'
    BY <2>3, p \in Client
  <2>6. \A r, t \in Client : Holder(r)' /\ Holder(t)' => r = t
    BY <2>3
  <2> QED BY <2>1, <2>2, <2>4, <2>5, <2>6 DEF LockInv, Client
<1>5. CASE /\ sem["ADLsem"] + Len(q) = 0
           /\ \E h \in Client : Holder(h)
           /\ \A r, t \in Client : Holder(r) /\ Holder(t) => r = t
  <2>1. waiting'["ADLsem"] = Append(q, p) /\ sem'["ADLsem"] + Len(q) + 1 = 0
    BY <1>1, <1>5
  <2>2. /\ IsInjective(waiting["ADLsem"]')
        /\ ToSet(waiting["ADLsem"]') = ToSet(q) \cup {p} /\ Len(waiting["ADLsem"]') = Len(q) + 1
    BY <1>1, <2>1, AppendMember DEF LockInv
  <2>3. \A r \in Client : Holder(r)' <=> Holder(r)
    BY <1>3, <2>2 DEF Holder
  <2>4. \A r \in ToSet(waiting["ADLsem"]') : pc'[r] = IF r = Daemon THEN "read" ELSE "alloc"
    <3>1. ToSet(q) \subseteq Client
      BY <1>1, LenProperties, ElementOfSeq DEF ToSet
    <3>2. \A r \in ToSet(q) : pc[r] = IF r = Daemon THEN "read" ELSE "alloc"
      BY DEF LockInv
    <3> QED BY <1>2, <2>2, <3>1, <3>2
  <2>5. sem'["ADLsem"] + Len(waiting["ADLsem"]') = 0
    BY <1>1, <2>1, <2>2
  <2>6. /\ \E h \in Client : Holder(h)'
        /\ \A r, t \in Client : Holder(r)' /\ Holder(t)' => r = t
    BY <1>5, <2>3
  <2> QED BY <2>2, <2>4, <2>5, <2>6 DEF LockInv, Client
<1> QED BY <1>4, <1>5 DEF LockInv, Client

\* The lock is released: the first that waits for it has it.
LEMMA LockV ==
  ASSUME LocalTypes, LockInv, NEW p \in Client, Holder(p), S!V("ADLsem"),
         NEW l \in Label, Goto(p, l), ~InSection(p)',
         p = Daemon => l \in DaemonLabel, p # Daemon => l \in UprocLabel
  PROVE  LockInv'
<1> DEFINE q == waiting["ADLsem"]
<1>1. /\ q \in Seq(Client) /\ sem'["ADLsem"] = sem["ADLsem"] + 1
      /\ waiting'["ADLsem"] = IF q = <<>> THEN <<>> ELSE Tail(q)
      /\ sem["ADLsem"] \in Int /\ Len(q) \in Nat /\ (q = <<>> <=> Len(q) = 0)
      /\ ToSet(q) \subseteq Client
  BY DoV, LenProperties, EmptySeq, ElementOfSeq DEF Semaphore, LocalTypes, Client, ToSet
<1>2. \A r \in Client : r # p => pc'[r] = pc[r]
  BY DoGoto
<1>3. \A r \in Client : r # p => (InSection(r)' <=> InSection(r))
  BY <1>2 DEF InSection, Client
<1>4. /\ p \notin ToSet(q) /\ IsInjective(q) /\ sem["ADLsem"] + Len(q) = 0
      /\ \A r \in Client : r # p => ~Holder(r)
      /\ \A r \in ToSet(q) : pc[r] = IF r = Daemon THEN "read" ELSE "alloc"
  BY DEF LockInv, Holder, Client
<1>5. CASE q = <<>>
  <2>1. waiting'["ADLsem"] = <<>> /\ sem'["ADLsem"] = 1
    BY <1>1, <1>4, <1>5
  <2>2. ToSet(<<>>) = {} /\ IsInjective(<<>>)
    BY DEF ToSet, IsInjective
  <2>3. \A r \in Client : ~Holder(r)'
    BY <1>3, <1>4, <1>5, <2>1, <2>2 DEF Holder
  <2> QED BY <2>1, <2>2, <2>3 DEF LockInv, Client
<1>6. CASE q # <<>>
  <2>1. /\ Head(q) \in ToSet(q) /\ IsInjective(Tail(q)) /\ Len(Tail(q)) = Len(q) - 1
        /\ ToSet(Tail(q)) = ToSet(q) \ {Head(q)}
    BY <1>1, <1>4, <1>6, TailMember
  <2>2. waiting["ADLsem"]' = Tail(q) /\ sem'["ADLsem"] + Len(q) - 1 = 0
    BY <1>1, <1>4, <1>6
  <2>3. InSection(Head(q))
    BY <1>1, <1>4, <2>1 DEF InSection
  <2>4. \A r \in Client : Holder(r)' <=> r = Head(q)
    <3> TAKE r \in Client
    <3>1. CASE r = p
      BY <3>1, <1>4, <2>1 DEF Holder
    <3>2. CASE r # p
      <4>1. Holder(r)' <=> InSection(r) /\ r \notin ToSet(q) \ {Head(q)}
        BY <3>2, <1>3, <2>1, <2>2 DEF Holder
      <4>2. r \notin ToSet(q) => ~InSection(r)
        BY <3>2, <1>4 DEF Holder
      <4> QED BY <4>1, <4>2, <2>1, <2>3
    <3> QED BY <3>1, <3>2
  <2>5. \A r \in ToSet(waiting["ADLsem"]') : pc'[r] = IF r = Daemon THEN "read" ELSE "alloc"
    BY <1>1, <1>2, <1>4, <2>1, <2>2
  <2>6. IsInjective(waiting["ADLsem"]') /\ sem'["ADLsem"] + Len(waiting["ADLsem"]') = 0
    BY <2>1, <2>2
  <2>7. /\ \E h \in Client : Holder(h)'
        /\ \A r, t \in Client : Holder(r)' /\ Holder(t)' => r = t
    BY <1>1, <2>1, <2>4
  <2> QED BY <2>5, <2>6, <2>7 DEF LockInv, Client
<1> QED BY <1>5, <1>6

\* A step that leaves the lock alone.
LEMMA LockSame ==
  ASSUME LocalTypes, LockInv, sem'["ADLsem"] = sem["ADLsem"],
         waiting'["ADLsem"] = waiting["ADLsem"],
         \A r \in Client : InSection(r)' <=> InSection(r),
         \A r \in Client : r \in ToSet(waiting["ADLsem"]) => pc'[r] = pc[r]
  PROVE  LockInv'
<1>1. ToSet(waiting["ADLsem"]) \subseteq Client
  BY LenProperties, ElementOfSeq DEF LocalTypes, Client, ToSet
<1>2. \A r \in Client : Holder(r)' <=> Holder(r)
  BY DEF Holder
<1>3. \A r \in ToSet(waiting["ADLsem"]') : pc'[r] = IF r = Daemon THEN "read" ELSE "alloc"
  BY <1>1 DEF LockInv
<1> QED BY <1>2, <1>3 DEF LockInv, Client

\* The one process in the critical section.
LEMMA Alone ==
  ASSUME LocalTypes, LockInv, WakeInv, NEW p \in Client, InSection(p),
         pc[p] \in {"alloc", "read"} => S!Free(p)
  PROVE  /\ Holder(p) /\ \A q \in Client : q # p => ~Holder(q)
         /\ \A q \in Client : q # p => pc[q] \notin {"insert", "unlock", "loop", "unlink"}
<1>1. \A q \in Client : /\ InSection(q)
                        /\ pc[q] \in {"insert", "unlock", "loop", "unlink"} \/ S!Free(q)
                        => Holder(q)
  BY FreeLock DEF Holder
<1>2. Holder(p)
  BY <1>1 DEF InSection
<1>3. \A q \in Client : q # p => ~Holder(q)
  BY <1>2 DEF LockInv, Client
<1>4. \A q \in Client : pc[q] \in {"insert", "unlock", "loop", "unlink"} => InSection(q)
  BY DEF InSection, LocalTypes, UprocLabel, DaemonLabel, Client
<1> QED BY <1>1, <1>2, <1>3, <1>4

\* A step that leaves the lists alone.
LEMMA ListsSame ==
  ASSUME ListInv, OwnerInv, UNCHANGED <<adl, node>>,
         \A q \in Uproc : pc'[q] = "insert" <=> pc[q] = "insert"
  PROVE  /\ ListInv' /\ OwnerInv' /\ ADL' = ADL /\ Idle' = Idle /\ Delayed' = Delayed
<1>1. ADL' = ADL /\ Idle' = Idle /\ Delayed' = Delayed
  BY DEF ADL, Idle, Delayed, adl
<1>2. InHand' = InHand
  BY DEF InHand
<1>3. ListInv'
  BY <1>1, <1>2 DEF ListInv, adl
<1>4. OwnerInv'
  BY <1>1 DEF OwnerInv, adl
<1> QED BY <1>1, <1>3, <1>4

\* A step that leaves a U-proc's semaphore alone.
LEMMA WakeSame ==
  ASSUME NEW p \in Uproc, WakeOf(p), sem'[p] = sem[p], waiting'[p] = waiting[p],
         Pending(p)' <=> Pending(p),
         pc'[p] \in {"unlock", "sleep"} <=> pc[p] \in {"unlock", "sleep"},
         pc'[p] = "resume" <=> pc[p] = "resume"
  PROVE  WakeOf(p)'
  BY DEF WakeOf

LEMMA PendingSame ==
  ASSUME ADL' = ADL, d_supStruct' = d_supStruct, curr' = curr,
         pc'[Daemon] = "unlink" <=> pc[Daemon] = "unlink"
  PROVE  \A p : Pending(p)' <=> Pending(p)
  BY DEF Pending

-----------------------------------------------------------------------------
LEMMA SupDelayStep ==
  ASSUME DInv, NEW p \in Uproc, supDelay(p)
  PROVE  DInv'
<1>1. pc[p] = "user" /\ S!Free(p) /\ p \in Client /\ p # Daemon /\ "ADLsem" \in Semaphore
      /\ "ADLsem" \notin Uproc
  BY DelayAssumption DEF supDelay, At, Client, Semaphore
<1>2. PICK n \in Secs :
       \/ n < 0 /\ Goto(p, "ended") /\ UNCHANGED <<sems, secCnt>>
       \/ n >= 0 /\ S!P("ADLsem", p) /\ secCnt' = [secCnt EXCEPT ![p] = n] /\ Goto(p, "alloc")
  BY DEF supDelay
<1>3. UNCHANGED <<tod, adl, node, due, currTime, curr>>
  BY DEF supDelay
<1>4. /\ pc' \in [Client -> Label] /\ pc'[p] \in {"ended", "alloc"}
      /\ \A q \in Client : q # p => pc'[q] = pc[q]
      /\ \A q \in Uproc : pc'[q] \in UprocLabel
      /\ pc'[Daemon] \in DaemonLabel
  BY <1>1, <1>2, DoGoto DEF DInv, Label, UprocLabel, DaemonLabel
<1>5. pc'[Daemon] = pc[Daemon]
  BY <1>1, <1>4 DEF Client
<1>6. TypeOK'
  BY <1>3 DEF DInv, TypeOK, adl
<1>7. LocalTypes' /\ \A q \in Uproc : sem'[q] = sem[q] /\ waiting'[q] = waiting[q]
  <2>1. CASE UNCHANGED <<sems, secCnt>>
    BY <1>3, <1>4, <2>1 DEF DInv, LocalTypes, sems, Client
  <2>2. CASE n >= 0 /\ S!P("ADLsem", p) /\ secCnt' = [secCnt EXCEPT ![p] = n]
    <3>1. secCnt' \in [Uproc -> Nat]
      BY <2>2, DelayAssumption DEF DInv, LocalTypes
    <3>2. /\ sem' \in [Semaphore -> Int] /\ waiting' \in [Semaphore -> Seq(Client)]
          /\ \A t \in Semaphore : t # "ADLsem" => sem'[t] = sem[t] /\ waiting'[t] = waiting[t]
      BY <1>1, <2>2, DoP DEF DInv
    <3> QED BY <1>1, <1>3, <1>4, <3>1, <3>2 DEF DInv, LocalTypes, Client, Semaphore
  <2> QED BY <1>2, <2>1, <2>2
<1>8. LockInv'
  <2>1. CASE Goto(p, "ended") /\ UNCHANGED <<sems, secCnt>>
    <3>1. \A r \in Client : InSection(r)' <=> InSection(r)
      BY <1>1, <1>4, <1>5, <2>1, DoGoto DEF DInv, InSection, Goto, LocalTypes, Client
    <3>2. p \notin ToSet(waiting["ADLsem"])
      BY <1>1, FreeLock DEF DInv
    <3> QED BY <1>4, <2>1, <3>1, <3>2, LockSame DEF DInv, sems
  <2>2. CASE S!P("ADLsem", p) /\ Goto(p, "alloc")
    BY <1>1, <2>2, LockP DEF DInv, InSection
  <2> QED BY <1>2, <2>1, <2>2
<1>9. ListInv' /\ OwnerInv' /\ ADL' = ADL
  BY <1>1, <1>3, <1>4, ListsSame DEF DInv, Client
<1>10. CurrInv'
  BY <1>3, <1>5 DEF DInv, CurrInv, adl
<1>11. WakeInv'
  <2>1. \A q : Pending(q)' <=> Pending(q)
    BY <1>3, <1>5, <1>9, PendingSame DEF adl
  <2> SUFFICES ASSUME NEW q \in Uproc PROVE WakeOf(q)'
    BY DEF WakeInv
  <2>2. WakeOf(q)
    BY DEF DInv, WakeInv
  <2>3. pc'[q] = pc[q] \/ (pc[q] = "user" /\ pc'[q] \in {"ended", "alloc"})
    BY <1>1, <1>4 DEF Client
  <2> QED BY <1>7, <2>1, <2>2, <2>3, WakeSame
<1> QED BY <1>6, <1>7, <1>8, <1>9, <1>10, <1>11 DEF DInv

\* No descriptor is left, or there is one.
LEMMA AllocFailStep ==
  ASSUME DInv, NEW p \in Uproc, allocNode(p), delaydFree_h = NULL
  PROVE  DInv'
<1>1. /\ pc[p] = "alloc" /\ S!Free(p) /\ p \in Client /\ p # Daemon /\ "ADLsem" \in Semaphore
      /\ S!V("ADLsem") /\ Goto(p, "ended") /\ "ADLsem" \notin Uproc
      /\ UNCHANGED <<tod, adl, node, due, currTime, curr>>
      /\ secCnt' = [secCnt EXCEPT ![p] = 0]
  BY DelayAssumption DEF allocNode, At, Client, Semaphore
<1>2. /\ pc' \in [Client -> Label] /\ pc'[p] = "ended"
      /\ \A q \in Client : q # p => pc'[q] = pc[q]
      /\ \A q \in Uproc : pc'[q] \in UprocLabel
      /\ pc'[Daemon] \in DaemonLabel
  BY <1>1, DoGoto DEF DInv, Label, UprocLabel, DaemonLabel
<1>3. pc'[Daemon] = pc[Daemon]
  BY <1>1, <1>2 DEF Client
<1>4. TypeOK'
  BY <1>1 DEF DInv, TypeOK, adl
<1>5. /\ sem' \in [Semaphore -> Int] /\ waiting' \in [Semaphore -> Seq(Client)]
      /\ \A t \in Semaphore : t # "ADLsem" => sem'[t] = sem[t] /\ waiting'[t] = waiting[t]
  BY <1>1, DoV DEF DInv
<1>6. \A q \in Uproc : sem'[q] = sem[q] /\ waiting'[q] = waiting[q]
  BY <1>1, <1>5 DEF Semaphore
<1>7. LocalTypes'
  <2>1. secCnt' \in [Uproc -> Nat]
    BY <1>1 DEF DInv, LocalTypes
  <2> QED BY <1>1, <1>2, <1>5, <2>1 DEF DInv, LocalTypes, Client, Semaphore
<1>8. LockInv'
  <2>1. InSection(p) /\ ~InSection(p)'
    BY <1>1, <1>2 DEF InSection
  <2>2. Holder(p)
    BY <1>1, <2>1, Alone DEF DInv
  <2> QED BY <1>1, <2>1, <2>2, LockV DEF DInv, Label, UprocLabel
<1>9. ListInv' /\ OwnerInv' /\ ADL' = ADL
  BY <1>1, <1>2, ListsSame DEF DInv, Client
<1>10. CurrInv'
  BY <1>1, <1>3 DEF DInv, CurrInv, adl
<1>11. WakeInv'
  <2>1. \A q : Pending(q)' <=> Pending(q)
    BY <1>1, <1>3, <1>9, PendingSame DEF adl
  <2> SUFFICES ASSUME NEW q \in Uproc PROVE WakeOf(q)'
    BY DEF WakeInv
  <2>2. WakeOf(q)
    BY DEF DInv, WakeInv
  <2>3. pc'[q] = pc[q] \/ (pc[q] = "alloc" /\ pc'[q] = "ended")
    BY <1>1, <1>2 DEF Client
  <2> QED BY <1>6, <2>1, <2>2, <2>3, WakeSame
<1> QED BY <1>4, <1>7, <1>8, <1>9, <1>10, <1>11 DEF DInv

LEMMA AllocStep ==
  ASSUME DInv, NEW p \in Uproc, allocNode(p), delaydFree_h # NULL
  PROVE  /\ DInv'
         /\ Delayed' = Delayed /\ (\A q \in Uproc : Pending(q)' <=> Pending(q))
         /\ \A m \in Delayed : d_wakeTime'[m] = d_wakeTime[m] /\ d_supStruct'[m] = d_supStruct[m]
<1> DEFINE h == delaydFree_h
<1>1. /\ pc[p] = "alloc" /\ S!Free(p) /\ p \in Client /\ p # Daemon
      /\ node' = [node EXCEPT ![p] = h] /\ delaydFree_h' = d_next[h]
      /\ d_wakeTime' = [d_wakeTime EXCEPT ![h] = Wrap(tod + Wrap(secCnt[p] * SECOND))]
      /\ d_supStruct' = [d_supStruct EXCEPT ![h] = p]
      /\ due' = [due EXCEPT ![p] = tod + secCnt[p] * SECOND]
      /\ secCnt' = [secCnt EXCEPT ![p] = 0]
      /\ Goto(p, "insert")
      /\ UNCHANGED <<delayd_h, d_next, sems, tod, currTime, curr>>
  BY DelayAssumption DEF allocNode, At, Client
<1>2. /\ pc' \in [Client -> Label] /\ pc'[p] = "insert"
      /\ \A q \in Client : q # p => pc'[q] = pc[q]
      /\ \A q \in Uproc : pc'[q] \in UprocLabel
      /\ pc'[Daemon] \in DaemonLabel
  BY <1>1, DoGoto DEF DInv, Label, UprocLabel, DaemonLabel
<1>3. pc'[Daemon] = pc[Daemon]
  BY <1>1, <1>2 DEF Client
<1>4. /\ h \in Node /\ d_next \in [Node -> Node \cup {NULL}] /\ DOMAIN d_next = Node
      /\ NULL \notin Node /\ node \in [Uproc -> Node \cup {NULL}]
      /\ d_supStruct \in [Node -> Uproc \cup {NULL}]
  BY Nodes DEF DInv, TypeOK
<1>5. secCnt[p] * SECOND \in Nat /\ tod + secCnt[p] * SECOND \in Nat
      /\ Wrap(tod + Wrap(secCnt[p] * SECOND)) \in -MAXINT - 1 .. MAXINT
  <2>1. SECOND \in Nat /\ MAXINT \in Nat /\ secCnt[p] \in Nat /\ tod \in Nat
    BY DelayAssumption DEF DInv, TypeOK, LocalTypes
  <2>2. secCnt[p] * SECOND \in Nat
    BY <2>1
  <2>3. Wrap(secCnt[p] * SECOND) \in Int
    BY <2>1, <2>2, WrapInt
  <2>4. tod + Wrap(secCnt[p] * SECOND) \in Int
    BY <2>1, <2>3
  <2> QED BY <2>1, <2>2, <2>4, WrapInt
<1>6. TypeOK'
  <2>1. d_wakeTime' \in [Node -> -MAXINT - 1 .. MAXINT]
    BY <1>1, <1>5 DEF DInv, TypeOK
  <2>2. node' \in [Uproc -> Node \cup {NULL}] /\ d_supStruct' \in [Node -> Uproc \cup {NULL}]
    BY <1>1, <1>4
  <2> QED BY <1>1, <1>4, <2>1, <2>2 DEF DInv, TypeOK
<1>7. LocalTypes'
  <2>1. secCnt' \in [Uproc -> Nat] /\ due' \in [Uproc -> Nat]
    BY <1>1, <1>5 DEF DInv, LocalTypes
  <2> QED BY <1>1, <1>2, <2>1 DEF DInv, LocalTypes, Client, sems
<1>8. InSection(p) /\ InSection(p)'
  BY <1>1, <1>2 DEF InSection
<1>9. /\ p \notin ToSet(waiting["ADLsem"])
      /\ \A q \in Client : q # p => pc[q] \notin {"insert", "unlock", "loop", "unlink"}
  BY <1>1, <1>8, Alone DEF DInv, Holder
<1>10. LockInv'
  <2>1. \A r \in Client : InSection(r)' <=> InSection(r)
    BY <1>2, <1>8 DEF InSection
  <2> QED BY <1>1, <1>2, <1>9, <2>1, LockSame DEF DInv, sems
<1>11. InHand = {} /\ InHand' = {h}
  <2>1. \A q \in Uproc : pc[q] # "insert"
    BY <1>1, <1>9 DEF Client
  <2>2. \A q \in Uproc : pc'[q] = "insert" <=> q = p
    BY <1>2, <2>1 DEF Client
  <2>3. node'[p] = h
    BY <1>1, <1>4
  <2> QED BY <2>1, <2>2, <2>3 DEF InHand
<1>12. ADL' = ADL /\ Delayed' = Delayed
  BY <1>1 DEF ADL, Delayed
<1>13. /\ IsList(Tail(Idle), d_next[h], d_next, NULL)
       /\ ToSet(Tail(Idle)) = ToSet(Idle) \ {h} /\ h \in ToSet(Idle)
  BY <1>4, ListPop, ListFirst DEF DInv, ListInv
<1>14. Idle' = Tail(Idle)
  <2>1. Walk(d_next[h], d_next, NULL) = Tail(Idle)
    BY <1>4, <1>13, WalkOfList, Nodes
  <2> QED BY <1>1, <2>1 DEF Idle
<1>15. h \notin ToSet(ADL) /\ ToSet(ADL) \subseteq Node /\ Dummy \in ToSet(ADL)
  <2>1. ADL # <<>> /\ ADL[Len(ADL)] = Dummy /\ IsList(ADL, delayd_h, d_next, NULL)
    BY DEF DInv, ListInv
  <2>2. Dummy \in ToSet(ADL) /\ ToSet(ADL) \subseteq Node
    <3>1. ADL \in Seq(Node) /\ ToSet(ADL) \subseteq Node
      BY <1>4, <2>1, ListFirst
    <3>2. Len(ADL) \in 1 .. Len(ADL)
      BY <2>1, <3>1, EmptySeq, LenProperties
    <3> QED BY <2>1, <3>1, <3>2, LenProperties DEF ToSet
  <2> QED BY <1>13, <2>2 DEF DInv, ListInv
<1>16. \A m \in ToSet(ADL) : d_wakeTime'[m] = d_wakeTime[m] /\ d_supStruct'[m] = d_supStruct[m]
  BY <1>1, <1>15 DEF DInv, TypeOK
<1>17. ListInv'
  <2>1. /\ IsList(ADL, delayd_h, d_next, NULL)'
        /\ IsList(Idle, delaydFree_h, d_next, NULL)'
    BY <1>1, <1>12, <1>13, <1>14 DEF DInv, ListInv
  <2>2. /\ (ToSet(ADL) \cap ToSet(Idle) = {})'
        /\ (InHand \cap (ToSet(ADL) \cup ToSet(Idle)) = {})'
        /\ (ToSet(ADL) \cup ToSet(Idle) \cup InHand = Node)'
        /\ (ADL # <<>> /\ ADL[Len(ADL)] = Dummy)'
    BY <1>11, <1>12, <1>13, <1>14, <1>15 DEF DInv, ListInv
  <2>3. (\A i \in 1 .. Len(ADL) - 1 : d_wakeTime[ADL[i]] <= d_wakeTime[ADL[i+1]])'
    <3>1. ADL \in Seq(Node) /\ Len(ADL) \in Nat /\ DOMAIN ADL = 1 .. Len(ADL)
      BY <1>4, ListFirst DEF DInv, ListInv
    <3>2. \A i \in 1 .. Len(ADL) - 1 : ADL[i] \in ToSet(ADL) /\ ADL[i+1] \in ToSet(ADL)
      BY <3>1 DEF ToSet
    <3> QED BY <1>12, <1>16, <3>2 DEF DInv, ListInv
  <2>4. (d_wakeTime[Dummy] = MAXINT)'
    BY <1>15, <1>16 DEF DInv, ListInv
  <2> QED BY <2>1, <2>2, <2>3, <2>4 DEF ListInv
<1>18. OwnerInv'
  <2>1. Delayed \subseteq ToSet(ADL)
    BY DEF Delayed
  <2>2. \A q \in Uproc : pc'[q] = "insert" => q = p
    BY <1>2, <1>9 DEF Client
  <2>3. node'[p] = h /\ d_supStruct'[h] = p
    BY <1>1, <1>4
  <2>4. \A n \in Delayed' : d_supStruct'[n] \in Uproc
    BY <1>12, <1>16, <2>1 DEF DInv, OwnerInv
  <2>5. \A n, m \in Delayed' : d_supStruct'[n] = d_supStruct'[m] => n = m
    BY <1>12, <1>16, <2>1 DEF DInv, OwnerInv
  <2>6. d_supStruct'[Dummy] = NULL
    BY <1>15, <1>16 DEF DInv, OwnerInv
  <2> QED BY <1>4, <2>2, <2>3, <2>4, <2>5, <2>6 DEF OwnerInv
<1>19. CurrInv'
  BY <1>1, <1>3 DEF DInv, CurrInv
<1>20. WakeInv'
  <2> SUFFICES ASSUME NEW q \in Uproc PROVE WakeOf(q)'
    BY DEF WakeInv
  <2>1. Pending(q)' <=> Pending(q)
    BY <1>1, <1>3, <1>12, <1>16 DEF Pending
  <2>2. WakeOf(q)
    BY DEF DInv, WakeInv
  <2>3. pc'[q] = pc[q] \/ (pc[q] = "alloc" /\ pc'[q] = "insert")
    BY <1>1, <1>2 DEF Client
  <2> QED BY <1>1, <2>1, <2>2, <2>3, WakeSame DEF sems
<1>21. \A q \in Uproc : Pending(q)' <=> Pending(q)
  BY <1>1, <1>3, <1>12, <1>16 DEF Pending
<1>22. \A m \in Delayed : d_wakeTime'[m] = d_wakeTime[m] /\ d_supStruct'[m] = d_supStruct[m]
  BY <1>16 DEF Delayed
<1> QED BY <1>12, <1>21, <1>22, <1>6, <1>7, <1>10, <1>17, <1>18, <1>19, <1>20 DEF DInv

\* The descriptor goes before the first that is not to be woken earlier: the
\* ADL stays sorted, and the U-proc is now among the delayed.
LEMMA InsertStep ==
  ASSUME DInv, NEW p \in Uproc, insertNode(p)
  PROVE  /\ DInv'
         /\ Delayed' = Delayed \cup {node[p]} /\ d_supStruct[node[p]] = p
         /\ Pending(p)' /\ \A q \in Uproc : q # p => (Pending(q)' <=> Pending(q))
<1>0. PICK n : n = node[p]
  OBVIOUS
<1> DEFINE late == {j \in DOMAIN ADL : d_wakeTime[ADL[j]] >= d_wakeTime[n]}
           least == Min(late)
<1>1. /\ pc[p] = "insert" /\ p \in Client /\ p # Daemon /\ Goto(p, "unlock")
      /\ \/ least = 1 /\ d_next' = [d_next EXCEPT ![n] = delayd_h] /\ delayd_h' = n
         \/ /\ least > 1 /\ delayd_h' = delayd_h
            /\ d_next' = [d_next EXCEPT ![n] = ADL[least], ![ADL[least-1]] = n]
      /\ node' = [node EXCEPT ![p] = NULL]
      /\ UNCHANGED <<tod, delaydFree_h, d_wakeTime, d_supStruct, sems, secCnt, due, currTime, curr>>
  BY <1>0, DelayAssumption DEF insertNode, At, Client
<1>2. /\ pc' \in [Client -> Label] /\ pc'[p] = "unlock"
      /\ \A q \in Client : q # p => pc'[q] = pc[q]
      /\ \A q \in Uproc : pc'[q] \in UprocLabel
      /\ pc'[Daemon] \in DaemonLabel
  BY <1>1, DoGoto DEF DInv, Label, UprocLabel, DaemonLabel
<1>3. pc'[Daemon] = pc[Daemon]
  BY <1>1, <1>2 DEF Client
<1>4. /\ d_next \in [Node -> Node \cup {NULL}] /\ DOMAIN d_next = Node
      /\ NULL \notin Node /\ node \in [Uproc -> Node \cup {NULL}]
      /\ d_supStruct \in [Node -> Uproc \cup {NULL}] /\ d_wakeTime \in [Node -> Int]
      /\ \A m \in Node : d_wakeTime[m] <= MAXINT
  BY Nodes, DelayAssumption DEF DInv, TypeOK
<1>5. InSection(p) /\ InSection(p)'
  BY <1>1, <1>2 DEF InSection
<1>6. /\ p \notin ToSet(waiting["ADLsem"])
      /\ \A q \in Client : q # p => pc[q] \notin {"insert", "unlock", "loop", "unlink"}
  BY <1>1, <1>5, Alone DEF DInv, Holder
<1>7. LockInv'
  <2>1. \A r \in Client : InSection(r)' <=> InSection(r)
    BY <1>2, <1>5 DEF InSection
  <2> QED BY <1>1, <1>2, <1>6, <2>1, LockSame DEF DInv, sems
<1>8. InHand = {n} /\ InHand' = {}
  <2>1. \A q \in Uproc : pc[q] = "insert" <=> q = p
    BY <1>1, <1>6 DEF Client
  <2>2. \A q \in Uproc : pc'[q] # "insert"
    BY <1>2, <2>1 DEF Client
  <2> QED BY <1>0, <1>1, <1>4, <2>1, <2>2 DEF InHand
<1>9. n \in Node /\ d_supStruct[n] = p /\ n \notin ToSet(ADL) /\ n \notin ToSet(Idle)
  BY <1>0, <1>1, <1>8 DEF DInv, OwnerInv, ListInv
<1>10. /\ ADL \in Seq(Node) /\ Len(ADL) \in Nat \ {0} /\ DOMAIN ADL = 1 .. Len(ADL)
       /\ ToSet(ADL) \subseteq Node /\ Dummy \in ToSet(ADL) /\ ADL[Len(ADL)] = Dummy
       /\ IsList(ADL, delayd_h, d_next, NULL) /\ \A j \in 1 .. Len(ADL) : ADL[j] \in ToSet(ADL)
       /\ \A j \in 1 .. Len(ADL) - 1 : d_wakeTime[ADL[j]] <= d_wakeTime[ADL[j+1]]
       /\ d_next[Dummy] = NULL /\ IsInjective(ADL) /\ delayd_h = ADL[1]
       /\ \A j \in 1 .. Len(ADL) - 1 : d_next[ADL[j]] = ADL[j+1]
  <2>1. /\ ADL # <<>> /\ ADL[Len(ADL)] = Dummy /\ IsList(ADL, delayd_h, d_next, NULL)
        /\ \A j \in 1 .. Len(ADL) - 1 : d_wakeTime[ADL[j]] <= d_wakeTime[ADL[j+1]]
    BY DEF DInv, ListInv
  <2>2. /\ ADL \in Seq(Node) /\ Len(ADL) \in Nat /\ DOMAIN ADL = 1 .. Len(ADL)
        /\ ToSet(ADL) \subseteq Node
    BY <1>4, <2>1, ListFirst
  <2>3. Len(ADL) # 0
    BY <2>1, <2>2, EmptySeq
  <2>4. /\ \A j \in 1 .. Len(ADL) : ADL[j] \in ToSet(ADL)
    BY <2>2 DEF ToSet
  <2>5. Len(ADL) \in 1 .. Len(ADL)
    BY <2>2, <2>3
  <2> QED BY <2>1, <2>2, <2>3, <2>4, <2>5 DEF IsList
<1>11. PICK i \in 1 .. Len(ADL) :
       /\ d_wakeTime[ADL[i]] >= d_wakeTime[n]
       /\ \/ i = 1 /\ d_next' = [d_next EXCEPT ![n] = delayd_h] /\ delayd_h' = n
          \/ /\ i > 1 /\ delayd_h' = delayd_h
             /\ d_next' = [d_next EXCEPT ![n] = ADL[i], ![ADL[i-1]] = n]
       /\ \A j \in 1 .. Len(ADL) : j < i => d_wakeTime[ADL[j]] < d_wakeTime[n]
  <2>1. late \subseteq Nat /\ Len(ADL) \in late
    <3>1. Len(ADL) \in 1 .. Len(ADL)
      BY <1>10
    <3>2. d_wakeTime[ADL[Len(ADL)]] = MAXINT
      BY <1>10 DEF DInv, ListInv
    <3>3. d_wakeTime[ADL[Len(ADL)]] >= d_wakeTime[n]
      BY <1>4, <1>9, <3>2, DelayAssumption
    <3> QED BY <1>10, <3>1, <3>3
  <2>2. PICK k : k = Min(late)
    OBVIOUS
  <2>3. k \in late /\ \A j \in late : k <= j
    BY <2>1, <2>2, Least
  <2>4. \A j \in 1 .. Len(ADL) : j \notin late => d_wakeTime[ADL[j]] < d_wakeTime[n]
    BY <1>4, <1>9, <1>10
  <2>5. k \in 1 .. Len(ADL) /\ d_wakeTime[ADL[k]] >= d_wakeTime[n]
    BY <2>3, <1>10
  <2>6. \A j \in 1 .. Len(ADL) : j < k => j \notin late
    <3> TAKE j \in 1 .. Len(ADL)
    <3> HIDE DEF late
    <3> QED BY <2>3, <2>5, <1>10
  <2>7. \/ k = 1 /\ d_next' = [d_next EXCEPT ![n] = delayd_h] /\ delayd_h' = n
        \/ /\ k > 1 /\ delayd_h' = delayd_h
           /\ d_next' = [d_next EXCEPT ![n] = ADL[k], ![ADL[k-1]] = n]
    BY <1>1, <2>2
  <2>8. \A j \in 1 .. Len(ADL) : j < k => d_wakeTime[ADL[j]] < d_wakeTime[n]
    BY <2>4, <2>6
  <2> HIDE DEF late
  <2> QED BY <2>5, <2>7, <2>8, Zenon
<1> HIDE DEF late, least
<1>12. PICK k : k = i - 1
  OBVIOUS
<1>13. k \in 0 .. Len(ADL) - 1 /\ i = k + 1
  BY <1>10, <1>12
<1>14. /\ ADL[i] \in Node /\ d_next' \in [Node -> Node \cup {NULL}] /\ DOMAIN d_next' = Node
       /\ d_next'[n] = ADL[i] /\ delayd_h' \in Node
       /\ k = 0 => delayd_h' = n /\ ADL[i] = delayd_h /\ \A m \in ToSet(ADL) : d_next'[m] = d_next[m]
       /\ k # 0 => /\ delayd_h' = delayd_h /\ k \in 1 .. Len(ADL) /\ d_next[ADL[k]] = ADL[i]
                   /\ d_next'[ADL[k]] = n
                   /\ \A m \in ToSet(ADL) \ {ADL[k]} : d_next'[m] = d_next[m]
       /\ \A m \in ToSet(Idle) : d_next'[m] = d_next[m]
  <2>1. ADL[i] \in ToSet(ADL) /\ ADL[i] \in Node
    BY <1>10, <1>11
  <2>2. ToSet(Idle) \subseteq Node /\ ToSet(Idle) \cap ToSet(ADL) = {}
    BY <1>4, ListFirst DEF DInv, ListInv
  <2>3. CASE k = 0
    <3>1. i = 1 /\ ~(i > 1)
      BY <1>13, <2>3
    <3>2. d_next' = [d_next EXCEPT ![n] = delayd_h] /\ delayd_h' = n /\ ADL[i] = delayd_h
      BY <1>10, <1>11, <3>1
    <3> QED BY <1>4, <1>9, <1>10, <2>1, <2>2, <2>3, <3>2
  <2>4. CASE k # 0
    <3>1. k \in 1 .. Len(ADL) /\ k \in 1 .. Len(ADL) - 1 /\ i > 1 /\ i # 1 /\ 1 \in 1 .. Len(ADL)
      BY <1>10, <1>13, <2>4
    <3>2. ADL[k] \in ToSet(ADL) /\ ADL[k] \in Node /\ ADL[k] # n /\ d_next[ADL[k]] = ADL[i]
      BY <1>9, <1>10, <1>13, <3>1
    <3>3. delayd_h \in Node
      BY <1>10, <3>1
    <3>4. delayd_h' = delayd_h /\ d_next' = [d_next EXCEPT ![n] = ADL[i], ![ADL[k]] = n]
      BY <1>11, <1>12, <3>1
    <3> QED BY <1>4, <1>9, <1>10, <2>1, <2>2, <2>4, <3>1, <3>2, <3>3, <3>4
  <2> QED BY <2>3, <2>4
<1>15. IsList(Inserted(n, ADL, k), delayd_h', d_next', NULL)
  <2>1. /\ IsList(ADL, delayd_h, d_next, NULL) /\ NULL \notin DOMAIN d_next
        /\ n \in DOMAIN d_next /\ n \notin ToSet(ADL) /\ DOMAIN d_next' = DOMAIN d_next
    BY <1>4, <1>9, <1>10, <1>14
  <2>2. CASE k = 0
    <3>1. d_next'[n] = delayd_h /\ \A m \in ToSet(ADL) : d_next'[m] = d_next[m]
      BY <1>14, <2>2
    <3>2. IsList(Inserted(n, ADL, 0), n, d_next', NULL)
      BY <2>1, <3>1, ListPush
    <3> QED BY <1>14, <2>2, <3>2
  <2>3. CASE k # 0
    <3>1. /\ k \in 1 .. Len(ADL) /\ d_next'[n] = d_next[ADL[k]] /\ d_next'[ADL[k]] = n
          /\ \A m \in ToSet(ADL) \ {ADL[k]} : d_next'[m] = d_next[m]
      BY <1>14, <2>3
    <3>2. IsList(Inserted(n, ADL, k), delayd_h, d_next', NULL)
      BY <2>1, <3>1, ListInsert
    <3> QED BY <1>14, <2>3, <3>2
  <2> QED BY <2>2, <2>3
<1>16. PICK t : t = Inserted(n, ADL, k)
  OBVIOUS
<1>17. /\ IsList(t, delayd_h', d_next', NULL) /\ Len(t) = Len(ADL) + 1
       /\ ToSet(t) = ToSet(ADL) \cup {n}
       /\ \A j \in 1 .. Len(ADL) + 1 :
            t[j] = IF j <= k THEN ADL[j] ELSE IF j = k + 1 THEN n ELSE ADL[j-1]
  <2>1. k \in 0 .. Len(ADL)
    BY <1>10, <1>13
  <2>2. ADL \in Seq(Node) /\ n \in Node /\ n \notin ToSet(ADL)
    BY <1>9, <1>10
  <2>3. IsInjective(ADL)
    BY <1>10 DEF IsList
  <2>4. /\ Len(t) = Len(ADL) + 1 /\ ToSet(t) = ToSet(ADL) \cup {n}
        /\ \A j \in 1 .. Len(ADL) + 1 :
             t[j] = IF j <= k THEN ADL[j] ELSE IF j = k + 1 THEN n ELSE ADL[j-1]
    BY <1>16, <2>1, <2>2, <2>3, InsertedIs
  <2> QED BY <1>15, <1>16, <2>4
<1>18. ADL' = t
  <2>1. Walk(delayd_h', d_next', NULL) = t
    BY <1>4, <1>14, <1>17, WalkOfList, Nodes
  <2> QED BY <2>1 DEF ADL
<1>19. IsList(Idle, delaydFree_h, d_next', NULL) /\ Idle' = Idle
  <2>1. IsList(Idle, delaydFree_h, d_next, NULL)
    BY DEF DInv, ListInv
  <2>2. IsList(Idle, delaydFree_h, d_next', NULL)
    BY <1>4, <1>14, <2>1, ListElsewhere
  <2>3. Walk(delaydFree_h, d_next', NULL) = Idle
    BY <1>4, <1>14, <2>2, WalkOfList, Nodes
  <2> QED BY <1>1, <2>2, <2>3 DEF Idle
<1>20. n # Dummy /\ Delayed' = Delayed \cup {n}
  BY <1>9, <1>10, <1>17, <1>18 DEF Delayed
<1>21. ListInv'
  <2>1. /\ IsList(ADL, delayd_h, d_next, NULL)'
        /\ IsList(Idle, delaydFree_h, d_next, NULL)'
    BY <1>1, <1>17, <1>18, <1>19
  <2>2. /\ (ToSet(ADL) \cap ToSet(Idle) = {})'
        /\ (InHand \cap (ToSet(ADL) \cup ToSet(Idle)) = {})'
        /\ (ToSet(ADL) \cup ToSet(Idle) \cup InHand = Node)'
    BY <1>8, <1>9, <1>17, <1>18, <1>19 DEF DInv, ListInv
  <2>3. (ADL # <<>> /\ ADL[Len(ADL)] = Dummy)'
    <3>1. t[Len(ADL) + 1] = ADL[Len(ADL)]
      <4>1. /\ Len(ADL) + 1 \in 1 .. Len(ADL) + 1 /\ ~(Len(ADL) + 1 <= k)
            /\ Len(ADL) + 1 # k + 1 /\ (Len(ADL) + 1) - 1 = Len(ADL)
        BY <1>10, <1>13
      <4> QED BY <1>17, <4>1
    <3>2. t # <<>>
      BY <1>10, <1>17, EmptySeq
    <3> QED BY <1>10, <1>17, <1>18, <3>1, <3>2
  <2>4. ASSUME NEW j \in 1 .. Len(t) - 1 PROVE d_wakeTime[t[j]] <= d_wakeTime[t[j+1]]
    <3>1. /\ Len(ADL) \in Nat /\ j \in 1 .. Len(ADL) /\ k \in 0 .. Len(ADL) - 1
          /\ j + 1 \in 1 .. Len(ADL) + 1 /\ j \in 1 .. Len(ADL) + 1
      BY <1>10, <1>13, <1>17
    <3>2. /\ t[j] = IF j <= k THEN ADL[j] ELSE IF j = k + 1 THEN n ELSE ADL[j-1]
          /\ t[j+1] = IF j + 1 <= k THEN ADL[j+1] ELSE IF j + 1 = k + 1 THEN n ELSE ADL[(j+1)-1]
      BY <1>17, <3>1
    <3>3. CASE j + 1 <= k
      <4>1. j \in 1 .. Len(ADL) - 1 /\ j <= k
        BY <3>1, <3>3
      <4> QED BY <1>10, <3>2, <3>3, <4>1
    <3>4. CASE j = k
      <4>1. j <= k /\ ~(j + 1 <= k) /\ j + 1 = k + 1 /\ j < i
        BY <1>13, <3>1, <3>4
      <4>2. d_wakeTime[ADL[j]] < d_wakeTime[n]
        BY <1>11, <3>1, <4>1
      <4>3. t[j] = ADL[j] /\ t[j+1] = n /\ ADL[j] \in Node
        BY <3>1, <3>2, <4>1, <1>10
      <4> QED BY <1>4, <1>9, <4>2, <4>3
    <3>5. CASE j = k + 1
      <4>1. t[j] = n /\ t[j+1] = ADL[i] /\ ADL[i] \in Node
        <5>1. ~(j <= k) /\ ~(j + 1 <= k) /\ j + 1 # k + 1 /\ (j + 1) - 1 = i
          BY <1>13, <3>1, <3>5
        <5> QED BY <3>2, <3>5, <5>1, <1>14
      <4> QED BY <1>4, <1>9, <1>11, <4>1
    <3>6. CASE j > k + 1
      <4>1. /\ ~(j <= k) /\ ~(j + 1 <= k) /\ j + 1 # k + 1 /\ j # k + 1 /\ (j + 1) - 1 = (j - 1) + 1
            /\ j - 1 \in 1 .. Len(ADL) - 1
        BY <3>1, <3>6
      <4>2. t[j] = ADL[j-1] /\ t[j+1] = ADL[(j-1)+1]
        BY <3>2, <4>1
      <4> QED BY <1>10, <4>1, <4>2
    <3>7. j + 1 <= k \/ j = k \/ j = k + 1 \/ j > k + 1
      BY <3>1
    <3> QED BY <3>3, <3>4, <3>5, <3>6, <3>7
  <2>5. (\A j \in 1 .. Len(ADL) - 1 : d_wakeTime[ADL[j]] <= d_wakeTime[ADL[j+1]])'
    BY <1>1, <1>18, <2>4
  <2>6. (d_wakeTime[Dummy] = MAXINT)'
    BY <1>1 DEF DInv, ListInv
  <2> QED BY <2>1, <2>2, <2>3, <2>5, <2>6 DEF ListInv
<1>22. ~(pc[Daemon] = "unlink")
  BY <1>1, <1>6 DEF Client
<1>23. \A m \in Delayed : d_supStruct[m] # p
  <2> SUFFICES ASSUME NEW m \in Delayed, d_supStruct[m] = p PROVE FALSE
    OBVIOUS
  <2>1. Pending(p)
    BY <1>22 DEF Pending, Delayed
  <2> QED BY <1>1, <2>1 DEF DInv, WakeInv, WakeOf
<1>24. OwnerInv'
  <2>1. \A q \in Uproc : pc'[q] # "insert"
    BY <1>2, <1>6 DEF Client
  <2>2. \A m \in Delayed' : d_supStruct'[m] \in Uproc
    BY <1>1, <1>9, <1>20 DEF DInv, OwnerInv
  <2>3. \A m, l \in Delayed' : d_supStruct'[m] = d_supStruct'[l] => m = l
    BY <1>1, <1>9, <1>20, <1>23 DEF DInv, OwnerInv
  <2> QED BY <1>1, <2>1, <2>2, <2>3 DEF DInv, OwnerInv
<1>25. CurrInv'
  BY <1>1, <1>3, <1>6 DEF DInv, CurrInv, Client
<1>26. WakeInv'
  <2> SUFFICES ASSUME NEW q \in Uproc PROVE WakeOf(q)'
    BY DEF WakeInv
  <2>1. WakeOf(q) /\ WakeOf(p)
    BY DEF DInv, WakeInv
  <2>2. CASE q = p
    <3>1. ~Pending(p) /\ sem[p] = 0
      BY <1>1, <2>1, <2>2 DEF WakeOf
    <3>2. Pending(p)'
      BY <1>1, <1>3, <1>9, <1>17, <1>18, <1>22 DEF Pending
    <3> QED BY <1>1, <1>2, <2>1, <2>2, <3>1, <3>2 DEF WakeOf, sems
  <2>3. CASE q # p
    <3>1. Pending(q)' <=> Pending(q)
      BY <1>1, <1>3, <1>9, <1>17, <1>18, <1>22, <2>3 DEF Pending
    <3>2. pc'[q] = pc[q]
      BY <1>2, <2>3 DEF Client
    <3> QED BY <1>1, <2>1, <3>1, <3>2, WakeSame DEF sems
  <2> QED BY <2>2, <2>3
<1>27. TypeOK'
  <2>1. node' \in [Uproc -> Node \cup {NULL}]
    BY <1>1, <1>4
  <2> QED BY <1>1, <1>14, <2>1 DEF DInv, TypeOK
<1>28. LocalTypes'
  BY <1>1, <1>2 DEF DInv, LocalTypes, Client, sems
<1>29. Pending(p)'
  BY <1>1, <1>3, <1>9, <1>17, <1>18, <1>22 DEF Pending
<1>30. \A q \in Uproc : q # p => (Pending(q)' <=> Pending(q))
  BY <1>1, <1>3, <1>9, <1>17, <1>18, <1>22 DEF Pending
<1> QED BY <1>0, <1>9, <1>20, <1>29, <1>30, <1>7, <1>21, <1>24, <1>25, <1>26, <1>27, <1>28 DEF DInv

LEMMA ReleaseStep ==
  ASSUME DInv, NEW p \in Uproc, releaseADL(p)
  PROVE  DInv'
<1>1. /\ pc[p] = "unlock" /\ p \in Client /\ p # Daemon /\ "ADLsem" \in Semaphore
      /\ S!V("ADLsem") /\ Goto(p, "sleep") /\ "ADLsem" \notin Uproc
      /\ UNCHANGED <<tod, adl, node, secCnt, due, currTime, curr>>
  BY DelayAssumption DEF releaseADL, At, Client, Semaphore, locals
<1>2. /\ pc' \in [Client -> Label] /\ pc'[p] = "sleep"
      /\ \A q \in Client : q # p => pc'[q] = pc[q]
      /\ \A q \in Uproc : pc'[q] \in UprocLabel
      /\ pc'[Daemon] \in DaemonLabel
  BY <1>1, DoGoto DEF DInv, Label, UprocLabel, DaemonLabel
<1>3. pc'[Daemon] = pc[Daemon]
  BY <1>1, <1>2 DEF Client
<1>4. TypeOK'
  BY <1>1 DEF DInv, TypeOK, adl
<1>5. /\ sem' \in [Semaphore -> Int] /\ waiting' \in [Semaphore -> Seq(Client)]
      /\ \A t \in Semaphore : t # "ADLsem" => sem'[t] = sem[t] /\ waiting'[t] = waiting[t]
  BY <1>1, DoV DEF DInv
<1>6. \A q \in Uproc : sem'[q] = sem[q] /\ waiting'[q] = waiting[q]
  BY <1>1, <1>5 DEF Semaphore
<1>7. LocalTypes'
  BY <1>1, <1>2, <1>5 DEF DInv, LocalTypes, Client, Semaphore
<1>8. LockInv'
  <2>1. InSection(p) /\ ~InSection(p)'
    BY <1>1, <1>2 DEF InSection
  <2>2. Holder(p)
    BY <1>1, <2>1, Alone DEF DInv
  <2> QED BY <1>1, <2>1, <2>2, LockV DEF DInv, Label, UprocLabel
<1>9. ListInv' /\ OwnerInv' /\ ADL' = ADL
  BY <1>1, <1>2, ListsSame DEF DInv, Client
<1>10. CurrInv'
  BY <1>1, <1>3 DEF DInv, CurrInv, adl
<1>11. WakeInv'
  <2>1. \A q : Pending(q)' <=> Pending(q)
    BY <1>1, <1>3, <1>9, PendingSame DEF adl
  <2> SUFFICES ASSUME NEW q \in Uproc PROVE WakeOf(q)'
    BY DEF WakeInv
  <2>2. WakeOf(q)
    BY DEF DInv, WakeInv
  <2>3. pc'[q] = pc[q] \/ (pc[q] = "unlock" /\ pc'[q] = "sleep")
    BY <1>1, <1>2 DEF Client
  <2> QED BY <1>6, <2>1, <2>2, <2>3, WakeSame
<1> QED BY <1>4, <1>7, <1>8, <1>9, <1>10, <1>11 DEF DInv

\* The P on the private semaphore.
LEMMA SleepStep ==
  ASSUME DInv, NEW p \in Uproc, sleep(p)
  PROVE  DInv'
<1>1. /\ pc[p] = "sleep" /\ p \in Client /\ p # Daemon /\ p \in Semaphore
      /\ S!P(p, p) /\ Goto(p, "resume") /\ "ADLsem" # p /\ "ADLsem" \in Semaphore
      /\ UNCHANGED <<tod, adl, node, secCnt, due, currTime, curr>>
  BY DelayAssumption DEF sleep, At, Client, Semaphore, locals
<1>2. /\ pc' \in [Client -> Label] /\ pc'[p] = "resume"
      /\ \A q \in Client : q # p => pc'[q] = pc[q]
      /\ \A q \in Uproc : pc'[q] \in UprocLabel
      /\ pc'[Daemon] \in DaemonLabel
  BY <1>1, DoGoto DEF DInv, Label, UprocLabel, DaemonLabel
<1>3. pc'[Daemon] = pc[Daemon]
  BY <1>1, <1>2 DEF Client
<1>4. TypeOK'
  BY <1>1 DEF DInv, TypeOK, adl
<1>5. /\ sem' \in [Semaphore -> Int] /\ waiting' \in [Semaphore -> Seq(Client)]
      /\ sem'[p] = sem[p] - 1
      /\ waiting'[p] = IF sem[p] > 0 THEN waiting[p] ELSE Append(waiting[p], p)
      /\ \A t \in Semaphore : t # p => sem'[t] = sem[t] /\ waiting'[t] = waiting[t]
      /\ p \notin ToSet(waiting["ADLsem"])
  BY <1>1, DoP DEF DInv
<1>6. LocalTypes'
  BY <1>1, <1>2, <1>5 DEF DInv, LocalTypes, Client, Semaphore
<1>7. LockInv'
  <2>1. \A r \in Client : InSection(r)' <=> InSection(r)
    BY <1>1, <1>2 DEF InSection, Client
  <2> QED BY <1>1, <1>2, <1>5, <2>1, LockSame DEF DInv
<1>8. ListInv' /\ OwnerInv' /\ ADL' = ADL
  BY <1>1, <1>2, ListsSame DEF DInv, Client
<1>9. CurrInv'
  BY <1>1, <1>3 DEF DInv, CurrInv, adl
<1>10. WakeInv'
  <2>1. \A q : Pending(q)' <=> Pending(q)
    BY <1>1, <1>3, <1>8, PendingSame DEF adl
  <2> SUFFICES ASSUME NEW q \in Uproc PROVE WakeOf(q)'
    BY DEF WakeInv
  <2>2. WakeOf(q) /\ WakeOf(p)
    BY DEF DInv, WakeInv
  <2>3. CASE q # p
    <3>1. pc'[q] = pc[q] /\ sem'[q] = sem[q] /\ waiting'[q] = waiting[q]
      BY <1>2, <1>5, <2>3 DEF Client, Semaphore
    <3> QED BY <2>1, <2>2, <3>1, WakeSame
  <2>4. CASE q = p /\ Pending(p)
    <3>1. sem[p] = 0 /\ waiting[p] = <<>>
      BY <1>1, <2>2, <2>4 DEF WakeOf
    <3>2. sem'[p] = -1 /\ waiting'[p] = <<p>>
      BY <1>5, <3>1
    <3> QED BY <1>2, <2>1, <2>4, <3>2 DEF WakeOf
  <2>5. CASE q = p /\ ~Pending(p)
    <3>1. sem[p] = 1
      BY <1>1, <2>2, <2>5 DEF WakeOf
    <3>2. waiting[p] = <<>>
      BY <2>2, <3>1 DEF WakeOf
    <3>3. sem'[p] = 0 /\ waiting'[p] = <<>>
      BY <1>5, <3>1, <3>2
    <3> QED BY <1>2, <2>1, <2>5, <3>3 DEF WakeOf
  <2> QED BY <2>3, <2>4, <2>5
<1> QED BY <1>4, <1>6, <1>7, <1>8, <1>9, <1>10 DEF DInv

LEMMA ResumeStep ==
  ASSUME DInv, NEW p \in Uproc, resume(p)
  PROVE  DInv'
<1>1. /\ pc[p] = "resume" /\ S!Free(p) /\ p \in Client /\ p # Daemon /\ Goto(p, "user")
      /\ due' = [due EXCEPT ![p] = 0]
      /\ UNCHANGED <<tod, adl, sems, node, secCnt, currTime, curr>>
  BY DelayAssumption DEF resume, At, Client
<1>2. /\ pc' \in [Client -> Label] /\ pc'[p] = "user"
      /\ \A q \in Client : q # p => pc'[q] = pc[q]
      /\ \A q \in Uproc : pc'[q] \in UprocLabel
      /\ pc'[Daemon] \in DaemonLabel
  BY <1>1, DoGoto DEF DInv, Label, UprocLabel, DaemonLabel
<1>3. pc'[Daemon] = pc[Daemon]
  BY <1>1, <1>2 DEF Client
<1>4. TypeOK'
  BY <1>1 DEF DInv, TypeOK, adl
<1>5. LocalTypes'
  BY <1>1, <1>2 DEF DInv, LocalTypes, Client, sems
<1>6. sem[p] # -1 /\ p \notin ToSet(waiting["ADLsem"])
  BY <1>1, FreeLock DEF DInv
<1>7. LockInv'
  <2>1. \A r \in Client : InSection(r)' <=> InSection(r)
    BY <1>1, <1>2 DEF InSection, Client
  <2> QED BY <1>1, <1>2, <1>6, <2>1, LockSame DEF DInv, sems
<1>8. ListInv' /\ OwnerInv' /\ ADL' = ADL
  BY <1>1, <1>2, ListsSame DEF DInv, Client
<1>9. CurrInv'
  BY <1>1, <1>3 DEF DInv, CurrInv, adl
<1>10. WakeInv'
  <2>1. \A q : Pending(q)' <=> Pending(q)
    BY <1>1, <1>3, <1>8, PendingSame DEF adl
  <2> SUFFICES ASSUME NEW q \in Uproc PROVE WakeOf(q)'
    BY DEF WakeInv
  <2>2. WakeOf(q) /\ WakeOf(p)
    BY DEF DInv, WakeInv
  <2>3. CASE q # p
    <3>1. pc'[q] = pc[q]
      BY <1>2, <2>3 DEF Client
    <3> QED BY <1>1, <2>1, <2>2, <3>1, WakeSame DEF sems
  <2>4. CASE q = p
    <3>1. ~Pending(p) /\ sem[p] = 0
      BY <1>1, <1>6, <2>2 DEF WakeOf
    <3> QED BY <1>1, <1>2, <2>1, <2>2, <2>4, <3>1 DEF WakeOf, sems
  <2> QED BY <2>3, <2>4
<1> QED BY <1>4, <1>5, <1>7, <1>8, <1>9, <1>10 DEF DInv

-----------------------------------------------------------------------------
LEMMA TickStep ==
  ASSUME DInv, tick
  PROVE  DInv'
<1>1. /\ tod' = IF ClockRuns THEN tod + 1 ELSE tod
      /\ \/ pc[Daemon] = "waitclock" /\ Goto(Daemon, "lock")
         \/ pc' = pc
      /\ UNCHANGED <<adl, sems, node, secCnt, due, currTime, curr>> /\ Daemon \in Client
  BY DEF tick, Client, locals
<1>2. /\ pc' \in [Client -> Label] /\ pc'[Daemon] \in DaemonLabel
      /\ \/ pc'[Daemon] = pc[Daemon]
         \/ pc[Daemon] = "waitclock" /\ pc'[Daemon] = "lock"
      /\ \A q \in Client : q # Daemon => pc'[q] = pc[q]
      /\ \A q \in Uproc : pc'[q] = pc[q]
  BY <1>1, DoGoto, DelayAssumption DEF DInv, LocalTypes, Label, DaemonLabel, Client
<1>3. tod' \in 0 .. Horizon /\ tod <= tod'
  <2>1. ClockRuns => tod < Horizon
    BY DelayAssumption DEF ClockRuns, DInv, TypeOK
  <2> QED BY <1>1, <2>1, DelayAssumption DEF DInv, TypeOK
<1>4. TypeOK'
  BY <1>1, <1>3 DEF DInv, TypeOK, adl
<1>5. LocalTypes'
  <2>1. currTime <= tod'
    BY <1>3, DelayAssumption DEF DInv, LocalTypes, TypeOK
  <2> QED BY <1>1, <1>2, <2>1 DEF DInv, LocalTypes, Client, sems
<1>6. LockInv'
  <2>1. \A r \in Client : InSection(r)' <=> InSection(r)
    BY <1>2 DEF InSection, Client
  <2>2. \A r \in Client : r \in ToSet(waiting["ADLsem"]) => pc'[r] = pc[r]
    BY <1>2, FreeLock DEF DInv
  <2> QED BY <1>1, <2>1, <2>2, LockSame DEF DInv, sems
<1>7. ListInv' /\ OwnerInv' /\ ADL' = ADL
  BY <1>1, <1>2, ListsSame DEF DInv
<1>8. CurrInv'
  BY <1>1, <1>2 DEF DInv, CurrInv, adl
<1>9. WakeInv'
  <2>1. \A q : Pending(q)' <=> Pending(q)
    BY <1>1, <1>2, <1>7, PendingSame DEF adl
  <2> QED BY <1>1, <1>2, <2>1, WakeSame DEF DInv, WakeInv, sems
<1> QED BY <1>4, <1>5, <1>6, <1>7, <1>8, <1>9 DEF DInv

LEMMA DaemonLockStep ==
  ASSUME DInv, daemonLock
  PROVE  DInv'
<1>1. /\ pc[Daemon] = "lock" /\ Daemon \in Client /\ S!P("ADLsem", Daemon) /\ Goto(Daemon, "read")
      /\ UNCHANGED <<tod, adl, node, secCnt, due, currTime, curr>>
      /\ "ADLsem" \in Semaphore /\ "ADLsem" \notin Uproc
  BY DelayAssumption DEF daemonLock, At, Client, Semaphore, locals
<1>2. /\ pc' \in [Client -> Label] /\ pc'[Daemon] = "read"
      /\ \A q \in Client : q # Daemon => pc'[q] = pc[q]
      /\ \A q \in Uproc : pc'[q] = pc[q]
  BY <1>1, DoGoto, DelayAssumption DEF DInv, Label, DaemonLabel, Client
<1>3. TypeOK'
  BY <1>1 DEF DInv, TypeOK, adl
<1>4. /\ sem' \in [Semaphore -> Int] /\ waiting' \in [Semaphore -> Seq(Client)]
      /\ \A t \in Semaphore : t # "ADLsem" => sem'[t] = sem[t] /\ waiting'[t] = waiting[t]
  BY <1>1, DoP DEF DInv
<1>5. LocalTypes'
  BY <1>1, <1>2, <1>4 DEF DInv, LocalTypes, Client, Semaphore, DaemonLabel
<1>6. LockInv'
  BY <1>1, LockP DEF DInv, InSection
<1>7. ListInv' /\ OwnerInv' /\ ADL' = ADL
  BY <1>1, <1>2, ListsSame DEF DInv
<1>8. CurrInv'
  BY <1>2 DEF CurrInv
<1>9. WakeInv'
  <2>1. \A q : Pending(q)' <=> Pending(q)
    BY <1>1, <1>2, <1>7, PendingSame DEF adl
  <2> SUFFICES ASSUME NEW q \in Uproc PROVE WakeOf(q)'
    BY DEF WakeInv
  <2>2. WakeOf(q) /\ sem'[q] = sem[q] /\ waiting'[q] = waiting[q]
    BY <1>1, <1>4 DEF DInv, WakeInv, Semaphore
  <2> QED BY <1>2, <2>1, <2>2, WakeSame
<1> QED BY <1>3, <1>5, <1>6, <1>7, <1>8, <1>9 DEF DInv

LEMMA DaemonReadStep ==
  ASSUME DInv, daemonRead
  PROVE  DInv'
<1>1. /\ pc[Daemon] = "read" /\ S!Free(Daemon) /\ Daemon \in Client /\ Goto(Daemon, "loop")
      /\ currTime' = tod /\ curr' = delayd_h
      /\ UNCHANGED <<tod, adl, sems, node, secCnt, due>>
  BY DEF daemonRead, At, Client, locals
<1>2. /\ pc' \in [Client -> Label] /\ pc'[Daemon] = "loop"
      /\ \A q \in Client : q # Daemon => pc'[q] = pc[q]
      /\ \A q \in Uproc : pc'[q] = pc[q]
  BY <1>1, DoGoto, DelayAssumption DEF DInv, Label, DaemonLabel, Client
<1>3. TypeOK'
  BY <1>1 DEF DInv, TypeOK, adl
<1>4. LocalTypes'
  <2>1. currTime' <= tod'
    BY <1>1, DelayAssumption DEF DInv, TypeOK
  <2> QED BY <1>1, <1>2, <2>1 DEF DInv, LocalTypes, Client, sems, DaemonLabel
<1>5. LockInv'
  <2>1. \A r \in Client : InSection(r)' <=> InSection(r)
    BY <1>1, <1>2 DEF InSection, Client
  <2>2. Daemon \notin ToSet(waiting["ADLsem"])
    BY <1>1, FreeLock DEF DInv
  <2> QED BY <1>1, <1>2, <2>1, <2>2, LockSame DEF DInv, sems
<1>6. ListInv' /\ OwnerInv' /\ ADL' = ADL
  BY <1>1, <1>2, ListsSame DEF DInv
<1>7. CurrInv'
  BY <1>1, <1>2 DEF CurrInv, adl
<1>8. WakeInv'
  <2>1. \A q : Pending(q)' <=> Pending(q)
    BY <1>1, <1>2, <1>6 DEF Pending, adl
  <2> QED BY <1>1, <1>2, <2>1, WakeSame DEF DInv, WakeInv, sems
<1> QED BY <1>3, <1>4, <1>5, <1>6, <1>7, <1>8 DEF DInv

\* In the loop the current descriptor is the first of the ADL.
LEMMA FirstOfAdl ==
  ASSUME DInv, pc[Daemon] \in {"loop", "unlink"}
  PROVE  /\ curr = delayd_h /\ curr \in Node /\ curr \in ToSet(ADL)
         /\ d_supStruct[curr] # NULL => curr \in Delayed /\ d_supStruct[curr] \in Uproc
<1>1. curr = delayd_h
  BY DEF DInv, CurrInv
<1>2. IsList(ADL, delayd_h, d_next, NULL) /\ ADL # <<>> /\ NULL \notin DOMAIN d_next
  BY Nodes DEF DInv, ListInv, TypeOK
<1>3. delayd_h \in ToSet(ADL) /\ ToSet(ADL) \subseteq Node
  BY <1>2, ListFirst DEF DInv, TypeOK
<1> QED BY <1>1, <1>3 DEF DInv, OwnerInv, Delayed

LEMMA DaemonWakeStep ==
  ASSUME DInv, daemonWake
  PROVE  /\ DInv'
         /\ curr \in Delayed /\ Pending(d_supStruct[curr])
         /\ \A q \in Uproc : q # d_supStruct[curr] => (Pending(q)' <=> Pending(q))
<1>1. /\ pc[Daemon] = "loop" /\ Daemon \in Client /\ Expired(curr)
      /\ S!V(d_supStruct[curr]) /\ Goto(Daemon, "unlink")
      /\ UNCHANGED <<tod, adl, node, secCnt, due, currTime, curr>>
  BY DEF daemonWake, At, Client, locals
<1>2. /\ pc' \in [Client -> Label] /\ pc'[Daemon] = "unlink"
      /\ \A q \in Client : q # Daemon => pc'[q] = pc[q]
      /\ \A q \in Uproc : pc'[q] = pc[q]
  BY <1>1, DoGoto, DelayAssumption DEF DInv, Label, DaemonLabel, Client
<1>3. curr = delayd_h /\ curr \in Delayed /\ d_supStruct[curr] \in Uproc
  BY <1>1, FirstOfAdl DEF Expired
<1>4. PICK p \in Uproc : p = d_supStruct[curr]
  BY <1>3
<1>5. /\ sem' \in [Semaphore -> Int] /\ waiting' \in [Semaphore -> Seq(Client)]
      /\ sem'[p] = sem[p] + 1
      /\ waiting'[p] = IF waiting[p] = <<>> THEN <<>> ELSE Tail(waiting[p])
      /\ \A t \in Semaphore : t # p => sem'[t] = sem[t] /\ waiting'[t] = waiting[t]
  <2>1. p \in Semaphore /\ S!V(p)
    BY <1>1, <1>4 DEF Semaphore
  <2> QED BY <2>1, DoV DEF DInv
<1>6. "ADLsem" \in Semaphore /\ "ADLsem" # p
  BY DelayAssumption DEF Semaphore
<1>7. TypeOK'
  BY <1>1 DEF DInv, TypeOK, adl
<1>8. LocalTypes'
  BY <1>1, <1>2, <1>5 DEF DInv, LocalTypes, Client, Semaphore, DaemonLabel
<1>9. LockInv'
  <2>1. \A r \in Client : InSection(r)' <=> InSection(r)
    BY <1>1, <1>2 DEF InSection, Client
  <2>2. Daemon \notin ToSet(waiting["ADLsem"])
    BY <1>1, FreeLock DEF DInv
  <2> QED BY <1>2, <1>5, <1>6, <2>1, <2>2, LockSame DEF DInv
<1>10. ListInv' /\ OwnerInv' /\ ADL' = ADL
  BY <1>1, <1>2, ListsSame DEF DInv
<1>11. CurrInv'
  <2>1. d_supStruct[Dummy] = NULL /\ NULL \notin Uproc
    BY DelayAssumption DEF DInv, OwnerInv
  <2> QED BY <1>1, <1>3, <2>1 DEF CurrInv, adl
<1>12. WakeInv'
  <2> SUFFICES ASSUME NEW q \in Uproc PROVE WakeOf(q)'
    BY DEF WakeInv
  <2>1. WakeOf(q) /\ WakeOf(p)
    BY DEF DInv, WakeInv
  <2>2. Delayed \subseteq ToSet(ADL) /\ d_supStruct[Dummy] = NULL /\ NULL \notin Uproc
    BY DelayAssumption DEF Delayed, DInv, OwnerInv
  <2>3. CASE q # p
    <3>1. Pending(q)' <=> Pending(q)
      BY <1>1, <1>2, <1>4, <1>10, <2>3 DEF Pending, adl
    <3>2. sem'[q] = sem[q] /\ waiting'[q] = waiting[q]
      BY <1>5, <2>3 DEF Semaphore
    <3> QED BY <1>2, <2>1, <3>1, <3>2, WakeSame
  <2>4. CASE q = p
    <3>1. Pending(p)
      BY <1>1, <1>3, <1>4, <2>2 DEF Pending
    <3>2. ~Pending(p)'
      <4>1. \A n \in ToSet(ADL) : d_supStruct[n] = p => n \in Delayed
        BY <2>2 DEF Delayed
      <4>2. \A n \in ToSet(ADL) : d_supStruct[n] = p => n = curr
        BY <1>3, <1>4, <4>1 DEF DInv, OwnerInv
      <4> QED BY <1>1, <1>2, <1>10, <4>2 DEF Pending, adl
    <3>3. CASE pc[p] \in {"unlock", "sleep"} /\ sem[p] = 0
      <4>1. waiting[p] = <<>>
        BY <2>1, <2>4, <3>3 DEF WakeOf
      <4>2. sem'[p] = 1 /\ waiting'[p] = <<>>
        BY <1>5, <3>3, <4>1
      <4> QED BY <1>2, <2>4, <3>2, <3>3, <4>2 DEF WakeOf
    <3>4. CASE pc[p] = "resume" /\ sem[p] = -1
      <4>1. waiting[p] = <<p>>
        BY <2>1, <2>4, <3>4 DEF WakeOf
      <4>2. <<p>> # <<>> /\ Tail(<<p>>) = <<>>
        OBVIOUS
      <4>3. sem'[p] = 0 /\ waiting'[p] = <<>>
        BY <1>5, <3>4, <4>1, <4>2
      <4> QED BY <1>2, <2>4, <3>2, <3>4, <4>3 DEF WakeOf
    <3> QED BY <2>1, <2>4, <3>1, <3>3, <3>4 DEF WakeOf
  <2> QED BY <2>3, <2>4
<1>13. Pending(d_supStruct[curr])
  BY <1>1, <1>3 DEF Pending, Delayed
<1>14. \A q \in Uproc : q # d_supStruct[curr] => (Pending(q)' <=> Pending(q))
  BY <1>1, <1>2, <1>10 DEF Pending, adl
<1> QED BY <1>3, <1>13, <1>14, <1>7, <1>8, <1>9, <1>10, <1>11, <1>12 DEF DInv

\* The first descriptor of the ADL becomes the first of the free list.
LEMMA DaemonUnlinkStep ==
  ASSUME DInv, daemonUnlink
  PROVE  /\ DInv'
         /\ Delayed' = Delayed \ {curr} /\ \A q : Pending(q)' <=> Pending(q)
<1>1. /\ pc[Daemon] = "unlink" /\ Daemon \in Client /\ Goto(Daemon, "loop")
      /\ curr' = d_next[curr] /\ delayd_h' = d_next[curr]
      /\ d_next' = [d_next EXCEPT ![curr] = delaydFree_h] /\ delaydFree_h' = curr
      /\ UNCHANGED <<tod, d_wakeTime, d_supStruct, sems, node, secCnt, due, currTime>>
  BY DEF daemonUnlink, At, Client, locals
<1>2. /\ pc' \in [Client -> Label] /\ pc'[Daemon] = "loop"
      /\ \A q \in Client : q # Daemon => pc'[q] = pc[q]
      /\ \A q \in Uproc : pc'[q] = pc[q]
  BY <1>1, DoGoto, DelayAssumption DEF DInv, Label, DaemonLabel, Client
<1>3. curr = delayd_h /\ curr \in Node /\ curr \in ToSet(ADL) /\ curr # Dummy
  BY <1>1, FirstOfAdl DEF DInv, CurrInv
<1>4. /\ d_next \in [Node -> Node \cup {NULL}] /\ DOMAIN d_next = Node /\ NULL \notin Node
      /\ d_next' \in [Node -> Node \cup {NULL}] /\ DOMAIN d_next' = Node
      /\ d_next'[curr] = delaydFree_h /\ d_next[curr] \in Node \cup {NULL}
      /\ \A n \in Node : n # curr => d_next'[n] = d_next[n]
      /\ delayd_h # NULL
  BY <1>1, <1>3, Nodes DEF DInv, TypeOK
<1>5. /\ IsList(ADL, delayd_h, d_next, NULL) /\ IsList(Idle, delaydFree_h, d_next, NULL)
      /\ ToSet(ADL) \subseteq Node /\ ToSet(Idle) \subseteq Node /\ curr \notin ToSet(Idle)
      /\ ADL \in Seq(Node) /\ Len(ADL) \in Nat /\ Idle \in Seq(Node) /\ IsInjective(Idle)
      /\ Len(ADL) # 0 /\ ADL[1] = delayd_h /\ ADL[Len(ADL)] = Dummy /\ DOMAIN ADL = 1 .. Len(ADL)
      /\ ADL # <<>>
  BY <1>3, <1>4, ListFirst, EmptySeq DEF DInv, ListInv
<1>6. /\ IsList(Tail(ADL), d_next[curr], d_next, NULL)
      /\ ToSet(Tail(ADL)) = ToSet(ADL) \ {curr} /\ Len(Tail(ADL)) = Len(ADL) - 1
      /\ \A i \in 1 .. Len(ADL) - 1 : Tail(ADL)[i] = ADL[i+1]
  BY <1>3, <1>4, <1>5, ListPop
<1>7. IsList(Tail(ADL), d_next[curr], d_next', NULL)
  <2>1. \A n \in ToSet(Tail(ADL)) : d_next'[n] = d_next[n]
    BY <1>4, <1>5, <1>6
  <2> QED BY <1>4, <1>6, <2>1, ListElsewhere
<1>8. ADL' = Tail(ADL)
  <2>1. Walk(d_next[curr], d_next', NULL) = Tail(ADL)
    BY <1>4, <1>7, WalkOfList, Nodes
  <2> QED BY <1>1, <2>1 DEF ADL
<1>9. IsList(Inserted(curr, Idle, 0), curr, d_next', NULL)
  <2>1. \A n \in ToSet(Idle) : d_next'[n] = d_next[n]
    BY <1>4, <1>5
  <2>2. curr \in DOMAIN d_next /\ DOMAIN d_next' = DOMAIN d_next /\ NULL \notin DOMAIN d_next
    BY <1>3, <1>4
  <2> QED BY <1>4, <1>5, <2>1, <2>2, ListPush
<1>10. Idle' = Inserted(curr, Idle, 0) /\ ToSet(Idle') = ToSet(Idle) \cup {curr}
  <2>1. Walk(curr, d_next', NULL) = Inserted(curr, Idle, 0)
    BY <1>4, <1>9, WalkOfList, Nodes
  <2>2. 0 \in 0 .. Len(Idle)
    BY <1>5, LenProperties
  <2>3. ToSet(Inserted(curr, Idle, 0)) = ToSet(Idle) \cup {curr}
    BY <1>3, <1>5, <2>2, InsertedIs
  <2> QED BY <1>1, <2>1, <2>3 DEF Idle
<1>11. Len(ADL) - 1 \in 1 .. Len(ADL) - 1 /\ Tail(ADL) # <<>> /\ Tail(ADL)[Len(ADL) - 1] = Dummy
  <2>1. Len(ADL) # 1
    BY <1>3, <1>5
  <2>2. Len(ADL) - 1 \in 1 .. Len(ADL) - 1 /\ (Len(ADL) - 1) + 1 = Len(ADL)
    BY <1>5, <2>1
  <2>3. Tail(ADL) # <<>>
    <3>1. Len(<<>>) = 0
      OBVIOUS
    <3>2. Len(Tail(ADL)) # 0
      BY <1>5, <1>6, <2>1
    <3> QED BY <3>1, <3>2, Zenon
  <2> QED BY <1>5, <1>6, <2>2, <2>3
<1>12. InHand' = InHand
  BY <1>1, <1>2 DEF InHand
<1>13. ListInv'
  <2>1. /\ IsList(ADL, delayd_h, d_next, NULL)'
        /\ IsList(Idle, delaydFree_h, d_next, NULL)'
    BY <1>1, <1>7, <1>8, <1>9, <1>10
  <2>2. /\ (ToSet(ADL) \cap ToSet(Idle) = {})'
        /\ (InHand \cap (ToSet(ADL) \cup ToSet(Idle)) = {})'
        /\ (ToSet(ADL) \cup ToSet(Idle) \cup InHand = Node)'
    BY <1>3, <1>6, <1>8, <1>10, <1>12 DEF DInv, ListInv
  <2>3. (ADL # <<>> /\ ADL[Len(ADL)] = Dummy)'
    BY <1>6, <1>8, <1>11
  <2>4. ASSUME NEW i \in 1 .. Len(Tail(ADL)) - 1
        PROVE  d_wakeTime[Tail(ADL)[i]] <= d_wakeTime[Tail(ADL)[i+1]]
    <3>1. i + 1 \in 1 .. Len(ADL) - 1 /\ i \in 1 .. Len(ADL) - 1
      BY <1>5, <1>6
    <3> QED BY <1>6, <3>1 DEF DInv, ListInv
  <2>5. (\A i \in 1 .. Len(ADL) - 1 : d_wakeTime[ADL[i]] <= d_wakeTime[ADL[i+1]])'
    BY <1>1, <1>8, <2>4
  <2>6. (d_wakeTime[Dummy] = MAXINT)'
    BY <1>1 DEF DInv, ListInv
  <2> QED BY <2>1, <2>2, <2>3, <2>5, <2>6 DEF ListInv
<1>14. Delayed' = Delayed \ {curr}
  BY <1>6, <1>8 DEF Delayed
<1>15. OwnerInv'
  BY <1>1, <1>2, <1>14 DEF DInv, OwnerInv
<1>16. CurrInv'
  BY <1>1, <1>2 DEF CurrInv
<1>17. TypeOK'
  BY <1>1, <1>3, <1>4 DEF DInv, TypeOK
<1>18. LocalTypes'
  BY <1>1, <1>2 DEF DInv, LocalTypes, Client, sems, DaemonLabel
<1>19. LockInv'
  <2>1. \A r \in Client : InSection(r)' <=> InSection(r)
    BY <1>1, <1>2 DEF InSection, Client
  <2>2. Daemon \notin ToSet(waiting["ADLsem"])
    BY <1>1, FreeLock DEF DInv
  <2> QED BY <1>1, <1>2, <2>1, <2>2, LockSame DEF DInv, sems
<1>20. WakeInv'
  <2>1. \A q : Pending(q)' <=> Pending(q)
    BY <1>1, <1>2, <1>6, <1>8 DEF Pending
  <2> QED BY <1>1, <1>2, <2>1, WakeSame DEF DInv, WakeInv, sems
<1>21. \A q : Pending(q)' <=> Pending(q)
  BY <1>1, <1>2, <1>6, <1>8 DEF Pending
<1> QED BY <1>14, <1>21, <1>13, <1>15, <1>16, <1>17, <1>18, <1>19, <1>20 DEF DInv

LEMMA DaemonUnlockStep ==
  ASSUME DInv, daemonUnlock
  PROVE  DInv'
<1>1. /\ pc[Daemon] = "loop" /\ Daemon \in Client /\ "ADLsem" \in Semaphore
      /\ S!V("ADLsem") /\ Goto(Daemon, "waitclock") /\ "ADLsem" \notin Uproc
      /\ currTime' = 0 /\ curr' = NULL
      /\ UNCHANGED <<tod, adl, node, secCnt, due>>
  BY DelayAssumption DEF daemonUnlock, At, Client, Semaphore, locals
<1>2. /\ pc' \in [Client -> Label] /\ pc'[Daemon] = "waitclock"
      /\ \A q \in Client : q # Daemon => pc'[q] = pc[q]
      /\ \A q \in Uproc : pc'[q] = pc[q]
  BY <1>1, DoGoto, DelayAssumption DEF DInv, Label, DaemonLabel, Client
<1>3. TypeOK'
  BY <1>1, DelayAssumption DEF DInv, TypeOK, adl
<1>4. /\ sem' \in [Semaphore -> Int] /\ waiting' \in [Semaphore -> Seq(Client)]
      /\ \A t \in Semaphore : t # "ADLsem" => sem'[t] = sem[t] /\ waiting'[t] = waiting[t]
  BY <1>1, DoV DEF DInv
<1>5. LocalTypes'
  <2>1. currTime' <= tod'
    BY <1>1, DelayAssumption DEF DInv, TypeOK
  <2> QED BY <1>1, <1>2, <1>4, <2>1 DEF DInv, LocalTypes, Client, Semaphore, DaemonLabel
<1>6. LockInv'
  <2>1. InSection(Daemon) /\ ~InSection(Daemon)'
    BY <1>1, <1>2 DEF InSection
  <2>2. Holder(Daemon)
    BY <1>1, <2>1, Alone DEF DInv
  <2> QED BY <1>1, <2>1, <2>2, LockV DEF DInv, Label, DaemonLabel
<1>7. ListInv' /\ OwnerInv' /\ ADL' = ADL
  BY <1>1, <1>2, ListsSame DEF DInv
<1>8. CurrInv'
  BY <1>2 DEF CurrInv
<1>9. WakeInv'
  <2>1. \A q : Pending(q)' <=> Pending(q)
    BY <1>1, <1>2, <1>7 DEF Pending, adl
  <2> SUFFICES ASSUME NEW q \in Uproc PROVE WakeOf(q)'
    BY DEF WakeInv
  <2>2. WakeOf(q) /\ sem'[q] = sem[q] /\ waiting'[q] = waiting[q]
    BY <1>1, <1>4 DEF DInv, WakeInv, Semaphore
  <2> QED BY <1>2, <2>1, <2>2, WakeSame
<1> QED BY <1>3, <1>5, <1>6, <1>7, <1>8, <1>9 DEF DInv

-----------------------------------------------------------------------------
LEMMA InitInv == Init => DInv
<1> SUFFICES ASSUME Init PROVE DInv
  OBVIOUS
<1> DEFINE idle == [i \in 1 .. Dummy |-> Dummy - i]
<1>1. Dummy \in Nat \ {0} /\ Dummy \in Node /\ 0 \in Node /\ Dummy - 1 \in Node
  <2>1. Cardinality(Uproc) \in Nat \ {0}
    BY DelayAssumption, FS_CardinalityType, FS_EmptySet
  <2>2. Dummy \in Nat \ {0}
    BY <2>1, DelayAssumption DEF Dummy
  <2> QED BY <2>2 DEF Node
<1>2. /\ delayd_h = Dummy /\ delaydFree_h = Dummy - 1 /\ d_next \in [Node -> Node \cup {NULL}]
      /\ d_next[Dummy] = NULL /\ d_next[0] = NULL /\ DOMAIN d_next = Node /\ NULL \notin Node
      /\ \A n \in Node : n # 0 /\ n # Dummy => d_next[n] = n - 1
  <2>1. \A n \in Node : n # 0 => n - 1 \in Node
    BY <1>1 DEF Node
  <2>2. /\ delayd_h = Dummy /\ delaydFree_h = Dummy - 1
        /\ d_next = [n \in Node |-> IF n \in {0, Dummy} THEN NULL ELSE n - 1]
    BY DEF Init
  <2> QED BY <1>1, <2>1, <2>2, Nodes
<1>3. IsList(<<Dummy>>, delayd_h, d_next, NULL) /\ ToSet(<<Dummy>>) = {Dummy}
  BY <1>1, <1>2 DEF IsList, IsInjective, ToSet
<1>4. /\ idle \in Seq(Node) /\ Len(idle) = Dummy /\ DOMAIN idle = 1 .. Dummy
      /\ \A i \in 1 .. Dummy : idle[i] = Dummy - i
  <2>1. \A i \in 1 .. Dummy : Dummy - i \in Node
    BY <1>1 DEF Node
  <2>2. idle \in [1 .. Dummy -> Node] /\ \A i \in 1 .. Dummy : idle[i] = Dummy - i
    BY <2>1
  <2> HIDE DEF idle
  <2> QED BY <2>2, <1>1, IsASeq, LenProperties, SeqDef
<1> HIDE DEF idle
<1>5. IsList(idle, delaydFree_h, d_next, NULL)
  <2>1. IsInjective(idle)
    BY <1>1, <1>4 DEF IsInjective
  <2>2. 1 \in 1 .. Dummy /\ Dummy \in 1 .. Dummy /\ idle[1] = Dummy - 1 /\ idle[Dummy] = 0
    BY <1>1, <1>4
  <2>3. idle # <<>>
    BY <1>1, <1>4, EmptySeq
  <2>4. \A i \in 1 .. Dummy - 1 : d_next[idle[i]] = idle[i+1]
    <3> TAKE i \in 1 .. Dummy - 1
    <3>1. /\ i \in 1 .. Dummy /\ i + 1 \in 1 .. Dummy /\ Dummy - i \in Node
          /\ Dummy - i # 0 /\ Dummy - i # Dummy /\ (Dummy - i) - 1 = Dummy - (i + 1)
      BY <1>1 DEF Node
    <3> QED BY <1>2, <1>4, <3>1
  <2> QED BY <1>1, <1>2, <1>4, <2>1, <2>2, <2>3, <2>4 DEF IsList
<1>6. ToSet(idle) = Node \ {Dummy}
  <2>1. ASSUME NEW n \in Node, n # Dummy PROVE n \in ToSet(idle)
    <3>1. Dummy - n \in 1 .. Dummy /\ Dummy - (Dummy - n) = n
      BY <1>1, <2>1 DEF Node
    <3> QED BY <1>4, <3>1 DEF ToSet
  <2>2. \A i \in 1 .. Dummy : idle[i] \in Node /\ idle[i] # Dummy
    BY <1>1, <1>4 DEF Node
  <2> QED BY <1>4, <2>1, <2>2 DEF ToSet
<1>7. ADL = <<Dummy>> /\ Idle = idle
  BY <1>2, <1>3, <1>5, WalkOfList, Nodes DEF ADL, Idle
<1>8. /\ \A p \in Uproc : pc[p] = "user" /\ sem[p] = 0 /\ waiting[p] = <<>>
      /\ pc \in [Client -> {"user", "waitclock"}] /\ pc[Daemon] = "waitclock"
      /\ sem \in [Semaphore -> Int] /\ waiting \in [Semaphore -> Seq(Client)]
      /\ sem["ADLsem"] = 1 /\ waiting["ADLsem"] = <<>>
      /\ d_supStruct \in [Node -> {NULL}]
  <2>1. <<>> \in Seq(Client)
    OBVIOUS
  <2> QED BY <2>1, DelayAssumption DEF Init, Client, Semaphore
<1>9. d_wakeTime \in [Node -> -MAXINT - 1 .. MAXINT] /\ d_wakeTime[Dummy] = MAXINT
  <2>1. 0 \in -MAXINT - 1 .. MAXINT /\ MAXINT \in -MAXINT - 1 .. MAXINT
    BY DelayAssumption
  <2> QED BY <1>1, <2>1 DEF Init
<1>10. TypeOK
  BY <1>1, <1>2, <1>8, <1>9, DelayAssumption DEF Init, TypeOK
<1>11. LocalTypes
  <2>1. secCnt \in [Uproc -> Nat] /\ due \in [Uproc -> Nat] /\ currTime <= tod
    BY DEF Init
  <2> QED BY <1>8, <2>1 DEF LocalTypes, Label, UprocLabel, DaemonLabel, Client, Semaphore
<1>12. LockInv
  <2>1. ToSet(<<>>) = {} /\ IsInjective(<<>>)
    BY DEF ToSet, IsInjective
  <2>2. \A p \in Client : ~Holder(p)
    BY <1>8 DEF Holder, InSection
  <2> QED BY <1>8, <2>1, <2>2 DEF LockInv, Client
<1>13. InHand = {}
  BY <1>8 DEF InHand
<1>14. ListInv
  <2>1. ADL # <<>> /\ ADL[Len(ADL)] = Dummy /\ Len(ADL) = 1
    BY <1>7
  <2>2. ToSet(ADL) = {Dummy} /\ ToSet(Idle) = Node \ {Dummy}
    BY <1>3, <1>6, <1>7
  <2> QED BY <1>1, <1>3, <1>5, <1>7, <1>9, <1>13, <2>1, <2>2 DEF ListInv
<1>15. Delayed = {}
  BY <1>3, <1>7 DEF Delayed
<1>16. OwnerInv
  BY <1>1, <1>8, <1>15 DEF OwnerInv
<1>17. CurrInv
  BY <1>8 DEF CurrInv
<1>18. WakeInv
  <2>1. \A p \in Uproc : ~Pending(p)
    BY <1>1, <1>3, <1>7, <1>8, DelayAssumption DEF Pending
  <2> QED BY <1>8, <2>1 DEF WakeInv, WakeOf
<1> QED BY <1>10, <1>11, <1>12, <1>14, <1>16, <1>17, <1>18 DEF DInv

LEMMA StepInv == DInv /\ [Next]_vars => DInv'
<1> SUFFICES ASSUME DInv, [Next]_vars PROVE DInv'
  OBVIOUS
<1>1. CASE tick
  BY <1>1, TickStep
<1>2. CASE delayDaemon
  BY <1>2, DaemonLockStep, DaemonReadStep, DaemonWakeStep, DaemonUnlinkStep, DaemonUnlockStep
     DEF delayDaemon
<1>3. ASSUME NEW p \in Uproc, uproc(p) PROVE DInv'
  <2>1. CASE allocNode(p)
    BY <2>1, AllocFailStep, AllocStep
  <2> QED BY <1>3, <2>1, SupDelayStep, InsertStep, ReleaseStep, SleepStep, ResumeStep DEF uproc
<1>4. CASE UNCHANGED vars
  <2>1. /\ UNCHANGED <<tod, adl, sems, node, secCnt, due, pc, currTime, curr>>
    BY <1>4 DEF vars, locals
  <2>2. ListInv' /\ OwnerInv' /\ ADL' = ADL
    BY <2>1, ListsSame DEF DInv
  <2>3. LockInv' /\ CurrInv' /\ TypeOK' /\ LocalTypes'
    BY <2>1 DEF DInv, LockInv, Holder, InSection, CurrInv, TypeOK, LocalTypes, adl, sems
  <2>4. WakeInv'
    <3>1. \A q : Pending(q)' <=> Pending(q)
      BY <2>1, <2>2, PendingSame DEF adl
    <3> QED BY <2>1, <3>1, WakeSame DEF DInv, WakeInv, sems
  <2> QED BY <2>2, <2>3, <2>4 DEF DInv
<1> QED BY <1>1, <1>2, <1>3, <1>4 DEF Next

THEOREM DelayInvariant == Spec => []DInv
<1> QED BY InitInv, StepInv, PTL DEF Spec

\* Every descriptor is on exactly one of the lists or in the hands of the one
\* process in the critical section, and the ADL is sorted up to its dummy.
THEOREM DelayLists == Spec => []AdlInv
<1>1. ASSUME DInv PROVE AdlInv
  <2> USE <1>1
  <2>1. Holders = {p \in Client : Holder(p)}
    <3>1. \A p \in Uproc : p \in Holders <=> Holder(p)
      <4> TAKE p \in Uproc
      <4>1. p \in Client /\ p # Daemon /\ pc[p] \in UprocLabel
        BY DelayAssumption DEF Client, DInv, LocalTypes
      <4> QED BY <4>1, FreeLock DEF Holders, Holder, InSection, At, DInv, UprocLabel
    <3>2. Daemon \in Holders <=> Holder(Daemon)
      <4>1. Daemon \in Client /\ Daemon \notin Uproc
        BY DelayAssumption DEF Client
      <4> QED BY <4>1, FreeLock DEF Holders, Holder, InSection, At, DInv
    <3>3. Holders \subseteq Client
      BY DEF Holders, Client
    <3> QED BY <3>1, <3>2, <3>3 DEF Client
  <2>2. Cardinality(Holders) + (IF sem["ADLsem"] > 0 THEN 1 ELSE 0) = 1
    <3>1. CASE sem["ADLsem"] = 1 /\ \A p \in Client : ~Holder(p)
      <4>1. Cardinality(Holders) = 0
        BY <2>1, <3>1, FS_EmptySet
      <4> QED BY <3>1, <4>1
    <3>2. CASE /\ sem["ADLsem"] + Len(waiting["ADLsem"]) = 0
               /\ \E h \in Client : Holder(h)
               /\ \A p, q \in Client : Holder(p) /\ Holder(q) => p = q
      <4>1. PICK h \in Client : Holders = {h}
        BY <2>1, <3>2
      <4>2. Cardinality(Holders) = 1
        BY <4>1, FS_Singleton
      <4>3. Len(waiting["ADLsem"]) \in Nat /\ sem["ADLsem"] \in Int
        BY LenProperties DEF DInv, LocalTypes
      <4>4. ~(sem["ADLsem"] > 0)
        BY <3>2, <4>3
      <4> QED BY <4>2, <4>4
    <3> QED BY <3>1, <3>2 DEF DInv, LockInv, Client
  <2>3. /\ IsList(ADL, delayd_h, d_next, NULL) /\ IsList(Idle, delaydFree_h, d_next, NULL)
        /\ ToSet(ADL) \cap ToSet(Idle) = {} /\ NULL \notin DOMAIN d_next
        /\ ADL # <<>> /\ ADL[Len(ADL)] = Dummy
    BY Nodes DEF DInv, ListInv, TypeOK
  <2>4. /\ ADL \in Seq(DOMAIN d_next) /\ IsInjective(ADL)
        /\ Idle \in Seq(DOMAIN d_next) /\ IsInjective(Idle)
    BY <2>3, ListFirst
  <2>5. IsInjective(ADL \o Idle) /\ ToSet(ADL \o Idle) = ToSet(ADL) \cup ToSet(Idle)
    BY <2>3, <2>4, ConcatMember
  <2>6. ToSet(ADL \o Idle) = Node \ InHand
    BY <2>5 DEF DInv, ListInv
  <2>7. Last(ADL) = Dummy
    BY <2>3 DEF Last
  <2> QED BY <2>2, <2>5, <2>6, <2>7 DEF AdlInv, InHand, DInv, ListInv
<1> QED BY <1>1, DelayInvariant, PTL

\* Each P of a delayed U-proc on its private semaphore meets exactly one V of
\* the daemon, whichever comes first.
THEOREM DelayWakes == Spec => []WakeBalance
<1>1. ASSUME DInv PROVE WakeBalance
  <2> SUFFICES ASSUME NEW p \in Uproc
               PROVE  LET asleep == pc[p] \in {"unlock", "sleep"} \/ (pc[p] = "resume" /\ ~S!Free(p)) IN
                      /\ Pending(p) => asleep
                      /\ asleep /\ ~Pending(p) => pc[p] \in {"unlock", "sleep"} /\ sem[p] = 1
                      /\ ~asleep => sem[p] = 0
    BY DEF WakeBalance
  <2>1. p \in Client /\ p # Daemon
    BY DelayAssumption DEF Client
  <2>2. pc[p] = "resume" => (S!Free(p) <=> sem[p] # -1)
    BY <1>1, <2>1, FreeLock DEF DInv
  <2>3. WakeOf(p)
    BY <1>1 DEF DInv, WakeInv
  <2> QED BY <2>2, <2>3 DEF WakeOf
<1> QED BY <1>1, DelayInvariant, PTL

\* There is a descriptor for every U-proc: each of those in use belongs to
\* another U-proc, and the dummy to none.
THEOREM DelayNeverExhausted == Spec => []NeverExhausted
<1>1. ASSUME DInv PROVE NeverExhausted
  <2> SUFFICES ASSUME NEW p \in Uproc, At(p, "alloc"), delaydFree_h = NULL PROVE FALSE
    BY DEF NeverExhausted
  <2>1. pc[p] = "alloc" /\ S!Free(p) /\ p \in Client /\ p # Daemon
    BY DelayAssumption DEF At, Client
  <2>2. \A q \in Client : q # p => pc[q] \notin {"insert", "unlock", "loop", "unlink"}
    BY <1>1, <2>1, Alone DEF DInv, InSection
  <2>3. InHand = {} /\ pc[Daemon] # "unlink"
    BY <2>1, <2>2 DEF InHand, Client
  <2>4. ToSet(Idle) = {}
    <3>1. Idle = <<>>
      BY <1>1, Nodes, ListFirst DEF DInv, ListInv, TypeOK
    <3> QED BY <3>1 DEF ToSet
  <2>5. ToSet(ADL) = Node /\ Delayed = Node \ {Dummy}
    BY <1>1, <2>3, <2>4 DEF DInv, ListInv, Delayed
  <2>6. IsFiniteSet(Delayed) /\ Cardinality(Delayed) = DELAY_LIST_SIZE - 1
    BY <2>5, Nodes, FS_RemoveElement
  <2>7. \A n \in Delayed : d_supStruct[n] \in Uproc \ {p}
    <3>1. \A n \in Delayed : d_supStruct[n] # p
      <4> SUFFICES ASSUME NEW n \in Delayed, d_supStruct[n] = p PROVE FALSE
        OBVIOUS
      <4>1. Pending(p)
        BY <2>3 DEF Pending, Delayed
      <4> QED BY <1>1, <2>1, <4>1 DEF DInv, WakeInv, WakeOf
    <3> QED BY <1>1, <3>1 DEF DInv, OwnerInv
  <2>8. IsFiniteSet(Uproc \ {p}) /\ Cardinality(Uproc \ {p}) = Cardinality(Uproc) - 1
    BY DelayAssumption, FS_RemoveElement
  <2>9. [n \in Delayed |-> d_supStruct[n]] \in Injection(Delayed, Uproc \ {p})
    BY <1>1, <2>7 DEF Injection, IsInjective, DInv, OwnerInv
  <2>10. Cardinality(Delayed) <= Cardinality(Uproc \ {p})
    BY <2>6, <2>8, <2>9, FS_Injection DEF ExistsInjection
  <2> QED BY <2>6, <2>8, <2>10, DelayAssumption, FS_CardinalityType
<1> QED BY <1>1, DelayInvariant, PTL

-----------------------------------------------------------------------------
\* A step of another process that leaves a U-proc's descriptor alone.
LEMMA TimeSame ==
  ASSUME DInv, NEW p \in Uproc, TimeOf(p), tod' \in Nat, tod <= tod',
         pc'[p] = pc[p], node'[p] = node[p], due'[p] = due[p], secCnt'[p] = secCnt[p],
         pc[p] = "alloc" => tod' = tod \/ tod' <= LastCall,
         d_wakeTime' = d_wakeTime, d_supStruct' = d_supStruct,
         \A n \in Delayed' : d_supStruct[n] = p => n \in Delayed, Pending(p)' <=> Pending(p)
  PROVE  TimeOf(p)'
<1>1. tod \in Nat /\ due[p] \in Nat /\ LastCall \in Nat
  BY DelayAssumption DEF DInv, TypeOK, LocalTypes
<1>2. pc[p] = "alloc" => tod' <= LastCall /\ secCnt'[p] \in Secs
  BY <1>1 DEF TimeOf
<1>3. ~Pending(p)' /\ pc[p] \in {"unlock", "sleep", "resume"} => due[p] <= tod'
  BY <1>1 DEF TimeOf
<1>4. \A n \in Delayed' : d_supStruct[n] = p /\ Pending(p) => d_wakeTime[n] = due[p]
  BY DEF TimeOf
<1>5. pc[p] = "insert" => d_wakeTime'[node'[p]] = due'[p]
  BY DEF TimeOf
<1> QED BY <1>2, <1>3, <1>4, <1>5 DEF TimeOf

\* A step that leaves the descriptors and the daemon's locals alone.
LEMMA Quiet ==
  ASSUME DInv, UNCHANGED <<adl, curr>>, pc'[Daemon] = "unlink" <=> pc[Daemon] = "unlink"
  PROVE  /\ Delayed' = Delayed /\ d_wakeTime' = d_wakeTime /\ d_supStruct' = d_supStruct
         /\ \A q : Pending(q)' <=> Pending(q)
<1>1. ADL' = ADL
  BY DEF ADL, adl
<1> QED BY <1>1, PendingSame DEF Delayed, adl

LEMMA TimeUproc ==
  ASSUME NoOverflow, DInv, TimeInv, NEW p \in Uproc, uproc(p)
  PROVE  TimeInv'
<1>1. /\ p \in Client /\ p # Daemon /\ Daemon \in Client /\ pc \in [Client -> Label]
      /\ tod \in Nat /\ LastCall \in Nat
  BY DelayAssumption DEF Client, DInv, LocalTypes, TypeOK
<1>2. /\ tod' = tod /\ currTime' = currTime /\ curr' = curr
      /\ \A q \in Client : q # p => pc'[q] = pc[q]
  BY <1>1 DEF uproc, supDelay, allocNode, insertNode, releaseADL, sleep, resume, Goto
<1>3. pc'[Daemon] = pc[Daemon]
  BY <1>1, <1>2
<1>4. /\ \A q \in Uproc : q # p =>
           pc'[q] = pc[q] /\ node'[q] = node[q] /\ due'[q] = due[q] /\ secCnt'[q] = secCnt[q]
  <2>1. \A q \in Uproc : q # p => pc'[q] = pc[q]
    BY <1>2 DEF Client
  <2>2. /\ node \in [Uproc -> Node \cup {NULL}] /\ due \in [Uproc -> Nat] /\ secCnt \in [Uproc -> Nat]
    BY DEF DInv, TypeOK, LocalTypes
  <2> QED BY <2>1, <2>2
          DEF uproc, supDelay, allocNode, insertNode, releaseADL, sleep, resume, locals
<1>5. TimeOf(p) /\ \A q \in Uproc : TimeOf(q)
  BY DEF TimeInv
<1>6. CASE supDelay(p) \/ releaseADL(p) \/ sleep(p) \/ resume(p)
             \/ (allocNode(p) /\ delaydFree_h = NULL)
  <2>1. /\ UNCHANGED adl /\ UNCHANGED node
        /\ resume(p) \/ due' = due
    BY <1>6 DEF supDelay, releaseADL, sleep, resume, allocNode, locals
  <2>2. /\ Delayed' = Delayed /\ d_wakeTime' = d_wakeTime /\ d_supStruct' = d_supStruct
        /\ \A q : Pending(q)' <=> Pending(q)
    BY <1>2, <1>3, <2>1, Quiet
  <2>3. ASSUME NEW q \in Uproc, q # p PROVE TimeOf(q)'
    BY <1>1, <1>2, <1>4, <1>5, <2>2, <2>3, TimeSame
  <2>4. TimeOf(p)'
    <3>1. CASE supDelay(p)
      <4>1. /\ pc[p] = "user" /\ tod < LastCall
            /\ pc'[p] = "ended" \/ (pc'[p] = "alloc" /\ secCnt'[p] \in Secs)
        <5>1. secCnt \in [Uproc -> Nat]
          BY DEF DInv, LocalTypes
        <5> QED BY <1>1, <3>1, <5>1 DEF supDelay, At, Goto
      <4>2. ~Pending(p)
        BY <4>1 DEF DInv, WakeInv, WakeOf
      <4>3. tod' <= LastCall
        BY <1>1, <1>2, <4>1
      <4> QED BY <2>2, <4>1, <4>2, <4>3 DEF TimeOf
    <3>2. CASE releaseADL(p) \/ sleep(p)
      <4>1. pc[p] \in {"unlock", "sleep"} /\ pc'[p] \in {"sleep", "resume"} /\ due' = due
        BY <1>1, <3>2 DEF releaseADL, sleep, At, Goto, locals
      <4> QED BY <1>2, <1>5, <2>2, <4>1 DEF TimeOf
    <3>3. CASE resume(p) \/ allocNode(p)
      <4>1. pc'[p] \in {"user", "ended"}
        BY <1>1, <1>6, <3>3 DEF resume, allocNode, At, Goto, supDelay, releaseADL, sleep
      <4>2. ~Pending(p)'
        BY <1>6, <4>1, AllocFailStep, SupDelayStep, ReleaseStep, SleepStep, ResumeStep
           DEF DInv, WakeInv, WakeOf
      <4> QED BY <4>1, <4>2 DEF TimeOf
    <3> QED BY <1>6, <3>1, <3>2, <3>3
  <2> QED BY <2>3, <2>4 DEF TimeInv
<1>7. CASE allocNode(p) /\ delaydFree_h # NULL
  <2> DEFINE h == delaydFree_h
  <2>1. /\ Delayed' = Delayed /\ (\A q \in Uproc : Pending(q)' <=> Pending(q))
        /\ \A m \in Delayed : d_wakeTime'[m] = d_wakeTime[m] /\ d_supStruct'[m] = d_supStruct[m]
    BY <1>7, AllocStep
  <2>2. /\ pc[p] = "alloc" /\ pc'[p] = "insert" /\ node'[p] = h /\ h \in Node
        /\ d_wakeTime'[h] = Wrap(tod + Wrap(secCnt[p] * SECOND))
        /\ due'[p] = tod + secCnt[p] * SECOND /\ d_wakeTime' = [d_wakeTime EXCEPT ![h] = d_wakeTime'[h]]
    BY <1>1, <1>7, <1>2 DEF allocNode, At, Goto, DInv, TypeOK, LocalTypes
  <2>3. Wrap(tod + Wrap(secCnt[p] * SECOND)) = tod + secCnt[p] * SECOND
    <3>1. /\ secCnt[p] \in Secs /\ tod <= LastCall /\ secCnt[p] \in Nat
          /\ SECOND \in Nat /\ MAXINT \in Nat
      BY <1>5, <2>2, DelayAssumption DEF TimeOf, DInv, LocalTypes
    <3>2. secCnt[p] * SECOND + LastCall <= MAXINT
      BY <3>1 DEF NoOverflow
    <3>3. PICK k \in Nat : k = secCnt[p] * SECOND
      BY <3>1
    <3>4. k \in 0 .. MAXINT /\ tod + k \in 0 .. MAXINT
      BY <1>1, <3>1, <3>2, <3>3
    <3>5. Wrap(k) = k /\ Wrap(tod + k) = tod + k
      BY <3>4, WrapInt
    <3> QED BY <3>3, <3>5
  <2>4. ASSUME NEW q \in Uproc, q # p PROVE TimeOf(q)'
    <3>1. pc[q] # "insert"
      <4>1. InSection(p) /\ S!Free(p)
        BY <1>7, <2>2, <1>1 DEF InSection, allocNode, At
      <4> QED BY <1>1, <2>4, <4>1, Alone DEF DInv, Client
    <3>2. TimeOf(q) /\ pc'[q] = pc[q] /\ due'[q] = due[q] /\ secCnt'[q] = secCnt[q]
          /\ (Pending(q)' <=> Pending(q))
      BY <1>4, <1>5, <2>1, <2>4
    <3> QED BY <1>2, <2>1, <3>1, <3>2 DEF TimeOf
  <2>5. TimeOf(p)'
    <3>1. ~Pending(p)
      BY <2>2 DEF DInv, WakeInv, WakeOf
    <3> QED BY <2>1, <2>2, <2>3, <3>1 DEF TimeOf
  <2> QED BY <2>4, <2>5 DEF TimeInv
<1>8. CASE insertNode(p)
  <2>1. /\ Delayed' = Delayed \cup {node[p]} /\ d_supStruct[node[p]] = p
        /\ Pending(p)' /\ (\A q \in Uproc : q # p => (Pending(q)' <=> Pending(q)))
    BY <1>8, InsertStep
  <2>2. /\ pc[p] = "insert" /\ pc'[p] = "unlock" /\ due' = due
        /\ d_wakeTime' = d_wakeTime /\ d_supStruct' = d_supStruct
    BY <1>1, <1>8 DEF insertNode, At, Goto
  <2>3. ASSUME NEW q \in Uproc, q # p PROVE TimeOf(q)'
    BY <1>1, <1>2, <1>4, <1>5, <2>1, <2>2, <2>3, TimeSame
  <2>4. TimeOf(p)'
    <3>1. \A n \in Delayed : d_supStruct[n] # p
      <4> SUFFICES ASSUME NEW n \in Delayed, d_supStruct[n] = p PROVE FALSE
        OBVIOUS
      <4>1. InSection(p) /\ pc[Daemon] # "unlink"
        BY <1>1, <2>2, Alone DEF InSection, DInv
      <4>2. Pending(p)
        BY <4>1 DEF Pending, Delayed
      <4> QED BY <2>2, <4>2 DEF DInv, WakeInv, WakeOf
    <3>2. d_wakeTime[node[p]] = due[p]
      BY <1>5, <2>2 DEF TimeOf
    <3> QED BY <2>1, <2>2, <3>1, <3>2 DEF TimeOf
  <2> QED BY <2>3, <2>4 DEF TimeInv
<1> QED BY <1>6, <1>7, <1>8 DEF uproc

LEMMA TimeDaemon ==
  ASSUME DInv, TimeInv, tick \/ delayDaemon
  PROVE  TimeInv'
<1>1. /\ Daemon \in Client /\ Daemon \notin Uproc /\ pc \in [Client -> Label] /\ Uproc \subseteq Client
      /\ tod \in Nat /\ LastCall \in Nat /\ currTime \in Nat
  BY DelayAssumption DEF Client, DInv, LocalTypes, TypeOK
<1>2. /\ node' = node /\ due' = due /\ secCnt' = secCnt
      /\ \A q \in Uproc : pc'[q] = pc[q]
      /\ d_wakeTime' = d_wakeTime /\ d_supStruct' = d_supStruct
  BY <1>1 DEF tick, delayDaemon, daemonLock, daemonRead, daemonWake, daemonUnlink, daemonUnlock,
              Goto, locals, adl
<1>3. /\ tod' \in Nat /\ tod <= tod'
      /\ \A q \in Uproc : pc[q] = "alloc" => tod' = tod \/ tod' <= LastCall
  <2>1. CASE tick
    <3>1. tod' = IF ClockRuns THEN tod + 1 ELSE tod
      BY <2>1 DEF tick
    <3>2. ClockRuns => tod + 1 <= LastCall \/ \A q \in Uproc : pc[q] # "alloc"
      BY <1>1 DEF ClockRuns
    <3>3. CASE ClockRuns
      BY <1>1, <3>1, <3>2, <3>3
    <3>4. CASE ~ClockRuns
      BY <1>1, <3>1, <3>4
    <3> QED BY <3>3, <3>4
  <2>2. CASE delayDaemon
    <3>1. tod' = tod
      BY <2>2 DEF delayDaemon, daemonLock, daemonRead, daemonWake, daemonUnlink, daemonUnlock
    <3> QED BY <1>1, <3>1
  <2> QED BY <2>1, <2>2
<1>4. \A q \in Uproc : TimeOf(q)
  BY DEF TimeInv
<1>5. ASSUME NEW q \in Uproc, \A n \in Delayed' : d_supStruct[n] = q => n \in Delayed,
             Pending(q)' <=> Pending(q)
      PROVE  TimeOf(q)'
  BY <1>2, <1>3, <1>4, <1>5, TimeSame
<1>6. CASE daemonWake
  <2>1. /\ curr \in Delayed /\ Pending(d_supStruct[curr]) /\ Delayed' = Delayed
        /\ \A q \in Uproc : q # d_supStruct[curr] => (Pending(q)' <=> Pending(q))
    <3>1. Delayed' = Delayed
      BY <1>6 DEF daemonWake, Delayed, ADL, adl
    <3> QED BY <1>6, <3>1, DaemonWakeStep
  <2>2. ASSUME NEW q \in Uproc, q = d_supStruct[curr] PROVE TimeOf(q)'
    <3>1. TimeOf(q) /\ Pending(q)
      BY <1>4, <2>1, <2>2
    <3>2. d_wakeTime[curr] = due[q]
      BY <2>1, <2>2, <3>1 DEF TimeOf
    <3>3. d_wakeTime[curr] <= currTime /\ currTime <= tod
      BY <1>6 DEF daemonWake, Expired, DInv, LocalTypes
    <3>4. due[q] \in Nat
      BY DEF DInv, LocalTypes
    <3>5. due[q] <= tod'
      BY <1>1, <1>3, <3>2, <3>3, <3>4
    <3>6. pc[q] \notin {"alloc", "insert"}
      BY <3>1 DEF DInv, WakeInv, WakeOf
    <3>7. \A n \in Delayed' : d_supStruct'[n] = q => d_wakeTime'[n] = due'[q]
      BY <1>2, <2>1, <3>1 DEF TimeOf
    <3> QED BY <1>2, <3>5, <3>6, <3>7 DEF TimeOf
  <2> QED BY <1>5, <2>1, <2>2 DEF TimeInv
<1>7. CASE daemonUnlink
  BY <1>5, <1>7, DaemonUnlinkStep DEF TimeInv
<1>8. CASE daemonRead \/ daemonUnlock
  <2>1. ADL' = ADL /\ d_supStruct' = d_supStruct
    BY <1>8 DEF daemonRead, daemonUnlock, ADL, adl
  <2>2. pc[Daemon] \in {"read", "loop"} /\ pc'[Daemon] \in {"loop", "waitclock"}
    BY <1>1, <1>8 DEF daemonRead, daemonUnlock, At, Goto
  <2>3. Delayed' = Delayed /\ \A q : Pending(q)' <=> Pending(q)
    BY <2>1, <2>2 DEF Delayed, Pending
  <2> QED BY <1>5, <2>3 DEF TimeInv
<1>9. CASE tick \/ daemonLock
  <2>1. UNCHANGED <<adl, curr>>
    BY <1>9 DEF tick, daemonLock
  <2>2. pc'[Daemon] = "unlink" <=> pc[Daemon] = "unlink"
    BY <1>1, <1>9 DEF tick, daemonLock, At, Goto
  <2>3. Delayed' = Delayed /\ \A q : Pending(q)' <=> Pending(q)
    BY <2>1, <2>2, Quiet
  <2> QED BY <1>5, <2>3 DEF TimeInv
<1> QED BY <1>6, <1>7, <1>8, <1>9 DEF delayDaemon

LEMMA TimeInvariant == NoOverflow => (Spec => [](DInv /\ TimeInv))
<1> SUFFICES ASSUME NoOverflow PROVE Spec => [](DInv /\ TimeInv)
  OBVIOUS
<1>1. Init => DInv /\ TimeInv
  <2> SUFFICES ASSUME Init PROVE DInv /\ TimeInv
    OBVIOUS
  <2>1. DInv
    BY InitInv
  <2>2. \A p \in Uproc : pc[p] = "user"
    BY DelayAssumption DEF Init
  <2>3. \A p \in Uproc : ~Pending(p)
    BY <2>1, <2>2 DEF DInv, WakeInv, WakeOf
  <2> QED BY <2>1, <2>2, <2>3 DEF TimeInv, TimeOf
<1>2. DInv /\ TimeInv /\ [Next]_vars => DInv' /\ TimeInv'
  <2> SUFFICES ASSUME DInv, TimeInv, [Next]_vars PROVE DInv' /\ TimeInv'
    OBVIOUS
  <2>1. DInv'
    BY StepInv
  <2>2. CASE tick \/ delayDaemon
    BY <2>1, <2>2, TimeDaemon
  <2>3. ASSUME NEW p \in Uproc, uproc(p) PROVE TimeInv'
    BY <2>3, TimeUproc
  <2>4. CASE UNCHANGED vars
    <3>1. UNCHANGED <<tod, adl, pc, node, secCnt, due, curr>>
      BY <2>4 DEF vars, locals
    <3>2. /\ Delayed' = Delayed /\ d_wakeTime' = d_wakeTime /\ d_supStruct' = d_supStruct
          /\ \A q : Pending(q)' <=> Pending(q)
      BY <3>1, Quiet
    <3>3. tod' \in Nat /\ tod' = tod /\ tod <= tod'
      BY <3>1 DEF DInv, TypeOK
    <3>4. ASSUME NEW p \in Uproc PROVE TimeOf(p)'
      <4>1. TimeOf(p)
        BY DEF TimeInv
      <4> QED BY <3>1, <3>2, <3>3, <4>1, TimeSame
    <3> QED BY <2>1, <3>4 DEF TimeInv
  <2>5. TimeInv'
    BY <2>2, <2>3, <2>4 DEF Next
  <2> QED BY <2>1, <2>5
<1> QED BY <1>1, <1>2, PTL DEF Spec

\* A delayed U-proc does not go on before its time, as long as no sum of a
\* time of day and a delay overflows an int.
THEOREM DelayNeverEarly == NoOverflow => (Spec => []NeverEarly)
<1>1. DInv /\ TimeInv => NeverEarly
  <2> SUFFICES ASSUME DInv, TimeInv, NEW p \in Uproc, At(p, "resume") PROVE tod >= due[p]
    BY DEF NeverEarly
  <2>1. pc[p] = "resume" /\ S!Free(p) /\ p \in Client /\ p # Daemon
    BY DelayAssumption DEF At, Client
  <2>2. sem[p] # -1
    BY <2>1, FreeLock DEF DInv
  <2>3. ~Pending(p)
    BY <2>1, <2>2 DEF DInv, WakeInv, WakeOf
  <2>4. due[p] <= tod /\ due[p] \in Nat /\ tod \in Nat
    BY <2>1, <2>3 DEF TimeInv, TimeOf, DInv, LocalTypes, TypeOK
  <2> QED BY <2>4
<1> QED BY <1>1, TimeInvariant, PTL

\* The descriptors, the lock and the daemon implement the alarm clock: a step
\* is the start of a delay, its end, the passing of time, or none of them.
THEOREM DelayImplements == NoOverflow => (Spec => Implements)
<1> SUFFICES ASSUME NoOverflow PROVE Spec => Implements
  OBVIOUS
<1> DEFINE deadline == [p \in Uproc |->
                 IF pc[p] \in {"insert", "unlock", "sleep", "resume"} THEN due[p] ELSE NULL]
<1>1. Init => AlarmClock!Init
  BY DelayAssumption DEF Init, AlarmClock!Init
<1>2. DInv /\ TimeInv /\ [Next]_vars => [AlarmClock!Next]_<<tod, deadline>>
  <2> SUFFICES ASSUME DInv, TimeInv, [Next]_vars
               PROVE  [AlarmClock!Next]_<<tod, deadline>>
    OBVIOUS
  <2>1. /\ Daemon \in Client /\ Daemon \notin Uproc /\ pc \in [Client -> Label] /\ Uproc \subseteq Client
        /\ tod \in Nat /\ due \in [Uproc -> Nat] /\ NULL \notin Int
    BY DelayAssumption DEF Client, DInv, LocalTypes, TypeOK
  <2>2. CASE tick
    <3>1. \A p \in Uproc : pc'[p] = pc[p]
      BY <2>1, <2>2 DEF tick, Goto
    <3>2. deadline' = deadline
      BY <2>2, <3>1 DEF tick, locals
    <3>3. tod' = tod \/ tod' > tod
      BY <2>1, <2>2 DEF tick
    <3> QED BY <3>2, <3>3 DEF AlarmClock!Next, AlarmClock!Pass
  <2>3. CASE delayDaemon
    <3>1. /\ \A p \in Uproc : pc'[p] = pc[p]
          /\ tod' = tod /\ due' = due
      BY <2>1, <2>3 DEF delayDaemon, daemonLock, daemonRead, daemonWake, daemonUnlink, daemonUnlock,
                        Goto, locals
    <3> QED BY <3>1
  <2>4. ASSUME NEW p \in Uproc, uproc(p) PROVE [AlarmClock!Next]_<<tod, deadline>>
    <3>1. /\ p \in Client /\ tod' = tod
          /\ \A q \in Uproc : q # p => pc'[q] = pc[q] /\ due'[q] = due[q]
      BY <2>1, <2>4 DEF uproc, supDelay, allocNode, insertNode, releaseADL, sleep, resume, Goto, locals
    <3>2. \A q \in Uproc : q # p => deadline'[q] = deadline[q]
      BY <3>1
    <3>3. CASE supDelay(p) \/ insertNode(p) \/ releaseADL(p) \/ sleep(p)
               \/ (allocNode(p) /\ delaydFree_h = NULL)
      <4>1. due' = due
        BY <3>3 DEF supDelay, insertNode, releaseADL, sleep, allocNode, locals
      <4>2. \/ /\ pc[p] \in {"user", "alloc"}
               /\ pc'[p] \in {"alloc", "ended"}
            \/ /\ pc[p] \in {"insert", "unlock", "sleep"}
               /\ pc'[p] \in {"unlock", "sleep", "resume"}
        BY <2>1, <3>1, <3>3 DEF supDelay, insertNode, releaseADL, sleep, allocNode, At, Goto
      <4>3. deadline'[p] = deadline[p]
        BY <4>1, <4>2
      <4>4. deadline' = deadline
        BY <3>2, <4>3
      <4> QED BY <3>1, <4>4
    <3>4. CASE allocNode(p) /\ delaydFree_h # NULL
      <4>1. /\ pc[p] = "alloc" /\ pc'[p] = "insert" /\ due'[p] = tod + secCnt[p] * SECOND
        BY <2>1, <3>1, <3>4 DEF allocNode, At, Goto
      <4>2. tod + secCnt[p] * SECOND \in Nat /\ tod + secCnt[p] * SECOND >= tod
        <5>1. secCnt[p] \in Nat /\ SECOND \in Nat
          BY DelayAssumption DEF DInv, LocalTypes
        <5>2. secCnt[p] * SECOND \in Nat
          BY <5>1
        <5> QED BY <2>1, <5>2
      <4>3. deadline[p] = NULL /\ deadline'[p] = tod + secCnt[p] * SECOND
        BY <4>1
      <4>4. deadline' = [deadline EXCEPT ![p] = deadline'[p]]
        BY <3>2
      <4>5. deadline'[p] # NULL /\ deadline'[p] >= tod
        BY <2>1, <4>2, <4>3
      <4>6. AlarmClock!Sleep(p)
        BY <3>1, <4>3, <4>4, <4>5 DEF AlarmClock!Sleep
      <4> QED BY <4>6 DEF AlarmClock!Next
    <3>5. CASE resume(p)
      <4>1. pc[p] = "resume" /\ pc'[p] = "user" /\ S!Free(p) /\ p # Daemon
        BY <2>1, <3>1, <3>5 DEF resume, At, Goto
      <4>2. tod >= due[p]
        <5>1. sem[p] # -1
          BY <3>1, <4>1, FreeLock DEF DInv
        <5>2. ~Pending(p)
          BY <4>1, <5>1 DEF DInv, WakeInv, WakeOf
        <5>3. due[p] <= tod /\ due[p] \in Nat
          BY <2>1, <4>1, <5>2 DEF TimeInv, TimeOf
        <5> QED BY <2>1, <5>3
      <4>3. deadline[p] = due[p] /\ deadline'[p] = NULL
        BY <4>1
      <4>4. deadline' = [deadline EXCEPT ![p] = NULL]
        BY <3>2, <4>3
      <4>5. due[p] # NULL
        BY <2>1
      <4>6. AlarmClock!WakeUp(p)
        BY <3>1, <4>2, <4>3, <4>4, <4>5 DEF AlarmClock!WakeUp
      <4> QED BY <4>6 DEF AlarmClock!Next
    <3> QED BY <2>4, <3>3, <3>4, <3>5 DEF uproc
  <2>5. CASE UNCHANGED vars
    BY <2>5 DEF vars, locals
  <2> QED BY <2>2, <2>3, <2>4, <2>5 DEF Next
<1> QED BY <1>1, <1>2, TimeInvariant, PTL DEF Spec, Implements, AlarmClock!Spec
=============================================================================
