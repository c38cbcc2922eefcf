----------------------------- MODULE ProcQueues -----------------------------
(***************************************************************************)
(* What phase3/pcb.c promises the nucleus: a stack of free pcbs, FIFO      *)
(* process queues from which any member can be taken, and a process tree   *)
(* in which the newest child comes first.  Module Pcb implements it.       *)
(***************************************************************************)
EXTENDS Naturals, SequencesExt

CONSTANTS Pcb, Queue

VARIABLES
  free,      \* free pcbs, the next one to be allocated first
  queue,     \* process queues, head first
  children   \* children of every pcb, newest first

vars == <<free, queue, children>>

Init ==
  /\ free \in SetToSeqs(Pcb)
  /\ queue = [q \in Queue |-> <<>>]
  /\ children = [p \in Pcb |-> <<>>]

Queued(p) == \E q \in Queue : p \in ToSet(queue[q])
InTree(p) == \E a \in Pcb : p \in ToSet(children[a])

\* Allocated, in no queue.
Idle(p) == p \notin ToSet(free) /\ ~Queued(p)

allocPcb ==
  /\ free # <<>>
  /\ free' = Tail(free)
  /\ UNCHANGED <<queue, children>>

freePcb(p) ==
  /\ Idle(p) /\ ~InTree(p) /\ children[p] = <<>>
  /\ free' = <<p>> \o free
  /\ UNCHANGED <<queue, children>>

insertProcQ(q, p) ==
  /\ Idle(p)
  /\ queue' = [queue EXCEPT ![q] = Append(@, p)]
  /\ UNCHANGED <<free, children>>

removeProcQ(q) ==
  /\ queue[q] # <<>>
  /\ queue' = [queue EXCEPT ![q] = Tail(@)]
  /\ UNCHANGED <<free, children>>

outProcQ(q, p) ==
  /\ p \in ToSet(queue[q])
  /\ queue' = [queue EXCEPT ![q] = RemoveFirst(@, p)]
  /\ UNCHANGED <<free, children>>

insertChild(prnt, p) ==
  /\ {prnt, p} \cap ToSet(free) = {} /\ prnt # p
  /\ ~InTree(p) /\ children[p] = <<>>
  /\ children' = [children EXCEPT ![prnt] = <<p>> \o @]
  /\ UNCHANGED <<free, queue>>

removeChild(prnt) ==
  /\ children[prnt] # <<>>
  /\ children' = [children EXCEPT ![prnt] = Tail(@)]
  /\ UNCHANGED <<free, queue>>

outChild(p) ==
  /\ InTree(p)
  /\ children' = [a \in Pcb |-> RemoveFirst(children[a], p)]
  /\ UNCHANGED <<free, queue>>

Next ==
  \/ allocPcb
  \/ \E p \in Pcb :
       \/ freePcb(p) \/ removeChild(p) \/ outChild(p)
       \/ \E q \in Queue : insertProcQ(q, p) \/ outProcQ(q, p)
       \/ \E a \in Pcb : insertChild(a, p)
  \/ \E q \in Queue : removeProcQ(q)

Spec == Init /\ [][Next]_vars
=============================================================================
