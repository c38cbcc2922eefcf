-------------------------------- MODULE Pcb --------------------------------
(***************************************************************************)
(* phase3/pcb.c, pointer by pointer: the pcbFree list, circular doubly     *)
(* linked process queues named by a tail pointer, and the process tree     *)
(* with its sibling links.                                                 *)
(*                                                                         *)
(* The callers are the nucleus and the ASL: an action's guard before       *)
(* "body" is what every call site establishes, the rest is the function.   *)
(* A call that finds nothing (an empty list or queue, a pcb that is not in *)
(* the queue, no child, no parent) returns NULL and changes nothing: it is *)
(* a stuttering step.                                                      *)
(***************************************************************************)
EXTENDS Integers, SequencesExt, LinkedLists

CONSTANTS Pcb, Queue, NULL
ASSUME PointerAssumption == IsFiniteSet(Pcb) /\ Pcb # {} /\ NULL \notin Pcb

VARIABLES
  pcbFree_h,
  tp,                                  \* tail pointer of every process queue
  p_next, p_prev,
  p_prnt, p_child, p_sib_left, p_sib_right

queueLinks == <<tp, p_next, p_prev>>
treeLinks  == <<p_prnt, p_child, p_sib_left, p_sib_right>>
vars       == <<pcbFree_h, tp, p_next, p_prev, p_prnt, p_child, p_sib_left, p_sib_right>>

Pointer == Pcb \cup {NULL}

\* The lists and the tree; a queue is a ring, walked from its head up to its tail.
FreeList    == Walk(pcbFree_h, p_next, NULL)
QueueOf(q)  == IF tp[q] = NULL THEN <<>>
               ELSE Walk(p_next[tp[q]], [p_next EXCEPT ![tp[q]] = NULL], NULL)
Children(p) == Walk(p_child[p], p_sib_right, NULL)

Allocated(p) == p \notin ToSet(FreeList)
Queued(p)    == \E q \in Queue : p \in ToSet(QueueOf(q))

\* initPcbs over the zeroed static table.
Init ==
  /\ \E table \in SetToSeqs(Pcb) :
       /\ pcbFree_h = table[1]
       /\ p_next = [p \in Pcb |->
            LET i == CHOOSE i \in DOMAIN table : table[i] = p IN
            IF i = Len(table) THEN NULL ELSE table[i+1]]
  /\ tp = [q \in Queue |-> NULL]
  /\ p_prev = [p \in Pcb |-> NULL]
  /\ p_prnt = p_prev /\ p_child = p_prev
  /\ p_sib_left = p_prev /\ p_sib_right = p_prev

\* freePcb resets no field.
freePcb(p) ==
  /\ Allocated(p) /\ ~Queued(p) /\ p_prnt[p] = NULL /\ p_child[p] = NULL
  \* body
  /\ p_next' = [p_next EXCEPT ![p] = pcbFree_h]
  /\ pcbFree_h' = p
  /\ UNCHANGED <<tp, p_prev, treeLinks>>

\* NULL is 0xFFFFFFFF here, not the 0 of static storage.
allocPcb ==
  /\ pcbFree_h # NULL
  /\ LET p == pcbFree_h IN
       /\ pcbFree_h' = p_next[p]
       /\ p_next' = [p_next EXCEPT ![p] = NULL]
       /\ p_prev' = [p_prev EXCEPT ![p] = NULL]
       /\ p_prnt' = [p_prnt EXCEPT ![p] = NULL]
       /\ p_child' = [p_child EXCEPT ![p] = NULL]
       /\ p_sib_left' = [p_sib_left EXCEPT ![p] = NULL]
       /\ p_sib_right' = [p_sib_right EXCEPT ![p] = NULL]
  /\ UNCHANGED tp

\* The new tail goes between the old tail and the head.
insertProcQ(q, p) ==
  /\ Allocated(p) /\ ~Queued(p)
  \* body
  /\ \/ /\ tp[q] = NULL
        /\ p_next' = [p_next EXCEPT ![p] = p]
        /\ p_prev' = [p_prev EXCEPT ![p] = p]
     \/ /\ tp[q] # NULL
        /\ LET head == p_next[tp[q]] IN
             /\ p_next' = [p_next EXCEPT ![p] = head, ![tp[q]] = p]
             /\ p_prev' = [p_prev EXCEPT ![p] = tp[q], ![head] = p]
  /\ tp' = [tp EXCEPT ![q] = p]
  /\ UNCHANGED <<pcbFree_h, treeLinks>>

\* Unlink p, found in queue q.  The last line of the code clears p's links.
unlink_keepTail(q, p) ==
  /\ p_next' = [p_next EXCEPT ![p_prev[p]] = p_next[p], ![p] = NULL]
  /\ p_prev' = [p_prev EXCEPT ![p_next[p]] = p_prev[p], ![p] = NULL]
  /\ tp' = [tp EXCEPT ![q] = IF p_next[p] = p THEN NULL ELSE @]

unlink_keepPrev(q, p) ==
  /\ p_next' = [p_next EXCEPT ![p_prev[p]] = p_next[p], ![p] = NULL]
  /\ p_prev' = [p_prev EXCEPT ![p] = NULL]
  /\ tp' = [tp EXCEPT ![q] = IF p_next[p] = p THEN NULL
                             ELSE IF @ = p THEN p_prev[p] ELSE @]

unlink(q, p) ==
  \/ /\ tp[q] = p /\ p_next[p] = p
     /\ tp' = [tp EXCEPT ![q] = NULL]
     /\ p_next' = [p_next EXCEPT ![p] = NULL]
     /\ p_prev' = [p_prev EXCEPT ![p] = NULL]
  \/ /\ ~(tp[q] = p /\ p_next[p] = p)
     /\ p_next' = [p_next EXCEPT ![p_prev[p]] = p_next[p], ![p] = NULL]
     /\ p_prev' = [p_prev EXCEPT ![p_next[p]] = p_prev[p], ![p] = NULL]
     /\ tp' = [tp EXCEPT ![q] = IF @ = p THEN p_prev[p] ELSE @]

outProcQ(q, p) ==
  /\ p \in ToSet(QueueOf(q))
  /\ unlink(q, p)
  /\ UNCHANGED <<pcbFree_h, treeLinks>>

removeProcQ(q) ==
  /\ tp[q] # NULL
  /\ unlink(q, p_next[tp[q]])
  /\ UNCHANGED <<pcbFree_h, treeLinks>>

\* sysCreateProcess gives a fresh pcb, still childless, to a live parent.
insertChild(prnt, p) ==
  /\ Allocated(prnt) /\ Allocated(p) /\ prnt # p
  /\ p_prnt[p] = NULL /\ p_child[p] = NULL
  \* body
  /\ p_child' = [p_child EXCEPT ![prnt] = p]
  /\ p_prnt' = [p_prnt EXCEPT ![p] = prnt]
  /\ p_sib_right' = [p_sib_right EXCEPT ![p] = p_child[prnt]]
  /\ p_sib_left' =
       [a \in Pcb |-> IF a = p THEN NULL
                      ELSE IF a = p_child[prnt] THEN p ELSE p_sib_left[a]]
  /\ UNCHANGED <<pcbFree_h, queueLinks>>

outChild_keepRightSibling(p) ==
  /\ p_prnt[p] # NULL
  /\ p_child' = [p_child EXCEPT ![p_prnt[p]] = IF @ = p THEN p_sib_right[p] ELSE @]
  /\ p_sib_right' = [a \in Pcb |-> IF a = p THEN NULL
                                   ELSE IF a = p_sib_left[p] THEN p_sib_right[p]
                                   ELSE p_sib_right[a]]
  /\ p_sib_left' = [p_sib_left EXCEPT ![p] = NULL]
  /\ p_prnt' = [p_prnt EXCEPT ![p] = NULL]
  /\ UNCHANGED <<pcbFree_h, queueLinks>>

outChild(p) ==
  /\ p_prnt[p] # NULL
  /\ p_child' = [p_child EXCEPT ![p_prnt[p]] = IF @ = p THEN p_sib_right[p] ELSE @]
  /\ p_sib_right' = [a \in Pcb |-> IF a = p THEN NULL
                                   ELSE IF a = p_sib_left[p] THEN p_sib_right[p]
                                   ELSE p_sib_right[a]]
  /\ p_sib_left' = [a \in Pcb |-> IF a = p THEN NULL
                                  ELSE IF a = p_sib_right[p] THEN p_sib_left[p]
                                  ELSE p_sib_left[a]]
  /\ p_prnt' = [p_prnt EXCEPT ![p] = NULL]
  /\ UNCHANGED <<pcbFree_h, queueLinks>>

removeChild(prnt) == p_child[prnt] # NULL /\ outChild(p_child[prnt])

Next ==
  \/ allocPcb
  \/ \E p \in Pcb :
       \/ freePcb(p) \/ removeChild(p) \/ outChild(p)
       \/ \E q \in Queue : insertProcQ(q, p) \/ outProcQ(q, p)
       \/ \E a \in Pcb : insertChild(a, p)
  \/ \E q \in Queue : removeProcQ(q)

Spec == Init /\ [][Next]_vars

-----------------------------------------------------------------------------
\* Types of the links.
TypeOK ==
  /\ pcbFree_h \in Pointer /\ tp \in [Queue -> Pointer]
  /\ \A f \in {p_next, p_prev, p_prnt, p_child, p_sib_left, p_sib_right} :
       f \in [Pcb -> Pointer]

\* The links of a queued pcb lead there and back inside its own queue, whose
\* tail leads to its head, and sibling links mirror each other under one
\* parent: what outProcQ and outChild rely on to unlink from the middle.
LinksMirror ==
  /\ TypeOK
  /\ \A q \in Queue : \A i \in DOMAIN QueueOf(q) :
       LET Q == QueueOf(q) IN
       p_prev[Q[i]] = Q[IF i = 1 THEN Len(Q) ELSE i - 1]
  /\ \A p \in Pcb : Allocated(p) =>
       /\ p_sib_right[p] # NULL => /\ p_sib_left[p_sib_right[p]] = p
                                   /\ p_prnt[p_sib_right[p]] = p_prnt[p]
       /\ p_prnt[p] # NULL => p \in ToSet(Children(p_prnt[p]))

\* The linked lists implement the stack, the queues and the tree.
Lists == INSTANCE ProcQueues WITH
           free     <- FreeList,
           queue    <- [q \in Queue |-> QueueOf(q)],
           children <- [p \in Pcb |-> Children(p)]

Implements == Lists!Spec
=============================================================================
