-------------------------------- MODULE Asl --------------------------------
(***************************************************************************)
(* phase3/asl.c: semaphore descriptors 0 .. MAXSEMD+1, of which 0 and      *)
(* MAXSEMD+1 are the dummy head and tail of the list sorted by semaphore   *)
(* address, and the others are on that list or on the free list.  The      *)
(* process queue of a descriptor is a sequence (module Pcb implements it). *)
(***************************************************************************)
EXTENDS Integers, SequencesExt, LinkedLists

CONSTANTS
  Pcb,
  Addr,      \* addresses of semaphores, integers from 1 up
  MAXSEMD,
  NULL

Head0 == 0
Tail0 == MAXSEMD + 1
Semd  == Head0 .. Tail0
MAXINT == Max(Addr) + 1

ASSUME AslAssumption ==
  /\ IsFiniteSet(Pcb) /\ IsFiniteSet(Addr) /\ Addr # {} /\ Addr \subseteq Nat \ {0}
  /\ MAXSEMD \in Nat \ {0} /\ MAXSEMD >= Cardinality(Pcb)
  /\ NULL \notin Semd \cup Addr

VARIABLES
  semdFree_h,
  s_next, s_semAdd, s_procQ,
  p_semAdd

vars == <<semdFree_h, s_next, s_semAdd, s_procQ, p_semAdd>>

\* initASL; the descriptors are zeroed static storage.
Init_freeListShort ==
  /\ semdFree_h = 1
  /\ s_next = [s \in Semd |-> CASE s = Head0 -> Tail0
                                [] s \in {Tail0, MAXSEMD - 1, MAXSEMD} -> NULL
                                [] OTHER -> s + 1]
  /\ s_semAdd = [s \in Semd |-> IF s = Tail0 THEN MAXINT ELSE 0]
  /\ s_procQ = [s \in Semd |-> <<>>]
  /\ p_semAdd = [p \in Pcb |-> NULL]

Init ==
  /\ semdFree_h = 1
  /\ s_next = [s \in Semd |-> CASE s = Head0 -> Tail0
                                [] s \in {Tail0, MAXSEMD} -> NULL
                                [] OTHER -> s + 1]
  /\ s_semAdd = [s \in Semd |-> IF s = Tail0 THEN MAXINT ELSE 0]
  /\ s_procQ = [s \in Semd |-> <<>>]
  /\ p_semAdd = [p \in Pcb |-> NULL]

\* The two lists of descriptors.
Asl      == Walk(Head0, s_next, NULL)
FreeList == Walk(semdFree_h, s_next, NULL)

\* The last descriptor of the list before address a (the loops over prev), and
\* findSemd, which stops at the first descriptor that is not before a.
LastBefore(a) ==
  LET L == Asl IN
  L[Max({i \in DOMAIN L : \A j \in 2 .. i : s_semAdd[L[j]] < a})]

findSemd(a) ==
  LET s == s_next[LastBefore(a)] IN
  IF s # NULL /\ s_semAdd[s] = a THEN s ELSE NULL

Blocked(p) == \E s \in ToSet(Asl) : p \in ToSet(s_procQ[s])

\* A running process (in no queue, p_semAdd cleared) blocks on a.  With no
\* free descriptor the function returns TRUE and leaves p out of any queue;
\* sysPasseren ignores the result.
insertBlocked_unsorted(a, p) ==
  /\ ~Blocked(p) /\ p_semAdd[p] = NULL
  /\ LET found == findSemd(a) IN
     \/ /\ found # NULL
        /\ s_procQ' = [s_procQ EXCEPT ![found] = Append(@, p)]
        /\ UNCHANGED <<semdFree_h, s_next, s_semAdd>>
     \/ /\ found = NULL /\ semdFree_h # NULL
        /\ LET semd == semdFree_h IN
             /\ semdFree_h' = s_next[semd]
             /\ s_semAdd' = [s_semAdd EXCEPT ![semd] = a]
             /\ s_procQ' = [s_procQ EXCEPT ![semd] = <<p>>]
             /\ s_next' = [s_next EXCEPT ![semd] = s_next[Head0], ![Head0] = semd]
  /\ p_semAdd' = [p_semAdd EXCEPT ![p] = a]

insertBlocked(a, p) ==
  /\ ~Blocked(p) /\ p_semAdd[p] = NULL
  /\ LET found == findSemd(a)
         prev  == LastBefore(a)
     IN
     \/ /\ found # NULL
        /\ s_procQ' = [s_procQ EXCEPT ![found] = Append(@, p)]
        /\ p_semAdd' = [p_semAdd EXCEPT ![p] = a]
        /\ UNCHANGED <<semdFree_h, s_next, s_semAdd>>
     \/ /\ found = NULL /\ semdFree_h # NULL
        /\ LET semd == semdFree_h IN
             /\ semdFree_h' = s_next[semd]
             /\ s_semAdd' = [s_semAdd EXCEPT ![semd] = a]
             /\ s_procQ' = [s_procQ EXCEPT ![semd] = <<p>>]
             /\ s_next' = [s_next EXCEPT ![semd] = s_next[prev], ![prev] = semd]
        /\ p_semAdd' = [p_semAdd EXCEPT ![p] = a]
     \/ /\ found = NULL /\ semdFree_h = NULL
        /\ p_semAdd' = [p_semAdd EXCEPT ![p] = a]  \* sysPasseren's own store
        /\ UNCHANGED <<semdFree_h, s_next, s_semAdd, s_procQ>>

\* An emptied descriptor leaves the ASL for the free list.
retire_keepOnAsl(semd, q) ==
  /\ s_procQ' = [s_procQ EXCEPT ![semd] = q]
  /\ UNCHANGED <<s_semAdd, semdFree_h, s_next>>

retire(semd, q) ==
  /\ s_procQ' = [s_procQ EXCEPT ![semd] = q]
  /\ UNCHANGED s_semAdd
  /\ \/ q # <<>> /\ UNCHANGED <<semdFree_h, s_next>>
     \/ /\ q = <<>>
        /\ s_next' = [s_next EXCEPT ![Asl[SelectInSeq(Asl, LAMBDA x : x = semd) - 1]] = s_next[semd],
                                    ![semd] = semdFree_h]
        /\ semdFree_h' = semd

removeBlocked(a) ==
  LET semd == findSemd(a) IN
  /\ semd # NULL /\ s_procQ[semd] # <<>>
  /\ p_semAdd' = [p_semAdd EXCEPT ![Head(s_procQ[semd])] = NULL]
  /\ retire(semd, Tail(s_procQ[semd]))

\* Called by sysTerminate; p_semAdd[p] is left as it is until allocPcb.
outBlocked(p) ==
  /\ p_semAdd[p] # NULL
  /\ LET semd == findSemd(p_semAdd[p]) IN
       /\ semd # NULL /\ p \in ToSet(s_procQ[semd])
       /\ retire(semd, RemoveFirst(s_procQ[semd], p))
  /\ UNCHANGED p_semAdd

\* The pcb of a terminated process is allocated again.
allocPcb(p) ==
  /\ ~Blocked(p) /\ p_semAdd[p] # NULL
  /\ p_semAdd' = [p_semAdd EXCEPT ![p] = NULL]
  /\ UNCHANGED <<semdFree_h, s_next, s_semAdd, s_procQ>>

Next ==
  \/ \E a \in Addr : removeBlocked(a) \/ \E p \in Pcb : insertBlocked(a, p)
  \/ \E p \in Pcb : outBlocked(p) \/ allocPcb(p)

Spec == Init /\ [][Next]_vars
-----------------------------------------------------------------------------
\* Types of the descriptors' fields.
TypeOK ==
  /\ semdFree_h \in Semd \cup {NULL}
  /\ s_next \in [Semd -> Semd \cup {NULL}]
  /\ s_semAdd \in [Semd -> Nat]
  /\ s_procQ \in [Semd -> Seq(Pcb)]
  /\ p_semAdd \in [Pcb -> Addr \cup {NULL}]

\* The two lists share the descriptors out between them; the ASL is strictly
\* sorted from dummy to dummy, so findSemd cannot miss an address; only active
\* descriptors have waiters and every one of them has (a queue left empty on
\* the ASL would never be given back).
ListsInv ==
  LET L == Asl IN
  /\ TypeOK
  /\ Len(L) + Len(FreeList) = MAXSEMD + 2
  /\ ToSet(L) \cup ToSet(FreeList) = Semd
  /\ L[1] = Head0 /\ L[Len(L)] = Tail0
  /\ \A i \in 1 .. Len(L) - 1 : s_semAdd[L[i]] < s_semAdd[L[i+1]]
  /\ \A i \in 2 .. Len(L) - 1 : s_procQ[L[i]] # <<>>

\* insertBlocked never runs out of descriptors: a free one is left for every
\* pcb that is not blocked.  Its TRUE would be lost, sysPasseren ignores it.
NeverExhausted ==
  Len(FreeList) >= Cardinality({p \in Pcb : ~Blocked(p)})

\* The ASL implements the queues the nucleus believes it has.
QueueAt(a) ==
  LET semd == findSemd(a) IN IF semd = NULL THEN <<>> ELSE s_procQ[semd]

Queues == INSTANCE SemQueues WITH blocked <- [a \in Addr |-> QueueAt(a)]

Implements == Queues!Spec
=============================================================================
