----------------------------- MODULE SemQueues -----------------------------
(***************************************************************************)
(* What the Active Semaphore List promises the nucleus: a FIFO queue of    *)
(* blocked pcbs per semaphore address, and an insertion that never fails.  *)
(* Module Asl implements it; Nucleus uses it as its variable "blocked".    *)
(***************************************************************************)
EXTENDS SequencesExt

CONSTANTS Addr, Pcb

VARIABLE blocked

Init == blocked = [a \in Addr |-> <<>>]

insertBlocked(a, p) ==
  /\ \A q \in Range(blocked) : p \notin ToSet(q)
  /\ blocked' = [blocked EXCEPT ![a] = Append(@, p)]

removeBlocked(a) ==
  /\ blocked[a] # <<>>
  /\ blocked' = [blocked EXCEPT ![a] = Tail(@)]

outBlocked(p) ==
  \E a \in Addr :
    /\ p \in ToSet(blocked[a])
    /\ blocked' = [blocked EXCEPT ![a] = RemoveFirst(@, p)]

Next ==
  \/ \E a \in Addr : removeBlocked(a) \/ \E p \in Pcb : insertBlocked(a, p)
  \/ \E p \in Pcb : outBlocked(p)

Spec == Init /\ [][Next]_blocked
=============================================================================
