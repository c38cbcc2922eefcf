----------------------------- MODULE Semaphores -----------------------------
(***************************************************************************)
(* What the nucleus promises the support level about its SYS3 and SYS4:    *)
(* counting semaphores with first-come first-served queues.  Nucleus       *)
(* implements this module; Delay, Paging and Drivers are built on it.  A   *)
(* process that waits takes no step until it is out of every queue, so P   *)
(* is one action and the process goes on after it when it is Free.         *)
(***************************************************************************)
EXTENDS Integers, SequencesExt

CONSTANTS Process, Semaphore

VARIABLES
  client,    \* the processes there are
  sem,       \* the integers
  waiting    \* the clients blocked on each, in order of arrival

vars == <<client, sem, waiting>>

Init ==
  /\ client \subseteq Process
  /\ sem \in [Semaphore -> Int]
  /\ waiting = [s \in Semaphore |-> <<>>]

Free(p) == p \in client /\ \A s \in Semaphore : p \notin ToSet(waiting[s])

P(s, p) ==
  /\ Free(p)
  /\ sem' = [sem EXCEPT ![s] = @ - 1]
  /\ waiting' = [waiting EXCEPT ![s] = IF sem[s] > 0 THEN @ ELSE Append(@, p)]
  /\ UNCHANGED client

V(s) ==
  /\ sem' = [sem EXCEPT ![s] = @ + 1]
  /\ waiting' = [waiting EXCEPT ![s] = IF @ = <<>> THEN @ ELSE Tail(@)]
  /\ UNCHANGED client

Join(p) ==
  /\ p \notin client
  /\ client' = client \cup {p}
  /\ UNCHANGED <<sem, waiting>>

\* A process is terminated; one that waits gives its unit back.
Leave(p) ==
  /\ p \in client
  /\ client' = client \ {p}
  /\ sem' = [s \in Semaphore |-> IF p \in ToSet(waiting[s]) THEN sem[s] + 1 ELSE sem[s]]
  /\ waiting' = [s \in Semaphore |-> RemoveFirst(waiting[s], p)]

Next ==
  \/ \E s \in Semaphore : V(s) \/ \E p \in Process : P(s, p)
  \/ \E p \in Process : Join(p) \/ Leave(p)

Spec == Init /\ [][Next]_vars
=============================================================================
