-------------------------------- MODULE Alarm --------------------------------
(***************************************************************************)
(* What SYS18 promises: a U-proc that asks for a delay sleeps until its    *)
(* deadline, never less; time goes forward.                                *)
(***************************************************************************)
EXTENDS Integers

CONSTANTS Uproc, NULL

VARIABLES
  now,
  deadline    \* NULL for a U-proc that is awake

Init == now = 0 /\ deadline = [p \in Uproc |-> NULL]

Sleep(p) ==
  /\ deadline[p] = NULL
  /\ deadline' = [deadline EXCEPT ![p] = deadline'[p]]
  /\ deadline'[p] # NULL /\ deadline'[p] >= now
  /\ UNCHANGED now

WakeUp(p) ==
  /\ deadline[p] # NULL /\ now >= deadline[p]
  /\ deadline' = [deadline EXCEPT ![p] = NULL]
  /\ UNCHANGED now

Pass == now' > now /\ UNCHANGED deadline

Next == Pass \/ \E p \in Uproc : Sleep(p) \/ WakeUp(p)

Spec == Init /\ [][Next]_<<now, deadline>>
=============================================================================
