-------------------------------- MODULE Delay --------------------------------
(***************************************************************************)
(* phase3/delayDaemon.c: SYS18 and the delay daemon, over the nucleus'     *)
(* semaphores.  Processes interleave between any two steps; a step is a    *)
(* SYSCALL, or code that touches shared data once.  The unit of time is a  *)
(* pseudo-clock tick.                                                      *)
(*                                                                         *)
(* A definition x_y is x with the bug y.                                   *)
(***************************************************************************)
EXTENDS Integers, SequencesExt, LinkedLists

CONSTANTS
  Uproc, Daemon, NULL,
  DELAY_LIST_SIZE,   \* descriptors 0 .. DELAY_LIST_SIZE-1, the last a dummy
  SECOND,            \* ticks
  MAXINT,            \* largest int; an int has MININT == -MAXINT-1 too
  Secs,              \* arguments of SYS18
  LastCall,          \* bound: SYS18 reads the time of day up to this one
  Horizon            \* bound: the time of day stops here

Dummy == DELAY_LIST_SIZE - 1
Node  == 0 .. Dummy

ASSUME DelayAssumption ==
  /\ IsFiniteSet(Uproc) /\ Uproc # {} /\ Daemon \notin Uproc /\ "ADLsem" \notin Uproc \cup {Daemon}
  /\ NULL \notin Int /\ NULL \notin Uproc
  /\ DELAY_LIST_SIZE \in Nat /\ DELAY_LIST_SIZE > Cardinality(Uproc)
  /\ SECOND \in Nat \ {0} /\ MAXINT \in Nat /\ Secs \subseteq Int
  /\ LastCall \in 0 .. Horizon /\ Horizon \in 0 .. MAXINT

VARIABLES
  tod,
  delayd_h, delaydFree_h, d_next, d_wakeTime, d_supStruct,
  sem, waiting,      \* ADLsem, and the private semaphore of each U-proc
  pc,
  node,              \* supDelay's local, by U-proc
  secCnt,            \* supDelay's argument
  currTime, curr,    \* the daemon's locals
  due                \* history: when the U-proc is to be woken

adl    == <<delayd_h, delaydFree_h, d_next, d_wakeTime, d_supStruct>>
sems   == <<sem, waiting>>
locals == <<node, secCnt, due>>
vars   == <<tod, adl, sems, pc, locals, currTime, curr>>

S == INSTANCE Semaphores WITH Process   <- Uproc \cup {Daemon},
                              client    <- Uproc \cup {Daemon},
                              Semaphore <- Uproc \cup {"ADLsem"}

\* The value a C int has after an addition or a multiplication of ints.
Wrap(n) == ((n + MAXINT + 1) % (2 * (MAXINT + 1))) - (MAXINT + 1)

\* initADL: the descriptors are pushed on the free list one by one, the dummy
\* is the whole ADL; initUProcs sets the private semaphores to 0.
Init ==
  /\ tod = 0
  /\ delayd_h = Dummy
  /\ delaydFree_h = Dummy - 1
  /\ d_next = [n \in Node |-> IF n \in {0, Dummy} THEN NULL ELSE n - 1]
  /\ d_wakeTime = [n \in Node |-> IF n = Dummy THEN MAXINT ELSE 0]
  /\ d_supStruct = [n \in Node |-> NULL]
  /\ sem = [s \in Uproc \cup {"ADLsem"} |-> IF s = "ADLsem" THEN 1 ELSE 0]
  /\ waiting = [s \in Uproc \cup {"ADLsem"} |-> <<>>]
  /\ pc = [p \in Uproc \cup {Daemon} |-> IF p = Daemon THEN "waitclock" ELSE "user"]
  /\ node = [p \in Uproc |-> NULL]
  /\ secCnt = [p \in Uproc |-> 0]
  /\ due = [p \in Uproc |-> 0]
  /\ currTime = 0
  /\ curr = NULL

At(p, label)   == pc[p] = label /\ S!Free(p)
Goto(p, label) == pc' = [pc EXCEPT ![p] = label]

\* The two lists of descriptors.
ADL  == Walk(delayd_h, d_next, NULL)
Idle == Walk(delaydFree_h, d_next, NULL)

-----------------------------------------------------------------------------
\* SYS18 with its argument checked; supTerminate ends a U-proc.
supDelay(p) ==
  /\ At(p, "user") /\ tod < LastCall
  /\ \E n \in Secs :
       \/ /\ n < 0
          /\ Goto(p, "ended")
          /\ UNCHANGED <<sems, secCnt>>
       \/ /\ n >= 0
          /\ S!P("ADLsem", p)
          /\ secCnt' = [secCnt EXCEPT ![p] = n]
          /\ Goto(p, "alloc")
  /\ UNCHANGED <<tod, adl, node, due, currTime, curr>>

\* With no descriptor left the lock is released and the U-proc ended.  (Locals
\* are reset when they are dead.)
allocNode(p) ==
  /\ At(p, "alloc")
  /\ \/ /\ delaydFree_h = NULL
        /\ S!V("ADLsem")
        /\ Goto(p, "ended")
        /\ UNCHANGED <<adl, node, due>>
     \/ /\ delaydFree_h # NULL
        /\ node' = [node EXCEPT ![p] = delaydFree_h]
        /\ delaydFree_h' = d_next[delaydFree_h]
        /\ d_wakeTime' = [d_wakeTime EXCEPT ![delaydFree_h] =
                            Wrap(tod + Wrap(secCnt[p] * SECOND))]
        /\ d_supStruct' = [d_supStruct EXCEPT ![delaydFree_h] = p]
        /\ due' = [due EXCEPT ![p] = tod + secCnt[p] * SECOND]
        /\ Goto(p, "insert")
        /\ UNCHANGED <<delayd_h, d_next, sems>>
  /\ secCnt' = [secCnt EXCEPT ![p] = 0]
  /\ UNCHANGED <<tod, currTime, curr>>

\* while ((*ptr)->d_wakeTime < node->d_wakeTime) ptr = &(*ptr)->d_next
insertNode_atHead(p) ==
  /\ At(p, "insert")
  /\ d_next' = [d_next EXCEPT ![node[p]] = delayd_h]
  /\ delayd_h' = node[p]
  /\ node' = [node EXCEPT ![p] = NULL]
  /\ Goto(p, "unlock")
  /\ UNCHANGED <<tod, delaydFree_h, d_wakeTime, d_supStruct, sems, secCnt, due, currTime, curr>>

insertNode(p) ==
  /\ At(p, "insert")
  /\ LET n == node[p]
         i == Min({j \in DOMAIN ADL : d_wakeTime[ADL[j]] >= d_wakeTime[n]})
     IN
       \/ /\ i = 1
          /\ d_next' = [d_next EXCEPT ![n] = delayd_h]
          /\ delayd_h' = n
       \/ /\ i > 1
          /\ d_next' = [d_next EXCEPT ![n] = ADL[i], ![ADL[i-1]] = n]
          /\ UNCHANGED delayd_h
  /\ node' = [node EXCEPT ![p] = NULL]
  /\ Goto(p, "unlock")
  /\ UNCHANGED <<tod, delaydFree_h, d_wakeTime, d_supStruct, sems, secCnt, due, currTime, curr>>

releaseADL(p) ==
  /\ At(p, "unlock")
  /\ S!V("ADLsem")
  /\ Goto(p, "sleep")
  /\ UNCHANGED <<tod, adl, locals, currTime, curr>>

\* The P on the private semaphore; the daemon's V may have come first.
sleep(p) ==
  /\ At(p, "sleep")
  /\ S!P(p, p)
  /\ Goto(p, "resume")
  /\ UNCHANGED <<tod, adl, locals, currTime, curr>>

resume(p) ==
  /\ At(p, "resume")
  /\ due' = [due EXCEPT ![p] = 0]
  /\ Goto(p, "user")
  /\ UNCHANGED <<tod, adl, sems, node, secCnt, currTime, curr>>

-----------------------------------------------------------------------------
\* The bounds on time: it stops at Horizon, and at LastCall while a U-proc has
\* yet to read it.
ClockRuns ==
  tod < LastCall \/ (tod < Horizon /\ \A p \in Uproc : pc[p] # "alloc")

\* A pseudo-clock tick; the daemon misses it unless it waits in its SYS7.
tick ==
  /\ ClockRuns \/ pc[Daemon] = "waitclock"
  /\ tod' = IF ClockRuns THEN tod + 1 ELSE tod
  /\ IF pc[Daemon] = "waitclock" THEN Goto(Daemon, "lock") ELSE UNCHANGED pc
  /\ UNCHANGED <<adl, sems, locals, currTime, curr>>

daemonLock ==
  /\ At(Daemon, "lock")
  /\ S!P("ADLsem", Daemon)
  /\ Goto(Daemon, "read")
  /\ UNCHANGED <<tod, adl, locals, currTime, curr>>

\* STCK without the division by the time scale.
daemonRead ==
  /\ At(Daemon, "read")
  /\ currTime' = tod /\ curr' = delayd_h
  /\ Goto(Daemon, "loop")
  /\ UNCHANGED <<tod, adl, sems, locals>>

Expired_early(n) ==
  n # NULL /\ d_supStruct[n] # NULL /\ d_wakeTime[n] <= currTime + 1

Expired(n) ==
  n # NULL /\ d_supStruct[n] # NULL /\ d_wakeTime[n] <= currTime

daemonWake ==
  /\ At(Daemon, "loop") /\ Expired(curr)
  /\ S!V(d_supStruct[curr])
  /\ Goto(Daemon, "unlink")
  /\ UNCHANGED <<tod, adl, locals, currTime, curr>>

\* prev stays NULL: an expired descriptor is always unlinked from the head.
daemonUnlink_leak ==
  /\ At(Daemon, "unlink")
  /\ curr' = d_next[curr]
  /\ delayd_h' = d_next[curr]
  /\ Goto(Daemon, "loop")
  /\ UNCHANGED <<tod, d_next, delaydFree_h, d_wakeTime, d_supStruct, sems, locals, currTime>>

daemonUnlink_keepHead ==
  /\ At(Daemon, "unlink")
  /\ curr' = d_next[curr]
  /\ Goto(Daemon, "loop")
  /\ UNCHANGED <<tod, adl, sems, locals, currTime>>

daemonUnlink ==
  /\ At(Daemon, "unlink")
  /\ curr' = d_next[curr]
  /\ delayd_h' = d_next[curr]
  /\ d_next' = [d_next EXCEPT ![curr] = delaydFree_h]
  /\ delaydFree_h' = curr
  /\ Goto(Daemon, "loop")
  /\ UNCHANGED <<tod, d_wakeTime, d_supStruct, sems, locals, currTime>>

daemonUnlock_keepLock ==
  /\ At(Daemon, "loop") /\ ~Expired(curr)
  /\ currTime' = 0 /\ curr' = NULL
  /\ Goto(Daemon, "waitclock")
  /\ UNCHANGED <<tod, adl, sems, locals>>

daemonUnlock ==
  /\ At(Daemon, "loop") /\ ~Expired(curr)
  /\ S!V("ADLsem")
  /\ currTime' = 0 /\ curr' = NULL
  /\ Goto(Daemon, "waitclock")
  /\ UNCHANGED <<tod, adl, locals>>

-----------------------------------------------------------------------------
uproc(p) ==
  supDelay(p) \/ allocNode(p) \/ insertNode(p) \/ releaseADL(p) \/ sleep(p) \/ resume(p)

delayDaemon ==
  daemonLock \/ daemonRead \/ daemonWake \/ daemonUnlink \/ daemonUnlock

Next == tick \/ delayDaemon \/ \E p \in Uproc : uproc(p)

Spec == Init /\ [][Next]_vars

\* The nucleus' scheduler gives every ready process the processor again and
\* again (ReadyRuns of Nucleus); the interval timer is reloaded at each tick.
\* A U-proc need not ask for another delay.
Fairness ==
  /\ WF_vars(tick) /\ WF_vars(delayDaemon)
  /\ \A p \in Uproc : WF_vars(uproc(p) /\ pc[p] # "user")

FairSpec == Spec /\ Fairness

-----------------------------------------------------------------------------
Holders == {p \in Uproc : At(p, "alloc") \/ pc[p] \in {"insert", "unlock"}}
           \cup {q \in {Daemon} : At(q, "read") \/ pc[q] \in {"loop", "unlink"}}

\* Types of the descriptors' fields and of the processes' locals.
TypeOK ==
  /\ tod \in 0 .. Horizon /\ currTime \in 0 .. Horizon
  /\ {delayd_h, delaydFree_h, curr} \subseteq Node \cup {NULL}
  /\ d_next \in [Node -> Node \cup {NULL}]
  /\ d_wakeTime \in [Node -> -MAXINT - 1 .. MAXINT]
  /\ d_supStruct \in [Node -> Uproc \cup {NULL}]
  /\ node \in [Uproc -> Node \cup {NULL}]

\* Every descriptor is on the ADL, on the free list, or in the hands of the
\* one process that holds ADLsem; the ADL is sorted by wake time and ends in
\* the dummy, so the unbounded loop of supDelay always stops at a descriptor.
AdlInv ==
  LET inHand == {node[p] : p \in {q \in Uproc : pc[q] = "insert"}} IN
  /\ TypeOK
  /\ Cardinality(Holders) + (IF sem["ADLsem"] > 0 THEN 1 ELSE 0) = 1
  /\ IsInjective(ADL \o Idle)
  /\ ToSet(ADL \o Idle) = Node \ inHand
  /\ Last(ADL) = Dummy
  /\ \A i \in 1 .. Len(ADL) - 1 : d_wakeTime[ADL[i]] <= d_wakeTime[ADL[i+1]]

\* Not yet woken: the U-proc's descriptor is in the ADL and the daemon's V on
\* its private semaphore is still to come.
Pending(p) ==
  \E n \in ToSet(ADL) : d_supStruct[n] = p /\ ~(pc[Daemon] = "unlink" /\ curr = n)

\* One V for one P: a V on the private semaphore that comes before the P is
\* kept for it, none comes twice, and none is left over for the next delay.
WakeBalance ==
  \A p \in Uproc :
    LET asleep == pc[p] \in {"unlock", "sleep"} \/ (pc[p] = "resume" /\ ~S!Free(p)) IN
    /\ Pending(p) => asleep
    /\ asleep /\ ~Pending(p) => pc[p] \in {"unlock", "sleep"} /\ sem[p] = 1
    /\ ~asleep => sem[p] = 0

\* A U-proc that reaches the allocation finds a descriptor: it is never ended
\* because the eight others are in use.
NeverExhausted ==
  \A p \in Uproc : At(p, "alloc") => delaydFree_h # NULL

\* A delayed U-proc goes on only when its time has come.
NeverEarly ==
  \A p \in Uproc : At(p, "resume") => tod >= due[p]

\* A U-proc that was delayed goes on, however many others are delayed and
\* whatever it meets at the lock.
Wakes ==
  \A p \in Uproc : pc[p] \in {"alloc", "insert", "unlock", "sleep", "resume"} ~> pc[p] = "user"

\* The descriptors, the lock and the daemon implement the alarm clock.
AlarmClock == INSTANCE Alarm WITH
  now      <- tod,
  deadline <- [p \in Uproc |->
                 IF pc[p] \in {"insert", "unlock", "sleep", "resume"} THEN due[p] ELSE NULL]

Implements == AlarmClock!Spec
=============================================================================
