-------------------------- MODULE ExceptionsProofs --------------------------
(***************************************************************************)
(* Types and CPU time of Exceptions, for any number of U-procs.            *)
(***************************************************************************)
EXTENDS Exceptions, SequenceTheorems, TLAPS

\* The levels that a process has.
LevelsOf(p) ==
  IF p = Test THEN {"test"} ELSE IF p = Daemon THEN {"daemon"} ELSE {"user", "general", "pager"}

\* A state that p may go on from: one of its levels, and a general handler that
\* has done its SYS8 holds the support structure of p.
Good(p, s) ==
  /\ s \in State /\ s.lvl \in LevelsOf(p)
  /\ s.lvl = "general" /\ s.pc # GetSupport => s.sup = SupportOf(p)

\* The save areas hold states of their owners; a service is called by a program.
SavedWell ==
  /\ \A p \in Proc : Good(p, p_s[p])
  /\ \A p \in Uproc :
       /\ Good(p, sup_exceptState[SupportOf(p)][PGFAULTEXCEPT])
       /\ Good(p, sup_exceptState[SupportOf(p)][GENERALEXCEPT])
       /\ sup_exceptState[SupportOf(p)][GENERALEXCEPT].lvl = "user"

\* The processor holds a state of the current process, which waits for nothing;
\* only handlers call the nucleus, and where their code does.
RunsWell ==
  /\ nucleus = "wait" => currentProcess = NULL
  /\ nucleus = "running" => S!Free(currentProcess) /\ Good(currentProcess, cpu)
  /\ nucleus = "exception" =>
       /\ \/ bios.cause = "int" /\ currentProcess = NULL
          \/ S!Free(currentProcess) /\ Good(currentProcess, bios)
       /\ bios.cause = "trap" => bios.lvl = "user"
       /\ bios.cause = "tlb" => bios.lvl = "user" \/ (bios.lvl = "general" /\ bios.pc \in {CopyIn, CopyOut})
       /\ bios.cause = "sys" /\ bios.lvl # "user" => bios.a0 \in SyscallAt(bios.lvl, bios.pc)
  /\ nucleus = "halted" => Good(currentProcess, bios)

\* What a process has used since its account was last brought up to date.
Since(p) == IF p = currentProcess THEN tod - p_startTOD[p] ELSE 0

Charged ==
  /\ \A p \in Proc : p_startTOD[p] <= tod
  /\ \A p \in live : used[p] <= p_time[p] + Since(p)
  /\ nucleus = "scheduler" /\ currentProcess \in live => p_startTOD[currentProcess] = tod

Inv == TypeOK /\ SavedWell /\ RunsWell /\ Charged

-----------------------------------------------------------------------------
\* The constants: what is a process, a level, a support structure.
LEMMA Basics ==
  /\ NULL \notin Proc /\ NULL \notin Support /\ Test \in Proc /\ Daemon \in Proc
  /\ Uproc \subseteq Proc /\ Uproc \subseteq Nat /\ Test \notin Uproc /\ Daemon \notin Uproc
  /\ \A p \in Uproc : SupportOf(p) \in Support
  /\ \A p, q \in Uproc : SupportOf(p) = SupportOf(q) => p = q
  /\ \A p \in Proc \ {Test, Daemon} : p \in Uproc
  /\ \A p \in Proc : SupportOf(p) \in Support \cup {NULL}
  BY ExceptionsAssumption DEF Proc, Uproc, Support, SupportOf

\* A state that is given another cause, argument, or support pointer.
LEMMA StateChange ==
  ASSUME NEW s \in State, NEW c \in {"none", "int", "tlb", "trap", "sys"}, NEW n \in Nat,
         NEW sup \in Support \cup {NULL}
  PROVE  /\ [s EXCEPT !.cause = c, !.a0 = n] \in State
         /\ [s EXCEPT !.sup = sup] \in State
         /\ [s EXCEPT !.pc = n] \in State
         /\ [s EXCEPT !.pc = @ + 1] \in State
<1>1. /\ [s EXCEPT !.sup = sup] \in State
      /\ [s EXCEPT !.pc = n] \in State
      /\ [s EXCEPT !.cause = c] \in State
  BY DEF State
<1>2. [s EXCEPT !.pc = @ + 1] \in State
  BY DEF State
<1>3. \A r \in State : [r EXCEPT !.a0 = n] \in State
  BY DEF State
<1>4. [s EXCEPT !.cause = c, !.a0 = n] = [[s EXCEPT !.cause = c] EXCEPT !.a0 = n]
  BY DEF State
<1>5. [s EXCEPT !.cause = c, !.a0 = n] \in State
  BY <1>1, <1>3, <1>4
<1> QED BY <1>1, <1>2, <1>5

LEMMA StartGood == \A p \in Proc, l \in Level : l \in LevelsOf(p) => Good(p, Start(l))
  BY DEF Good, Start, State, LevelsOf, GetSupport, Level

\* Only U-procs have the levels of the support level.
LEMMA OwnLevel ==
  ASSUME NEW p \in Proc, NEW s, Good(p, s), s.lvl \in {"user", "general", "pager"}
  PROVE  p \in Uproc
  BY Basics DEF Good, LevelsOf

LEMMA Calls ==
  ASSUME NEW l \in Level, NEW pc \in Nat, NEW n \in SyscallAt(l, pc)
  PROVE  /\ n \in 1 .. 8 /\ l # "user"
         /\ n = 1 => l = "test" /\ pc + 1 \in Uproc
         /\ l = "general" /\ pc = GetSupport => n = 8
  BY ExceptionsAssumption DEF SyscallAt, Level, GetSupport, Serve, Trapped, Terminate, Exit, Wait, Acquire,
         WriteOut, ReadIn, Release, Created, Awaited, Uproc

LEMMA Beginning == Init => Inv
<1> SUFFICES ASSUME Init PROVE Inv OBVIOUS
<1> USE Basics
<1>1. \A l \in Level : Start(l) \in State
  BY DEF Start, State, Level
<1>2. \A p \in Proc : ProgramOf(p) \in Level /\ ProgramOf(p) \in LevelsOf(p)
  BY ExceptionsAssumption DEF ProgramOf, Level, LevelsOf
<1>3. supportFreeList \in Seq(Support)
  <2>1. SUPPORT_STRUCT_POOL_SIZE - UPROCMAX \in Nat
    BY ExceptionsAssumption
  <2> QED BY <2>1, ExceptionsAssumption DEF Init, Support
<1>5. TypeOK
  <2>1. waiting \in [Sem -> Seq(Proc)]
    BY DEF Init
  <2>2. p_s \in [Proc -> State]
    BY <1>1, <1>2 DEF Init
  <2>3. sup_exceptState \in [Support -> [{PGFAULTEXCEPT, GENERALEXCEPT} -> State]]
    BY <1>1 DEF Init, Level
  <2>4. cpu \in State /\ bios \in State
    BY <1>1 DEF Init, Level
  <2> QED BY <2>1, <2>2, <2>3, <2>4, <1>3 DEF TypeOK, Init
<1>6. SavedWell
  <2>1. \A p \in Proc : Good(p, p_s[p])
    BY <1>2, StartGood DEF Init
  <2>2. \A p \in Uproc : Good(p, Start("user"))
    BY StartGood DEF Level, LevelsOf
  <2> QED BY <2>1, <2>2 DEF SavedWell, Init, Start, PGFAULTEXCEPT, GENERALEXCEPT
<1>7. RunsWell
  BY DEF RunsWell, Init
<1>8. Charged
  BY ExceptionsAssumption DEF Charged, Init, Since, Proc, Uproc
<1> QED BY <1>5, <1>6, <1>7, <1>8 DEF Inv

-----------------------------------------------------------------------------
\* What Inv says of the running process.
LEMMA Running ==
  ASSUME Inv, nucleus = "running"
  PROVE  /\ currentProcess \in live /\ currentProcess \in Proc /\ S!Free(currentProcess)
         /\ Good(currentProcess, cpu) /\ cpu \in State /\ live \subseteq Proc
         /\ cpu.lvl \in Level /\ cpu.pc \in Nat
  BY DEF Inv, TypeOK, RunsWell, S!Free, Good, State

\* What it says of the process that raised an exception other than an interrupt.
LEMMA Handled ==
  ASSUME Inv, nucleus = "exception", bios.cause # "int" \/ currentProcess # NULL
  PROVE  /\ currentProcess \in live /\ currentProcess \in Proc /\ S!Free(currentProcess)
         /\ Good(currentProcess, bios) /\ bios \in State /\ live \subseteq Proc
         /\ bios.lvl \in Level /\ bios.pc \in Nat /\ bios.a0 \in Nat
  BY DEF Inv, TypeOK, RunsWell, S!Free, Good, State

\* Nothing changes but the processor: enough is known of what it runs.
LEMMA SameAccounts ==
  ASSUME Inv, UNCHANGED <<currentProcess, live, clock>>, nucleus' # "scheduler"
  PROVE  Charged'
  BY DEF Inv, Charged, Since, clock

LEMMA SameSaved ==
  ASSUME Inv, UNCHANGED <<p_s, sup_exceptState>>
  PROVE  SavedWell'
  BY DEF Inv, SavedWell

LEMMA SameFree ==
  ASSUME UNCHANGED sems, NEW p, S!Free(p)
  PROVE  S!Free(p)'
  BY DEF S!Free, sems

\* An exception enters the nucleus.
LEMMA Raised ==
  ASSUME Inv, NEW c \in {"int", "tlb", "trap", "sys"}, NEW n \in Nat, Raise(c, n),
         nucleus = "running" \/ (nucleus = "wait" /\ c = "int"),
         c = "trap" => cpu.lvl = "user",
         c = "tlb" => cpu.lvl = "user" \/ (cpu.lvl = "general" /\ cpu.pc \in {CopyIn, CopyOut}),
         c = "sys" /\ cpu.lvl # "user" => n \in SyscallAt(cpu.lvl, cpu.pc)
  PROVE  Inv'
<1>1. cpu \in State /\ bios' \in State /\ bios'.cause = c /\ bios'.a0 = n
      /\ bios'.lvl = cpu.lvl /\ bios'.pc = cpu.pc /\ bios'.sup = cpu.sup
  <2>1. cpu \in State
    BY DEF Inv, TypeOK
  <2>2. bios' = [cpu EXCEPT !.cause = c, !.a0 = n]
    BY DEF Raise
  <2>3. NULL \in Support \cup {NULL}
    OBVIOUS
  <2>4. [cpu EXCEPT !.cause = c, !.a0 = n] \in State
    BY <2>1, <2>3, StateChange
  <2>5. bios'.cause = c /\ bios'.a0 = n /\ bios'.lvl = cpu.lvl /\ bios'.pc = cpu.pc
        /\ bios'.sup = cpu.sup
    BY <2>1, <2>2 DEF State
  <2> QED BY <2>1, <2>2, <2>4, <2>5
<1>2. TypeOK'
  BY <1>1 DEF Inv, TypeOK, Raise, sems, clock
<1>3. SavedWell' /\ Charged'
  BY SameSaved, SameAccounts DEF Raise, sems
<1>4. RunsWell'
  <2>1. CASE nucleus = "running"
    <3>1. S!Free(currentProcess)' /\ Good(currentProcess, cpu) /\ UNCHANGED currentProcess
      BY <2>1, Running, SameFree DEF Raise
    <3>2. Good(currentProcess', bios')
      BY <1>1, <3>1 DEF Good
    <3> QED BY <1>1, <3>1, <3>2 DEF RunsWell, Raise
  <2>2. CASE nucleus = "wait" /\ c = "int"
    <3>1. currentProcess' = NULL /\ nucleus' = "exception"
      BY <2>2 DEF RunsWell, Raise, Inv
    <3> QED BY <1>1, <2>2, <3>1 DEF RunsWell
  <2> QED BY <2>1, <2>2
<1> QED BY <1>2, <1>3, <1>4 DEF Inv

LEMMA RaiseSteps ==
  ASSUME Inv, userException \/ handlerCall \/ interrupt
  PROVE  Inv'
<1>1. CASE userException
  <2>1. nucleus = "running" /\ cpu.lvl = "user"
    BY <1>1 DEF userException
  <2>2. \A n \in CallNumber : n \in Nat
    BY ExceptionsAssumption
  <2>3. CASE Raise("tlb", 0) BY <2>1, <2>3, Raised
  <2>4. CASE Raise("trap", 0) BY <2>1, <2>4, Raised
  <2>5. ASSUME NEW n \in CallNumber, Raise("sys", n) PROVE Inv'
    BY <2>1, <2>2, <2>5, Raised
  <2> QED BY <1>1, <2>3, <2>4, <2>5 DEF userException
<1>2. CASE handlerCall
  <2>1. nucleus = "running" /\ cpu.lvl \in Level /\ cpu.pc \in Nat
    BY <1>2, Running DEF handlerCall
  <2>2. PICK n \in SyscallAt(cpu.lvl, cpu.pc) : Raise("sys", n)
    BY <1>2 DEF handlerCall
  <2>3. n \in Nat
    BY <2>1, Calls
  <2> QED BY <2>1, <2>2, <2>3, Raised
<1>3. CASE interrupt
  BY <1>3, Raised DEF interrupt
<1> QED BY <1>1, <1>2, <1>3

\* The code of a handler goes on at another instruction.
LEMMA Jumped ==
  ASSUME Inv, nucleus = "running", NEW n \in Nat, Jump(n), SavedWell',
         cpu.lvl = "general" => cpu.pc # GetSupport,
         sup_exceptState' \in [Support -> [{PGFAULTEXCEPT, GENERALEXCEPT} -> State]],
         supportFreeList' \in Seq(Support)
  PROVE  Inv'
<1>1. /\ S!Free(currentProcess)' /\ Good(currentProcess, cpu) /\ cpu \in State
      /\ cpu' \in State /\ cpu'.lvl = cpu.lvl /\ cpu'.sup = cpu.sup /\ cpu'.pc = n
  BY Running, SameFree, StateChange, ZenonT(40) DEF Jump, State
<1>2. Good(currentProcess', cpu')
  BY <1>1 DEF Good, Jump
<1>3. RunsWell'
  BY <1>1, <1>2 DEF RunsWell, Jump
<1>4. TypeOK'
  BY <1>1 DEF Inv, TypeOK, Jump, sems, clock
<1>5. Charged'
  BY SameAccounts DEF Jump, sems
<1> QED BY <1>3, <1>4, <1>5 DEF Inv

LEMMA OnlyJumped ==
  ASSUME Inv, nucleus = "running", NEW n \in Nat, Jump(n), UNCHANGED <<sup_exceptState, supportFreeList>>,
         cpu.lvl = "general" => cpu.pc # GetSupport
  PROVE  Inv'
<1>1. SavedWell'
  BY SameSaved DEF Jump
<1>2. /\ sup_exceptState' \in [Support -> [{PGFAULTEXCEPT, GENERALEXCEPT} -> State]]
      /\ supportFreeList' \in Seq(Support)
  BY DEF Inv, TypeOK
<1> QED BY <1>1, <1>2, Jumped

\* The support structure that a general handler has after its SYS8.
LEMMA OwnSupport ==
  ASSUME Inv, nucleus = "running", cpu.lvl = "general", cpu.pc # GetSupport
  PROVE  currentProcess \in Uproc /\ cpu.sup = SupportOf(currentProcess) /\ cpu.sup \in Support
  BY Running, OwnLevel, Basics DEF Good

\* A save area of the current U-proc is written with a good state.
LEMMA SaveInSupport ==
  ASSUME Inv, currentProcess \in Uproc, NEW x \in {PGFAULTEXCEPT, GENERALEXCEPT}, NEW s \in State,
         Good(currentProcess, s), x = GENERALEXCEPT => s.lvl = "user", UNCHANGED p_s,
         sup_exceptState' = [sup_exceptState EXCEPT ![SupportOf(currentProcess)][x] = s]
  PROVE  SavedWell' /\ sup_exceptState' \in [Support -> [{PGFAULTEXCEPT, GENERALEXCEPT} -> State]]
<1> DEFINE k == SupportOf(currentProcess)
<1>1. k \in Support /\ sup_exceptState \in [Support -> [{PGFAULTEXCEPT, GENERALEXCEPT} -> State]]
  BY Basics DEF Inv, TypeOK
<1>2. sup_exceptState' \in [Support -> [{PGFAULTEXCEPT, GENERALEXCEPT} -> State]]
  BY <1>1
<1>3. sup_exceptState'[k][x] = s
      /\ \A y \in {PGFAULTEXCEPT, GENERALEXCEPT} : y # x => sup_exceptState'[k][y] = sup_exceptState[k][y]
  BY <1>1
<1>4. \A p \in Uproc : p # currentProcess => sup_exceptState'[SupportOf(p)] = sup_exceptState[SupportOf(p)]
  BY <1>1, Basics
<1>5. ASSUME NEW p \in Uproc
      PROVE  /\ Good(p, sup_exceptState'[SupportOf(p)][PGFAULTEXCEPT])
             /\ Good(p, sup_exceptState'[SupportOf(p)][GENERALEXCEPT])
             /\ sup_exceptState'[SupportOf(p)][GENERALEXCEPT].lvl = "user"
  <2>1. CASE p = currentProcess
    BY <2>1, <1>3 DEF Inv, SavedWell, PGFAULTEXCEPT, GENERALEXCEPT
  <2>2. CASE p # currentProcess
    BY <2>2, <1>4 DEF Inv, SavedWell
  <2> QED BY <2>1, <2>2
<1>6. \A p \in Proc : Good(p, p_s'[p])
  BY DEF Inv, SavedWell
<1> QED BY <1>2, <1>5, <1>6 DEF SavedWell

LEMMA JumpSteps ==
  ASSUME Inv, userStep \/ dispatch \/ copy \/ freeSupportStruct \/ skip
  PROVE  Inv'
<1>1. /\ nucleus = "running"
      /\ sup_exceptState \in [Support -> [{PGFAULTEXCEPT, GENERALEXCEPT} -> State]]
      /\ supportFreeList \in Seq(Support) /\ cpu.pc \in Nat
  BY Running DEF userStep, dispatch, copy, freeSupportStruct, skip, Runs, Inv, TypeOK
<1>2. CASE userStep
  <2>1. cpu.pc + 1 \in Nat
    BY <1>1
  <2> QED BY <1>1, <1>2, <2>1, OnlyJumped DEF userStep
<1>3. CASE dispatch
  <2> DEFINE k == SupportOf(currentProcess)
             s == sup_exceptState[k][GENERALEXCEPT]
  <2>1. currentProcess \in Uproc /\ cpu.sup = k /\ cpu.lvl = "general" /\ cpu.pc # GetSupport
    BY <1>1, <1>3, OwnSupport DEF dispatch, Runs, Dispatch, GetSupport
  <2>2. s \in State /\ Good(currentProcess, s) /\ s.lvl = "user"
    BY <2>1, Basics, <1>1 DEF Inv, SavedWell
  <2>3. CASE Jump(Trapped) /\ UNCHANGED <<sup_exceptState, supportFreeList>>
    BY <1>1, <2>1, <2>3, OnlyJumped DEF Trapped
  <2>4. CASE /\ sup_exceptState' = [sup_exceptState EXCEPT ![k][GENERALEXCEPT].pc = @ + 1]
             /\ \E n \in {Resume, Serve, Terminate} : Jump(n)
             /\ UNCHANGED supportFreeList
    <3>1. [s EXCEPT !.pc = @ + 1] \in State
      BY <2>2, StateChange
    <3>2. Good(currentProcess, [s EXCEPT !.pc = @ + 1]) /\ [s EXCEPT !.pc = @ + 1].lvl = "user"
      BY <2>2, <3>1 DEF Good, State
    <3>3. sup_exceptState' = [sup_exceptState EXCEPT ![k][GENERALEXCEPT] = [s EXCEPT !.pc = @ + 1]]
      BY <2>4
    <3>4. UNCHANGED p_s
      BY <2>4 DEF Jump
    <3>5. SavedWell' /\ sup_exceptState' \in [Support -> [{PGFAULTEXCEPT, GENERALEXCEPT} -> State]]
      BY <2>1, <3>1, <3>2, <3>3, <3>4, SaveInSupport
    <3>6. PICK n \in {Resume, Serve, Terminate} : Jump(n)
      BY <2>4
    <3>7. n \in Nat /\ supportFreeList' \in Seq(Support)
      BY <1>1, <2>4 DEF Resume, Serve, Terminate
    <3> QED BY <1>1, <2>1, <3>5, <3>6, <3>7, Jumped
  <2> QED BY <1>3, <2>1, <2>3, <2>4 DEF dispatch
<1>4. CASE copy
  <2>1. cpu.pc # GetSupport /\ cpu.lvl = "general" /\ cpu.pc \in {CopyIn, CopyOut}
    BY <1>4 DEF copy, Runs, CopyIn, CopyOut, GetSupport
  <2>2. CASE Raise("tlb", 0)
    BY <1>1, <2>1, <2>2, Raised
  <2>3. CASE Jump(cpu.pc + 1) /\ UNCHANGED <<sup_exceptState, supportFreeList>>
    <3>1. cpu.pc + 1 \in Nat
      BY <1>1
    <3> QED BY <1>1, <2>1, <2>3, <3>1, OnlyJumped
  <2> QED BY <1>4, <2>2, <2>3 DEF copy
<1>5. CASE freeSupportStruct
  <2>1. SupportOf(currentProcess) \in Support
    BY <1>1, <1>5, OwnSupport DEF freeSupportStruct, Runs, FreeSup, GetSupport
  <2>2. supportFreeList' \in Seq(Support)
    BY <1>1, <1>5, <2>1 DEF freeSupportStruct
  <2>3. SavedWell' /\ UNCHANGED sup_exceptState /\ cpu.pc # GetSupport /\ Jump(Exit)
    BY <1>5, SameSaved DEF freeSupportStruct, Jump, Runs, FreeSup, GetSupport
  <2>4. Exit \in Nat
    BY DEF Exit
  <2> QED BY <1>1, <2>2, <2>3, <2>4, Jumped
<1>6. CASE skip
  <2>1. cpu.lvl # "general" /\ UNCHANGED <<sup_exceptState, supportFreeList>>
        /\ \E n \in {0, ReadIn} : Jump(n)
    BY <1>6 DEF skip, Runs
  <2>2. PICK n \in {0, ReadIn} : Jump(n)
    BY <2>1
  <2>3. n \in Nat
    BY DEF ReadIn
  <2> QED BY <1>1, <2>1, <2>2, <2>3, OnlyJumped
<1> QED BY <1>2, <1>3, <1>4, <1>5, <1>6

-----------------------------------------------------------------------------
\* A state is loaded into the processor.
LEMMA Loaded ==
  ASSUME NEW p, NEW s \in State, Good(p, s), LDST(s), currentProcess' = p, S!Free(p)'
  PROVE  cpu' \in State /\ RunsWell'
<1>1. [s EXCEPT !.cause = "none", !.a0 = 0] \in State
  BY StateChange
<1>2. cpu' \in State /\ cpu'.lvl = s.lvl /\ cpu'.pc = s.pc /\ cpu'.sup = s.sup
  BY <1>1 DEF LDST, State
<1> QED BY <1>2 DEF Good, RunsWell, LDST

LEMMA ResumeStep ==
  ASSUME Inv, resume
  PROVE  Inv'
<1>1. nucleus = "running" /\ S!Free(currentProcess)' /\ currentProcess' = currentProcess
  BY Running, SameFree DEF resume, Runs
<1>2. PICK s : s \in State /\ Good(currentProcess, s) /\ LDST(s)
  <2> DEFINE k == SupportOf(currentProcess)
  <2>1. currentProcess \in Uproc /\ k \in Support
    BY <1>1, Running, OwnLevel, Basics DEF resume, Runs
  <2>2. CASE Runs("general", Resume) /\ LDST(sup_exceptState[cpu.sup][GENERALEXCEPT])
    <3>1. cpu.sup = k
      BY <1>1, <2>2, OwnSupport DEF Runs, Resume, GetSupport
    <3>2. Good(currentProcess, sup_exceptState[k][GENERALEXCEPT])
      BY <2>1 DEF Inv, SavedWell
    <3> QED BY <2>2, <3>1, <3>2 DEF Good
  <2>3. CASE Runs("pager", Retry) /\ LDST(sup_exceptState[k][PGFAULTEXCEPT])
    <3>1. Good(currentProcess, sup_exceptState[k][PGFAULTEXCEPT])
      BY <2>1 DEF Inv, SavedWell
    <3> QED BY <2>3, <3>1 DEF Good
  <2> QED BY <2>2, <2>3 DEF resume
<1>3. cpu' \in State /\ RunsWell'
  BY <1>1, <1>2, Loaded
<1>4. TypeOK'
  BY <1>2, <1>3 DEF Inv, TypeOK, resume, sems, clock, LDST
<1>5. SavedWell' /\ Charged'
  BY <1>2, SameSaved, SameAccounts DEF resume, sems, LDST
<1> QED BY <1>3, <1>4, <1>5 DEF Inv

-----------------------------------------------------------------------------
\* An exception is passed up to a handler of the support level.
LEMMA PassedUp ==
  ASSUME Inv, S!Free(currentProcess), currentProcess \in Uproc,
         NEW x \in {PGFAULTEXCEPT, GENERALEXCEPT}, NEW s \in State, passUpOrDie(x, s),
         Good(currentProcess, s), x = GENERALEXCEPT => s.lvl = "user", bios' \in State
  PROVE  Inv'
<1>1. /\ UNCHANGED <<currentProcess, p_s, supportFreeList, sems, clock>>
      /\ sup_exceptState' = [sup_exceptState EXCEPT ![SupportOf(currentProcess)][x] = s]
      /\ nucleus' = "running" /\ cpu' \in {Start("pager"), Start("general")}
  BY DEF passUpOrDie, LDCXT
<1>2. SavedWell' /\ sup_exceptState' \in [Support -> [{PGFAULTEXCEPT, GENERALEXCEPT} -> State]]
  BY <1>1, SaveInSupport
<1>3. Good(currentProcess, cpu') /\ cpu' \in State /\ S!Free(currentProcess)'
  <2>1. Good(currentProcess, Start("pager")) /\ Good(currentProcess, Start("general"))
    BY Basics, StartGood DEF Level, LevelsOf
  <2>2. S!Free(currentProcess)'
    BY <1>1, SameFree
  <2> QED BY <1>1, <2>1, <2>2 DEF Good
<1>4. RunsWell'
  BY <1>1, <1>3 DEF RunsWell
<1>5. Charged'
  BY <1>1, SameAccounts DEF sems
<1>6. TypeOK'
  BY <1>1, <1>2, <1>3 DEF Inv, TypeOK, sems, clock
<1> QED BY <1>2, <1>4, <1>5, <1>6 DEF Inv

\* The saved state of a SYSCALL of the nucleus, and the one after it.
LEMMA SavedState ==
  ASSUME Inv, nucleus = "exception", bios.cause = "sys"
  PROVE  /\ saved \in State /\ saved.lvl = bios.lvl /\ saved.pc = bios.pc + 1 /\ saved.sup = bios.sup
         /\ bios.lvl = "user" => Good(currentProcess, saved)
         /\ bios.lvl # "user" => bios.a0 \in SyscallAt(bios.lvl, bios.pc) /\ bios.a0 \in 1 .. 8
         /\ bios.lvl # "user" /\ bios.a0 # 8 => Good(currentProcess, saved)
<1>1. /\ Good(currentProcess, bios) /\ bios \in State /\ bios.lvl \in Level /\ bios.pc \in Nat
      /\ bios.lvl # "user" => bios.a0 \in SyscallAt(bios.lvl, bios.pc)
  BY Handled DEF Inv, RunsWell
<1>2. saved \in State
  BY <1>1, StateChange DEF saved
<1>3. saved.lvl = bios.lvl /\ saved.pc = bios.pc + 1 /\ saved.sup = bios.sup
  BY <1>1 DEF saved, State
<1>4. bios.lvl # "user" => bios.a0 \in 1 .. 8
  BY <1>1, Calls
<1>5. bios.lvl = "general" /\ bios.a0 # 8 => bios.pc # GetSupport
  BY <1>1, Calls
<1>6. bios.lvl = "user" \/ bios.a0 # 8 => Good(currentProcess, saved)
  BY <1>1, <1>2, <1>3, <1>5 DEF Good
<1> QED BY <1>1, <1>2, <1>3, <1>4, <1>6

LEMMA PassUpSteps ==
  ASSUME Inv, TLBExceptionHandler \/ programTrapHandler \/ supportCall \/ userModeCall
  PROVE  Inv'
<1>1. /\ nucleus = "exception" /\ bios.cause # "int"
      /\ S!Free(currentProcess) /\ Good(currentProcess, bios) /\ bios \in State /\ bios.a0 \in Nat
      /\ currentProcess \in Proc /\ PGFAULTEXCEPT # GENERALEXCEPT
  BY Handled DEF TLBExceptionHandler, programTrapHandler, supportCall, userModeCall, Handling,
                 PGFAULTEXCEPT, GENERALEXCEPT
<1>2. CASE TLBExceptionHandler
  <2>1. bios.lvl \in {"user", "general"}
    BY <1>1, <1>2 DEF TLBExceptionHandler, Handling, Inv, RunsWell
  <2>2. currentProcess \in Uproc
    BY <1>1, <2>1, OwnLevel
  <2> QED BY <1>1, <1>2, <2>2, PassedUp DEF TLBExceptionHandler
<1>3. CASE programTrapHandler \/ supportCall
  <2>1. bios.lvl = "user"
    BY <1>1, <1>3, SavedState DEF programTrapHandler, supportCall, Handling, Inv, RunsWell
  <2>2. currentProcess \in Uproc
    BY <1>1, <2>1, OwnLevel
  <2> QED BY <1>1, <1>3, <2>1, <2>2, PassedUp DEF programTrapHandler, supportCall
<1>4. CASE userModeCall
  <2>1. bios.lvl = "user" /\ saved \in State /\ saved.lvl = "user" /\ Good(currentProcess, saved)
    BY <1>1, <1>4, SavedState DEF userModeCall, Handling
  <2>2. currentProcess \in Uproc
    BY <1>1, <2>1, OwnLevel
  <2>3. bios' = saved /\ passUpOrDie(GENERALEXCEPT, saved)
    BY <1>4 DEF userModeCall
  <2> QED BY <1>1, <2>1, <2>2, <2>3, PassedUp
<1> QED BY <1>2, <1>3, <1>4

-----------------------------------------------------------------------------
\* updateCPUTime brings the account of the current process up to date.
LEMMA Updated ==
  ASSUME Inv, currentProcess \in live, updateCPUTime, UNCHANGED <<currentProcess, live>>
  PROVE  /\ Charged' /\ tod' \in Nat
         /\ p_time' \in [Proc -> Nat] /\ p_startTOD' \in [Proc -> Nat] /\ used' \in [Proc -> Nat]
<1> DEFINE cur == currentProcess
<1>1. /\ live \subseteq Proc /\ tod \in Nat /\ p_time \in [Proc -> Nat] /\ p_startTOD \in [Proc -> Nat]
      /\ used \in [Proc -> Nat] /\ cur \in Proc
  BY DEF Inv, TypeOK
<1>2. /\ \A p \in Proc : p_startTOD[p] <= tod
      /\ used[cur] <= p_time[cur] + (tod - p_startTOD[cur])
      /\ \A p \in live : p # cur => used[p] <= p_time[p]
  BY <1>1 DEF Inv, Charged, Since
<1>3. /\ p_time' = [p_time EXCEPT ![cur] = p_time[cur] + (tod - p_startTOD[cur])]
      /\ p_startTOD' = [p_startTOD EXCEPT ![cur] = tod]
      /\ tod' = tod /\ used' = used
  BY DEF updateCPUTime
<1>4. tod - p_startTOD[cur] \in Nat
  BY <1>1, <1>2
<1>5. p_time[cur] + (tod - p_startTOD[cur]) \in Nat
  BY <1>1, <1>4
<1>6. tod' \in Nat /\ p_time' \in [Proc -> Nat] /\ p_startTOD' \in [Proc -> Nat] /\ used' \in [Proc -> Nat]
  BY <1>1, <1>3, <1>5
<1>7. p_startTOD'[cur] = tod /\ \A p \in Proc : p # cur => p_startTOD'[p] = p_startTOD[p]
  BY <1>1, <1>3
<1>8. p_time'[cur] = p_time[cur] + (tod - p_startTOD[cur]) /\ \A p \in Proc : p # cur => p_time'[p] = p_time[p]
  BY <1>1, <1>3
<1>9. \A p \in Proc : p_startTOD'[p] <= tod'
  BY <1>1, <1>2, <1>3, <1>7
<1>10. \A p \in live : used'[p] <= p_time'[p] + Since(p)'
  <2> SUFFICES ASSUME NEW p \in live PROVE used'[p] <= p_time'[p] + Since(p)'
    OBVIOUS
  <2>1. CASE p = cur
    <3>1. Since(p)' = tod - tod
      BY <2>1, <1>3, <1>7 DEF Since
    <3>2. used[cur] <= p_time'[cur]
      BY <1>2, <1>8
    <3>3. p_time'[cur] \in Nat /\ tod \in Nat /\ used[cur] \in Nat
      BY <1>1, <1>6
    <3> QED BY <2>1, <3>1, <3>2, <3>3, <1>3
  <2>2. CASE p # cur
    <3>1. Since(p)' = 0
      BY <2>2 DEF Since
    <3>2. p \in Proc /\ used[p] <= p_time'[p] /\ p_time'[p] \in Nat
      BY <1>1, <1>2, <1>6, <1>8, <2>2
    <3> QED BY <3>1, <3>2, <1>3
  <2> QED BY <2>1, <2>2
<1> QED BY <1>3, <1>6, <1>7, <1>9, <1>10 DEF Charged

\* A process stays free when the queues only get shorter.
LEMMA FreeKept ==
  ASSUME NEW p, S!Free(p), p \in live', \A s \in Sem : S!ToSet(waiting[s])' \subseteq S!ToSet(waiting[s])
  PROVE  S!Free(p)'
  BY DEF S!Free

LEMMA Verhogen ==
  ASSUME Inv, NEW s \in Sem, S!V(s)
  PROVE  /\ UNCHANGED live /\ sem' \in [Sem -> Int] /\ waiting' \in [Sem -> Seq(Proc)]
         /\ \A t \in Sem : S!ToSet(waiting[t])' \subseteq S!ToSet(waiting[t])
<1>1. sem \in [Sem -> Int] /\ waiting \in [Sem -> Seq(Proc)]
  BY DEF Inv, TypeOK
<1>2. \A q \in Seq(Proc) : q # <<>> => Tail(q) \in Seq(Proc) /\ S!ToSet(Tail(q)) \subseteq S!ToSet(q)
  BY DEF S!ToSet
<1>3. sem' = [sem EXCEPT ![s] = sem[s] + 1] /\ UNCHANGED live
      /\ waiting' = [waiting EXCEPT ![s] = IF waiting[s] = <<>> THEN waiting[s] ELSE Tail(waiting[s])]
  BY DEF S!V
<1>4. sem' \in [Sem -> Int]
  BY <1>1, <1>3
<1>5. waiting' \in [Sem -> Seq(Proc)]
  BY <1>1, <1>2, <1>3
<1>6. ASSUME NEW t \in Sem PROVE S!ToSet(waiting'[t]) \subseteq S!ToSet(waiting[t])
  BY <1>1, <1>2, <1>3
<1> QED BY <1>3, <1>4, <1>5, <1>6 DEF S!ToSet

LEMMA SemaphoreAtSem == \A l, pc : SemaphoreAt(l, pc) \in Sem
  BY DEF SemaphoreAt, Sem

LEMMA VerhogenStep ==
  ASSUME Inv, sysVerhogen
  PROVE  Inv'
<1>1. /\ S!Free(currentProcess) /\ currentProcess \in live
      /\ saved \in State /\ Good(currentProcess, saved)
  BY Handled, SavedState DEF sysVerhogen, syscall, Handling
<1>2. PICK s \in Sem : S!V(s)
  BY SemaphoreAtSem DEF sysVerhogen
<1>3. /\ UNCHANGED live /\ sem' \in [Sem -> Int] /\ waiting' \in [Sem -> Seq(Proc)]
      /\ S!Free(currentProcess)' /\ currentProcess' = currentProcess
  BY <1>1, <1>2, Verhogen, FreeKept DEF sysVerhogen
<1>4. cpu' \in State /\ RunsWell'
  BY <1>1, <1>3, Loaded DEF sysVerhogen
<1>5. TypeOK'
  BY <1>1, <1>3, <1>4 DEF Inv, TypeOK, sysVerhogen, clock, LDST
<1>6. SavedWell' /\ Charged'
  BY <1>3, SameSaved, SameAccounts DEF sysVerhogen, LDST
<1> QED BY <1>4, <1>5, <1>6 DEF Inv

LEMMA SupportPtrStep ==
  ASSUME Inv, sysGetSupportPTR
  PROVE  Inv'
<1> DEFINE s == [saved EXCEPT !.sup = SupportOf(currentProcess)]
<1>1. /\ S!Free(currentProcess) /\ currentProcess \in Proc /\ Good(currentProcess, bios)
      /\ saved \in State /\ saved.lvl = bios.lvl
  BY Handled, SavedState DEF sysGetSupportPTR, syscall, Handling
<1>2. s \in State /\ s.lvl = saved.lvl /\ s.sup = SupportOf(currentProcess)
  <2>1. s \in State
    BY <1>1, Basics, StateChange
  <2> QED BY <1>1, <2>1 DEF State
<1>3. Good(currentProcess, s)
  BY <1>1, <1>2 DEF Good
<1>4. bios' = s /\ LDST(s) /\ S!Free(currentProcess)' /\ currentProcess' = currentProcess
  BY <1>1, SameFree DEF sysGetSupportPTR
<1>5. cpu' \in State /\ RunsWell'
  BY <1>2, <1>3, <1>4, Loaded
<1>6. TypeOK'
  BY <1>2, <1>4, <1>5 DEF Inv, TypeOK, sysGetSupportPTR, sems, clock, LDST
<1>7. SavedWell' /\ Charged'
  BY <1>4, SameSaved, SameAccounts DEF sysGetSupportPTR, sems, LDST
<1> QED BY <1>5, <1>6, <1>7 DEF Inv

LEMMA CreateStep ==
  ASSUME Inv, sysCreateProcess
  PROVE  Inv'
<1> DEFINE q == saved.pc
<1>1. /\ S!Free(currentProcess) /\ currentProcess \in live
      /\ saved \in State /\ Good(currentProcess, saved) /\ q \in Uproc /\ q \in Proc
  <2>1. bios.lvl \in Level /\ bios.pc \in Nat /\ 1 \in SyscallAt(bios.lvl, bios.pc) /\ q = bios.pc + 1
    BY Handled, SavedState DEF sysCreateProcess, syscall, Handling
  <2>2. q \in Uproc /\ q \in Proc
    BY <2>1, Calls, Basics
  <2> QED BY <2>2, Handled, SavedState DEF sysCreateProcess, syscall, Handling
<1>2. /\ live' = live \cup {q} /\ UNCHANGED <<sem, waiting>>
      /\ p_s' = [p_s EXCEPT ![q] = Start("user")]
      /\ p_time' = [p_time EXCEPT ![q] = 0] /\ used' = [used EXCEPT ![q] = 0]
      /\ bios' = saved /\ LDST(saved) /\ nucleus' = "running"
      /\ UNCHANGED <<currentProcess, sup_exceptState, supportFreeList, tod, p_startTOD>>
  BY DEF sysCreateProcess, S!Join, LDST
<1>3. S!Free(currentProcess)'
  BY <1>1, <1>2 DEF S!Free
<1>4. cpu' \in State /\ RunsWell'
  BY <1>1, <1>2, <1>3, Loaded
<1>5. Good(q, Start("user")) /\ Start("user") \in State
  BY <1>1, StartGood, Basics DEF Level, LevelsOf, Good
<1>6. TypeOK'
  BY <1>1, <1>2, <1>4, <1>5 DEF Inv, TypeOK
<1>7. SavedWell'
  <2>1. \A p \in Proc : Good(p, p_s'[p])
    BY <1>1, <1>2, <1>5 DEF Inv, SavedWell, TypeOK
  <2> QED BY <2>1, <1>2 DEF Inv, SavedWell
<1>8. Charged'
  <2>1. /\ \A p \in Proc : p_startTOD[p] <= tod /\ p_startTOD[p] \in Nat /\ tod \in Nat
        /\ \A p \in live : used[p] <= p_time[p] + Since(p)
        /\ p_time \in [Proc -> Nat] /\ used \in [Proc -> Nat] /\ live \subseteq Proc
    BY DEF Inv, TypeOK, Charged
  <2>2. ASSUME NEW p \in live' PROVE used'[p] <= p_time'[p] + Since(p)'
    <3>1. Since(p)' = Since(p) /\ Since(p) \in Nat
      BY <1>1, <1>2, <2>1, <2>2 DEF Since
    <3>2. CASE p = q
      <4>1. used'[p] = 0 /\ p_time'[p] = 0
        BY <1>1, <1>2, <2>1, <3>2
      <4> QED BY <3>1, <4>1
    <3>3. CASE p # q
      <4>1. p \in live /\ used'[p] = used[p] /\ p_time'[p] = p_time[p]
        BY <1>2, <2>1, <2>2, <3>3
      <4> QED BY <2>1, <3>1, <4>1
    <3> QED BY <3>2, <3>3
  <2> QED BY <1>2, <2>1, <2>2 DEF Charged
<1> QED BY <1>4, <1>6, <1>7, <1>8 DEF Inv

\* A P that blocks: the state is in the pcb and the account is up to date.
LEMMA Blocked ==
  ASSUME Inv, NEW s \in Sem, block(s), saved \in State, Good(currentProcess, saved),
         currentProcess \in live
  PROVE  Inv'
<1>1. /\ updateCPUTime /\ S!P(s, currentProcess) /\ bios' = saved /\ sem[s] <= 0
      /\ p_s' = [p_s EXCEPT ![currentProcess] = saved]
      /\ nucleus' = "scheduler" /\ cpu' = cpu
      /\ UNCHANGED <<currentProcess, sup_exceptState, supportFreeList>>
  BY DEF block, passeren
<1>2. /\ sem' = [sem EXCEPT ![s] = sem[s] - 1] /\ live' = live
      /\ waiting' = [waiting EXCEPT ![s] = IF sem[s] > 0 THEN waiting[s] ELSE Append(waiting[s], currentProcess)]
  BY <1>1 DEF S!P
<1>3. sem \in [Sem -> Int] /\ waiting \in [Sem -> Seq(Proc)] /\ currentProcess \in Proc
  BY DEF Inv, TypeOK
<1>4. sem' \in [Sem -> Int] /\ waiting' \in [Sem -> Seq(Proc)]
  BY <1>2, <1>3
<1>5. Charged' /\ tod' \in Nat
      /\ p_time' \in [Proc -> Nat] /\ p_startTOD' \in [Proc -> Nat] /\ used' \in [Proc -> Nat]
  BY <1>1, <1>2, Updated
<1>6. TypeOK'
  BY <1>1, <1>2, <1>3, <1>4, <1>5 DEF Inv, TypeOK
<1>7. SavedWell'
  <2>1. \A p \in Proc : Good(p, p_s'[p])
    BY <1>1, <1>3 DEF Inv, SavedWell, TypeOK
  <2> QED BY <2>1, <1>1 DEF Inv, SavedWell
<1>8. RunsWell'
  BY <1>1 DEF RunsWell
<1> QED BY <1>5, <1>6, <1>7, <1>8 DEF Inv

LEMMA PasserenSteps ==
  ASSUME Inv, sysPasseren \/ sysWaitIO \/ sysWaitClock
  PROVE  Inv'
<1>1. /\ S!Free(currentProcess) /\ currentProcess \in live /\ currentProcess \in Proc
      /\ saved \in State /\ Good(currentProcess, saved)
  BY Handled, SavedState DEF sysPasseren, sysWaitIO, sysWaitClock, syscall, Handling
<1>2. \A s \in Sem : block(s) => Inv'
  BY <1>1, Blocked
<1>3. Io(currentProcess) \in Sem /\ Clock \in Sem
  BY <1>1 DEF Sem
<1>4. ASSUME NEW s \in Sem, passeren(s), sem[s] > 0, LDST(saved), UNCHANGED p_s PROVE Inv'
  <2>1. /\ updateCPUTime /\ S!P(s, currentProcess) /\ bios' = saved /\ nucleus' = "running"
        /\ UNCHANGED <<currentProcess, sup_exceptState, supportFreeList, p_s>>
    BY <1>4 DEF passeren, LDST
  <2>2. sem \in [Sem -> Int] /\ waiting \in [Sem -> Seq(Proc)]
    BY DEF Inv, TypeOK
  <2>3. sem' \in [Sem -> Int] /\ waiting' = waiting /\ live' = live
    BY <1>4, <2>1, <2>2 DEF S!P
  <2>4. S!Free(currentProcess)'
    BY <1>1, <2>1, <2>3 DEF S!Free
  <2>5. cpu' \in State /\ RunsWell'
    BY <1>1, <1>4, <2>1, <2>4, Loaded
  <2>6. Charged' /\ tod' \in Nat
        /\ p_time' \in [Proc -> Nat] /\ p_startTOD' \in [Proc -> Nat] /\ used' \in [Proc -> Nat]
    BY <1>1, <2>1, <2>3, Updated
  <2>7. TypeOK'
    BY <1>1, <2>1, <2>2, <2>3, <2>5, <2>6 DEF Inv, TypeOK
  <2>8. SavedWell'
    BY <2>1, SameSaved
  <2> QED BY <2>5, <2>6, <2>7, <2>8 DEF Inv
<1>5. CASE sysPasseren
  <2>1. PICK s \in Sem : block(s) \/ (passeren(s) /\ sem[s] > 0 /\ LDST(saved) /\ UNCHANGED p_s)
    BY <1>5, SemaphoreAtSem DEF sysPasseren
  <2> QED BY <2>1, <1>2, <1>4
<1>6. CASE sysWaitIO
  BY <1>6, <1>2, <1>3 DEF sysWaitIO
<1>7. CASE sysWaitClock
  BY <1>7, <1>2, <1>3 DEF sysWaitClock
<1> QED BY <1>5, <1>6, <1>7

LEMMA TerminateStep ==
  ASSUME Inv, sysTerminate
  PROVE  Inv'
<1>1. /\ S!Free(currentProcess) /\ currentProcess \in live /\ saved \in State
  BY Handled, SavedState DEF sysTerminate, syscall, Handling
<1>2. /\ bios' = saved /\ nucleus' \in {"halted", "scheduler"}
      /\ UNCHANGED <<currentProcess, cpu, p_s, sup_exceptState, supportFreeList, clock>>
      /\ \/ nucleus' = "halted" /\ UNCHANGED sems
         \/ nucleus' = "scheduler" /\ S!Leave(currentProcess)
  BY DEF sysTerminate
<1>3. sem \in [Sem -> Int] /\ waiting \in [Sem -> Seq(Proc)] /\ live \subseteq Proc
  BY DEF Inv, TypeOK
<1>4. ASSUME S!Leave(currentProcess)
      PROVE  /\ live' = live \ {currentProcess} /\ sem' \in [Sem -> Int] /\ waiting' = waiting
  <2>1. /\ live' = live \ {currentProcess}
        /\ sem' = [s \in Sem |-> IF currentProcess \in S!ToSet(waiting[s]) THEN sem[s] + 1 ELSE sem[s]]
        /\ waiting' = [s \in Sem |-> S!RemoveFirst(waiting[s], currentProcess)]
    BY <1>4 DEF S!Leave
  <2>2. ASSUME NEW s \in Sem PROVE S!RemoveFirst(waiting[s], currentProcess) = waiting[s]
    <3>1. ~ \E i \in 1 .. Len(waiting[s]) : waiting[s][i] = currentProcess
      BY <1>1 DEF S!Free, S!ToSet
    <3> QED BY <3>1 DEF S!RemoveFirst
  <2>3. waiting' = waiting
    BY <1>3, <2>1, <2>2
  <2>4. sem' \in [Sem -> Int]
    BY <1>3, <2>1
  <2> QED BY <2>1, <2>3, <2>4
<1>5. live' \subseteq live /\ sem' \in [Sem -> Int] /\ waiting' = waiting
      /\ (nucleus' = "scheduler" => currentProcess \notin live')
  BY <1>2, <1>3, <1>4 DEF sems
<1>6. TypeOK'
  BY <1>1, <1>2, <1>3, <1>5 DEF Inv, TypeOK, clock
<1>9. nucleus' = "halted" => Good(currentProcess, saved)
  <2>1. nucleus' = "halted" => currentProcess = Test
    BY DEF sysTerminate
  <2>2. saved.lvl \in LevelsOf(currentProcess) /\ (currentProcess = Test => saved.lvl # "general")
    BY Handled, SavedState DEF Good, LevelsOf, sysTerminate, syscall, Handling
  <2> QED BY <1>1, <2>1, <2>2 DEF Good
<1>7. SavedWell' /\ RunsWell'
  BY <1>2, <1>9, SameSaved DEF RunsWell
<1>8. Charged'
  BY <1>2, <1>5 DEF Inv, Charged, Since, clock
<1> QED BY <1>6, <1>7, <1>8 DEF Inv

-----------------------------------------------------------------------------
LEMMA PLTStep ==
  ASSUME Inv, handlePLTInterrupt
  PROVE  Inv'
<1>1. /\ currentProcess \in live /\ currentProcess \in Proc
      /\ bios \in State /\ Good(currentProcess, bios)
  BY Handled DEF handlePLTInterrupt, Handling
<1>2. /\ updateCPUTime /\ p_s' = [p_s EXCEPT ![currentProcess] = bios] /\ nucleus' = "scheduler"
      /\ UNCHANGED <<currentProcess, cpu, bios, sup_exceptState, supportFreeList, sems>>
  BY DEF handlePLTInterrupt
<1>3. Charged' /\ tod' \in Nat
      /\ p_time' \in [Proc -> Nat] /\ p_startTOD' \in [Proc -> Nat] /\ used' \in [Proc -> Nat]
  BY <1>1, <1>2, Updated DEF sems
<1>4. TypeOK'
  BY <1>1, <1>2, <1>3 DEF Inv, TypeOK, sems
<1>5. SavedWell'
  <2>1. \A p \in Proc : Good(p, p_s'[p])
    BY <1>1, <1>2 DEF Inv, SavedWell, TypeOK
  <2> QED BY <2>1, <1>2 DEF Inv, SavedWell
<1>6. RunsWell'
  BY <1>2 DEF RunsWell
<1> QED BY <1>3, <1>4, <1>5, <1>6 DEF Inv

\* The interrupts that end with the current process, when the queues only got
\* shorter.
LEMMA WentBack ==
  ASSUME Inv, Handling("int"), backToCurrent, UNCHANGED live,
         sem' \in [Sem -> Int], waiting' \in [Sem -> Seq(Proc)],
         \A s \in Sem : S!ToSet(waiting[s])' \subseteq S!ToSet(waiting[s])
  PROVE  Inv'
<1>1. UNCHANGED <<currentProcess, bios, p_s, sup_exceptState, supportFreeList, clock>>
  BY DEF backToCurrent
<1>2. cpu' \in State /\ RunsWell' /\ nucleus' \in {"running", "scheduler"}
      /\ (nucleus' = "scheduler" => currentProcess' \notin live')
  <2>1. CASE currentProcess # NULL
    <3>1. /\ S!Free(currentProcess) /\ currentProcess \in live /\ bios \in State /\ Good(currentProcess, bios)
      BY <2>1, Handled DEF Handling
    <3>2. S!Free(currentProcess)' /\ LDST(bios) /\ nucleus' = "running"
      BY <2>1, <3>1, FreeKept, <1>1 DEF backToCurrent, LDST
    <3> QED BY <1>1, <3>1, <3>2, Loaded
  <2>2. CASE currentProcess = NULL
    <3>1. nucleus' = "scheduler" /\ cpu' = cpu
      BY <2>2 DEF backToCurrent
    <3>2. cpu \in State /\ NULL \notin live
      BY Basics DEF Inv, TypeOK
    <3> QED BY <1>1, <2>2, <3>1, <3>2 DEF RunsWell
  <2> QED BY <2>1, <2>2
<1>3. TypeOK'
  BY <1>1, <1>2 DEF Inv, TypeOK, clock
<1>4. SavedWell'
  BY <1>1, SameSaved
<1>5. Charged'
  BY <1>1, <1>2 DEF Inv, Charged, Since, clock
<1> QED BY <1>2, <1>3, <1>4, <1>5 DEF Inv

LEMMA InterruptSteps ==
  ASSUME Inv, handleIntervalTimerInterrupt \/ \E p \in Proc : handleDeviceInterrupt(p)
  PROVE  Inv'
<1>1. sem \in [Sem -> Int] /\ waiting \in [Sem -> Seq(Proc)] /\ Clock \in Sem
  BY DEF Inv, TypeOK, Sem
<1>2. CASE handleIntervalTimerInterrupt
  <2>1. sem' = [sem EXCEPT ![Clock] = 0] /\ waiting' = [waiting EXCEPT ![Clock] = <<>>]
        /\ Handling("int") /\ backToCurrent /\ UNCHANGED live
    BY <1>2 DEF handleIntervalTimerInterrupt
  <2>2. sem' \in [Sem -> Int] /\ waiting' \in [Sem -> Seq(Proc)]
    BY <1>1, <2>1
  <2>3. S!ToSet(<<>>) = {}
    BY DEF S!ToSet
  <2>4. ASSUME NEW s \in Sem PROVE S!ToSet(waiting'[s]) \subseteq S!ToSet(waiting[s])
    BY <1>1, <2>1, <2>3
  <2>5. \A s \in Sem : S!ToSet(waiting[s])' \subseteq S!ToSet(waiting[s])
    BY <2>4 DEF S!ToSet
  <2> QED BY <2>1, <2>2, <2>5, WentBack
<1>3. ASSUME NEW p \in Proc, handleDeviceInterrupt(p) PROVE Inv'
  <2>1. Io(p) \in Sem /\ S!V(Io(p)) /\ Handling("int") /\ backToCurrent
    BY <1>3 DEF handleDeviceInterrupt, Sem
  <2> QED BY <2>1, Verhogen, WentBack
<1> QED BY <1>2, <1>3

LEMMA SchedulerStep ==
  ASSUME Inv, scheduler
  PROVE  Inv'
<1>1. /\ nucleus = "scheduler"
      /\ UNCHANGED <<bios, p_s, sup_exceptState, supportFreeList, sems, clock>>
  BY DEF scheduler
<1>2. /\ cpu' \in State /\ RunsWell' /\ currentProcess' \in Proc \cup {NULL}
      /\ nucleus' \in {"running", "wait"}
  <2>1. ASSUME NEW p \in live, S!Free(p), currentProcess' = p, LDST(p_s[p])
        PROVE  cpu' \in State /\ RunsWell' /\ p \in Proc
    <3>1. p \in Proc /\ Good(p, p_s[p]) /\ p_s[p] \in State
      BY DEF Inv, TypeOK, SavedWell
    <3>2. S!Free(p)'
      BY <1>1, <2>1, SameFree
    <3> QED BY <2>1, <3>1, <3>2, Loaded
  <2>2. CASE currentProcess' = NULL /\ nucleus' = "wait" /\ UNCHANGED cpu
    BY <2>2 DEF Inv, TypeOK, RunsWell
  <2> QED BY <2>1, <2>2 DEF scheduler, LDST
<1>3. TypeOK'
  BY <1>1, <1>2 DEF Inv, TypeOK, sems, clock
<1>4. SavedWell'
  BY <1>1, SameSaved
<1>5. Charged'
  <2>1. /\ \A p \in Proc : p_startTOD[p] <= tod /\ p_startTOD[p] \in Nat /\ tod \in Nat
        /\ \A p \in live : used[p] <= p_time[p] + Since(p)
        /\ currentProcess \in live => p_startTOD[currentProcess] = tod
        /\ p_time \in [Proc -> Nat] /\ used \in [Proc -> Nat] /\ live \subseteq Proc
    BY <1>1 DEF Inv, TypeOK, Charged
  <2>2. \A p \in live : Since(p) = 0 /\ Since(p)' \in Nat
    BY <1>1, <2>1 DEF Since, clock
  <2>3. \A p \in live : used[p] <= p_time[p] + Since(p)'
    BY <2>1, <2>2
  <2> QED BY <1>1, <1>2, <2>1, <2>3 DEF Charged, clock, sems
<1> QED BY <1>2, <1>3, <1>4, <1>5 DEF Inv

LEMMA TickStep ==
  ASSUME Inv, tick
  PROVE  Inv'
<1>1. /\ nucleus \in {"running", "wait"} /\ tod' = tod + 1
      /\ used' = IF nucleus = "running" THEN [used EXCEPT ![currentProcess] = used[currentProcess] + 1] ELSE used
      /\ UNCHANGED <<currentProcess, nucleus, cpu, bios, p_s, sup_exceptState, supportFreeList,
                     sems, p_time, p_startTOD>>
  BY DEF tick
<1>2. /\ \A p \in Proc : p_startTOD[p] <= tod /\ p_startTOD[p] \in Nat /\ tod \in Nat
      /\ \A p \in live : used[p] <= p_time[p] + Since(p)
      /\ p_time \in [Proc -> Nat] /\ used \in [Proc -> Nat] /\ live \subseteq Proc
  BY DEF Inv, TypeOK, Charged
<1>3. used' \in [Proc -> Nat]
  <2>1. CASE nucleus = "running"
    <3>1. currentProcess \in Proc /\ used[currentProcess] + 1 \in Nat
      BY <1>2, <2>1, Running
    <3> QED BY <1>1, <1>2, <2>1, <3>1
  <2>2. CASE nucleus # "running"
    BY <1>1, <1>2, <2>2
  <2> QED BY <2>1, <2>2
<1>4. TypeOK'
  <2>1. tod + 1 \in Nat
    BY DEF Inv, TypeOK
  <2> QED BY <1>1, <1>3, <2>1 DEF Inv, TypeOK, sems
<1>5. SavedWell' /\ RunsWell'
  <2>1. S!Free(currentProcess) => S!Free(currentProcess)'
    BY <1>1, SameFree
  <2> QED BY <1>1, <2>1, SameSaved DEF Inv, RunsWell
<1>6. ASSUME NEW p \in live PROVE used'[p] <= p_time[p] + Since(p)'
  <2>1. CASE p = currentProcess
    <3>1. nucleus = "running"
      BY <1>1, <2>1, <1>2, Basics DEF Inv, RunsWell
    <3>2. used'[p] = used[p] + 1 /\ Since(p) = tod - p_startTOD[p] /\ Since(p)' = (tod + 1) - p_startTOD[p]
      BY <1>1, <1>2, <2>1, <3>1 DEF Since
    <3> QED BY <1>2, <3>2
  <2>2. CASE p # currentProcess
    <3>1. used'[p] = used[p] /\ Since(p) = 0 /\ Since(p)' = 0
      BY <1>1, <1>2, <2>2 DEF Since
    <3> QED BY <1>2, <3>1
  <2> QED BY <2>1, <2>2
<1>7. Charged'
  BY <1>1, <1>2, <1>6 DEF Charged, sems
<1> QED BY <1>4, <1>5, <1>7 DEF Inv

-----------------------------------------------------------------------------
LEMMA Stuttering == Inv /\ UNCHANGED vars => Inv'
<1> SUFFICES ASSUME Inv, UNCHANGED vars PROVE Inv'
  OBVIOUS
<1>1. UNCHANGED <<currentProcess, nucleus, cpu, bios, p_s, sup_exceptState, supportFreeList>>
      /\ UNCHANGED sems /\ UNCHANGED clock
  BY DEF vars
<1>2. TypeOK'
  BY <1>1 DEF Inv, TypeOK, sems, clock
<1>3. SavedWell'
  BY <1>1, SameSaved
<1>4. RunsWell'
  <2>1. S!Free(currentProcess) => S!Free(currentProcess)'
    BY <1>1, SameFree
  <2> QED BY <1>1, <2>1 DEF Inv, RunsWell
<1>5. Charged'
  BY <1>1 DEF Inv, Charged, Since, sems, clock
<1> QED BY <1>2, <1>3, <1>4, <1>5 DEF Inv

\* The save areas, the running state and the accounts agree: each step of the
\* processor, of the exception handlers and of the scheduler keeps all of it.
THEOREM ExceptionsInvariant == Spec => []Inv
<1>1. Init => Inv
  BY Beginning
<1>2. Inv /\ [Next]_vars => Inv'
  <2> SUFFICES ASSUME Inv, [Next]_vars PROVE Inv'
    OBVIOUS
  <2>1. CASE processor
    BY <2>1, RaiseSteps, JumpSteps, ResumeStep, TickStep DEF processor
  <2>2. CASE exceptionHandler
    BY <2>2, PassUpSteps, CreateStep, TerminateStep, PasserenSteps, VerhogenStep, SupportPtrStep,
       PLTStep, InterruptSteps DEF exceptionHandler
  <2>3. CASE scheduler
    BY <2>3, SchedulerStep
  <2>4. CASE UNCHANGED vars
    BY <2>4, Stuttering
  <2> QED BY <2>1, <2>2, <2>3, <2>4 DEF Next
<1> QED BY <1>1, <1>2, PTL DEF Spec

\* The types of the states in the processor, the pcbs and the support structures:
\* no call is handled for a process that is none, no state saved in a support
\* structure that does not exist.
THEOREM ExceptionsTypes == Spec => []TypeOK
<1>1. Inv => TypeOK
  BY DEF Inv
<1> QED BY <1>1, ExceptionsInvariant, PTL

\* updateCPUTime never loses time: whatever calls, waits and preemptions there
\* were, SYS6 answers no less than the process has had of the processor.
THEOREM NoTimeLost == Spec => []NeverUndercharged
<1>1. Inv => NeverUndercharged
  BY DEF Inv, TypeOK, Charged, Since, NeverUndercharged, sysGetCPUTime
<1> QED BY <1>1, ExceptionsInvariant, PTL

-----------------------------------------------------------------------------
(***************************************************************************)
(* Exceptions implements Activations: wherever the state of a process is   *)
(* saved, it goes on from where its last exception promised, for any       *)
(* number of U-procs and any programs.  With it, that no save area is      *)
(* written once it is free, and that no stack is used twice.               *)
(***************************************************************************)
\* The instruction a state is at; the one that p goes on from; its save areas.
Where(s)   == [lvl |-> s.lvl, pc |-> s.pc]
Top(p)     == Where(Context(p))
General(p) == sup_exceptState[SupportOf(p)][GENERALEXCEPT]
Fault(p)   == sup_exceptState[SupportOf(p)][PGFAULTEXCEPT]

\* Stacks of one, two and three activations.
One(a)         == <<a>>
Two(a, b)      == <<a, b>>
Three(a, b, c) == <<a, b, c>>

\* A service that is under way has its SYSCALL saved under it, also when it faults.
Nests(p) ==
  /\ Top(p).lvl = "general" /\ Top(p).pc \in Serve .. Resume => IsService(General(p))
  /\ Top(p).lvl = "pager" => Fault(p).lvl # "pager"
  /\ Top(p).lvl = "pager" /\ Fault(p).lvl = "general" =>
       Fault(p).pc \in {CopyIn, CopyOut} /\ IsService(General(p))

Nested == \A p \in live \cap Uproc : Nests(p)

\* A support structure is free only when its U-proc is at its SYS2 or gone, and
\* test() will not create that one again.
AtExit == [lvl |-> "general", pc |-> Exit]

Freed ==
  /\ Test \in live
  /\ \A p \in live \cap Uproc : p <= Top(Test).pc
  /\ \A p \in Uproc : SupportOf(p) \in Range(supportFreeList) =>
       p <= Top(Test).pc /\ (p \in live => Top(p) = AtExit)

-----------------------------------------------------------------------------
\* Where the state of a process is, before a step and after it.
LEMMA TopOf ==
  ASSUME NEW p
  PROVE  /\ p # currentProcess \/ nucleus \in {"scheduler", "wait"} => Top(p) = Where(p_s[p])
         /\ p = currentProcess /\ nucleus = "running" => Top(p) = Where(cpu)
         /\ p = currentProcess /\ nucleus \in {"exception", "halted"} => Top(p) = Where(bios)
  BY DEF Top, Context

LEMMA TopNext ==
  ASSUME NEW p
  PROVE  /\ p # currentProcess' \/ nucleus' \in {"scheduler", "wait"} => Top(p)' = Where(p_s'[p])
         /\ p = currentProcess' /\ nucleus' = "running" => Top(p)' = Where(cpu')
         /\ p = currentProcess' /\ nucleus' \in {"exception", "halted"} => Top(p)' = Where(bios')
  BY DEF Top, Context, Where

LEMMA TopType ==
  ASSUME Inv, NEW p \in live
  PROVE  /\ p \in Proc /\ Top(p).lvl \in LevelsOf(p) /\ Top(p).lvl \in Level /\ Top(p).pc \in Nat
         /\ Top(p) = [lvl |-> Top(p).lvl, pc |-> Top(p).pc]
<1>1. p \in Proc /\ p # NULL
  BY Basics DEF Inv, TypeOK
<1>2. PICK s : s \in State /\ s.lvl \in LevelsOf(p) /\ Top(p) = Where(s)
  <2>1. CASE p # currentProcess \/ nucleus \in {"scheduler", "wait"}
    BY <1>1, <2>1, TopOf DEF Inv, SavedWell, Good
  <2>2. CASE p = currentProcess /\ nucleus = "running"
    BY <2>2, TopOf DEF Inv, RunsWell, Good
  <2>3. CASE p = currentProcess /\ nucleus \in {"exception", "halted"}
    BY <1>1, <2>3, TopOf DEF Inv, RunsWell, Good
  <2> QED BY <2>1, <2>2, <2>3 DEF Inv, TypeOK
<1> QED BY <1>1, <1>2 DEF Where, State

LEMMA FramesOf ==
  ASSUME NEW p
  PROVE  /\ p \notin live => Frames(p) = <<>>
         /\ p \in live /\ Top(p).lvl = "general" => Frames(p) = Two(Called(p), Top(p))
         /\ p \in live /\ Top(p).lvl = "pager" =>
              Frames(p) = IF Faulted(p).lvl = "general" THEN Three(Called(p), Faulted(p), Top(p))
                          ELSE Two(Faulted(p), Top(p))
         /\ p \in live /\ Top(p).lvl \notin {"general", "pager"} => Frames(p) = One(Top(p))
  BY DEF Frames, Top, Where, One, Two, Three

LEMMA FramesNext ==
  ASSUME NEW p
  PROVE  /\ p \notin live' => Frames(p)' = <<>>
         /\ p \in live' /\ Top(p)'.lvl = "general" => Frames(p)' = Two(Called(p)', Top(p)')
         /\ p \in live' /\ Top(p)'.lvl = "pager" =>
              Frames(p)' = IF Faulted(p)'.lvl = "general" THEN Three(Called(p)', Faulted(p)', Top(p)')
                           ELSE Two(Faulted(p)', Top(p)')
         /\ p \in live' /\ Top(p)'.lvl \notin {"general", "pager"} => Frames(p)' = One(Top(p)')
  BY DEF Frames, Top, Where, One, Two, Three

\* What the activation under a general handler, under a pager, is.
LEMMA Below ==
  ASSUME NEW p
  PROVE  /\ Called(p).lvl = General(p).lvl
         /\ Called(p).pc = IF ~IsService(General(p)) THEN Never
                           ELSE IF Top(p).lvl = "general" /\ Top(p).pc \in {GetSupport, Dispatch}
                                THEN General(p).pc + 1 ELSE General(p).pc
         /\ Called(p) = [lvl |-> Called(p).lvl, pc |-> Called(p).pc]
         /\ Faulted(p) = Where(Fault(p))
  BY DEF Called, Faulted, General, Fault, Top, Where

LEMMA BelowNext ==
  ASSUME NEW p
  PROVE  /\ Called(p)'.lvl = General(p)'.lvl
         /\ Called(p)'.pc = IF ~IsService(General(p)') THEN Never
                            ELSE IF Top(p)'.lvl = "general" /\ Top(p)'.pc \in {GetSupport, Dispatch}
                                 THEN General(p)'.pc + 1 ELSE General(p)'.pc
         /\ Called(p)' = [lvl |-> Called(p)'.lvl, pc |-> Called(p)'.pc]
         /\ Faulted(p)' = Where(Fault(p)')
  BY DEF Called, Faulted, General, Fault, Top, Where, IsService

LEMMA SameFrames ==
  ASSUME Inv, NEW q, q \in live <=> q \in live', q \in live => Top(q)' = Top(q),
         q \in Uproc => General(q)' = General(q) /\ Fault(q)' = Fault(q)
  PROVE  Frames(q)' = Frames(q)
<1>1. CASE q \notin live
  BY <1>1, FramesOf, FramesNext
<1>2. CASE q \in live /\ q \in Uproc
  <2>1. Called(q)' = Called(q) /\ Faulted(q)' = Faulted(q)
    BY <1>2, Below, BelowNext
  <2> QED BY <1>2, <2>1, FramesOf, FramesNext
<1>3. CASE q \in live /\ q \notin Uproc
  <2>1. Top(q).lvl \notin {"general", "pager"}
    BY <1>3, TopType, Basics DEF LevelsOf
  <2> QED BY <1>3, <2>1, FramesOf, FramesNext
<1> QED BY <1>1, <1>2, <1>3

\* The stacks that Activations sees: the frames of every process.
Stacks == [p \in Proc |-> Frames(p)]

LEMMA OneStack ==
  ASSUME NEW p \in Proc, \A q \in Proc \ {p} : Frames(q)' = Frames(q)
  PROVE  Stacks' = [Stacks EXCEPT ![p] = Frames(p)']
  BY DEF Stacks

LEMMA SameStacks ==
  ASSUME \A q \in Proc : Frames(q)' = Frames(q)
  PROVE  UNCHANGED Stacks
  BY DEF Stacks

-----------------------------------------------------------------------------
\* Where processes are after a step: p is elsewhere, the others are where they were.
Others(p) == \A q \in Proc \ {p} : Top(q)' = Top(q)

Still ==
  /\ UNCHANGED <<live, sup_exceptState, supportFreeList>>
  /\ \A q \in Proc : Top(q)' = Top(q)

LEMMA CurrentTop ==
  ASSUME Inv
  PROVE  /\ nucleus = "running" => Top(currentProcess) = Where(cpu) /\ currentProcess \in live
         /\ nucleus = "exception" /\ (bios.cause # "int" \/ currentProcess # NULL) =>
              Top(currentProcess) = Where(bios) /\ currentProcess \in live
  BY TopOf, Running, Handled

LEMMA JumpTop ==
  ASSUME Inv, nucleus = "running", NEW n, Jump(n), NEW p, p = currentProcess
  PROVE  /\ UNCHANGED live /\ Others(p)
         /\ Top(p) = Where(cpu) /\ Top(p)' = [lvl |-> cpu.lvl, pc |-> n]
<1>1. /\ cpu' = [cpu EXCEPT !.pc = n] /\ nucleus' = "running"
      /\ UNCHANGED <<currentProcess, p_s, live>>
  BY DEF Jump, sems
<1>2. Where(cpu') = [lvl |-> cpu.lvl, pc |-> n]
  BY <1>1 DEF Where, Inv, TypeOK, State
<1>3. Others(p)
  BY <1>1, TopOf, TopNext DEF Others
<1> QED BY <1>1, <1>2, <1>3, TopOf, TopNext

LEMMA LoadTop ==
  ASSUME NEW s \in State, LDST(s), UNCHANGED <<currentProcess, p_s>>, NEW p, p = currentProcess
  PROVE  Top(p)' = Where(s) /\ Others(p)
<1>1. nucleus' = "running" /\ Where(cpu') = Where(s)
  BY DEF LDST, Where, State
<1>2. Others(p)
  BY TopOf, TopNext DEF Others
<1> QED BY <1>1, <1>2, TopNext

\* Exceptions, preemption, interrupts and dispatch leave every process where it is.
LEMMA RaiseStill ==
  ASSUME Inv, nucleus \in {"running", "wait"}, NEW c, NEW n, Raise(c, n)
  PROVE  Still
<1>1. /\ bios' = [cpu EXCEPT !.cause = c, !.a0 = n] /\ nucleus' = "exception"
      /\ UNCHANGED <<currentProcess, p_s, sup_exceptState, supportFreeList, live>>
  BY DEF Raise, sems
<1>2. Where(bios') = Where(cpu)
  BY <1>1 DEF Where, Inv, TypeOK, State
<1>3. currentProcess # NULL => nucleus = "running"
  BY DEF Inv, RunsWell
<1>4. ASSUME NEW q \in Proc PROVE Top(q)' = Top(q)
  BY <1>1, <1>2, <1>3, TopOf, TopNext, Basics
<1> QED BY <1>1, <1>4 DEF Still

LEMMA DispatchStill ==
  ASSUME Inv, scheduler
  PROVE  Still
<1>1. /\ nucleus = "scheduler"
      /\ UNCHANGED <<p_s, sup_exceptState, supportFreeList, live>>
  BY DEF scheduler, sems
<1>2. CASE currentProcess' = NULL /\ nucleus' = "wait"
  <2>1. ASSUME NEW q \in Proc PROVE Top(q)' = Top(q)
    BY <1>1, <1>2, TopOf, TopNext
  <2> QED BY <1>1, <2>1 DEF Still
<1>3. ASSUME NEW p \in live, currentProcess' = p, LDST(p_s[p]) PROVE Still
  <2>1. nucleus' = "running" /\ Where(cpu') = Where(p_s[p])
    BY <1>3 DEF LDST, Where, Inv, TypeOK, State
  <2>2. ASSUME NEW q \in Proc PROVE Top(q)' = Top(q)
    BY <1>1, <1>3, <2>1, TopOf, TopNext
  <2> QED BY <1>1, <2>2 DEF Still
<1> QED BY <1>2, <1>3 DEF scheduler

LEMMA InterruptStill ==
  ASSUME Inv, handlePLTInterrupt \/ (Handling("int") /\ backToCurrent /\ UNCHANGED live)
  PROVE  Still
<1>1. /\ nucleus = "exception" /\ bios \in State
      /\ UNCHANGED <<currentProcess, sup_exceptState, supportFreeList, live>>
  BY DEF handlePLTInterrupt, Handling, backToCurrent, Inv, TypeOK, sems
<1>2. CASE handlePLTInterrupt
  <2>1. p_s' = [p_s EXCEPT ![currentProcess] = bios] /\ nucleus' = "scheduler" /\ currentProcess \in Proc
    BY <1>2, Handled DEF handlePLTInterrupt, Handling
  <2>2. p_s'[currentProcess] = bios /\ \A q \in Proc \ {currentProcess} : p_s'[q] = p_s[q]
    BY <2>1 DEF Inv, TypeOK
  <2>3. ASSUME NEW q \in Proc PROVE Top(q)' = Top(q)
    BY <1>1, <2>1, <2>2, TopOf, TopNext
  <2> QED BY <1>1, <2>3 DEF Still
<1>3. CASE currentProcess # NULL /\ LDST(bios) /\ UNCHANGED p_s
  <2>1. ASSUME NEW q \in Proc PROVE Top(q)' = Top(q)
    BY <1>1, <1>3, LoadTop, TopOf DEF Others
  <2> QED BY <1>1, <2>1 DEF Still
<1>4. CASE currentProcess = NULL /\ UNCHANGED p_s
  <2>1. ASSUME NEW q \in Proc PROVE Top(q)' = Top(q)
    BY <1>1, <1>4, TopOf, TopNext, Basics
  <2> QED BY <1>1, <2>1 DEF Still
<1> QED BY <1>2, <1>3, <1>4 DEF backToCurrent

LEMMA StillSteps ==
  ASSUME Inv, \/ userException \/ handlerCall \/ interrupt \/ tick \/ scheduler \/ UNCHANGED vars
              \/ copy /\ Raise("tlb", 0)
              \/ handlePLTInterrupt \/ handleIntervalTimerInterrupt
              \/ \E p \in Proc : handleDeviceInterrupt(p)
  PROVE  Still
<1>1. CASE userException \/ handlerCall \/ interrupt \/ (copy /\ Raise("tlb", 0))
  <2>1. nucleus \in {"running", "wait"} /\ \E c, n : Raise(c, n)
    BY <1>1 DEF userException, handlerCall, interrupt, copy, Runs
  <2> QED BY <2>1, RaiseStill
<1>2. CASE tick \/ UNCHANGED vars
  <2>1. UNCHANGED <<currentProcess, nucleus, cpu, bios, p_s, sup_exceptState, supportFreeList, live>>
    BY <1>2 DEF tick, vars, sems
  <2>2. \A q \in Proc : Top(q)' = Top(q)
    BY <2>1 DEF Top, Where, Context
  <2> QED BY <2>1, <2>2 DEF Still
<1>3. CASE scheduler
  BY <1>3, DispatchStill
<1>4. CASE handlePLTInterrupt \/ handleIntervalTimerInterrupt \/ \E p \in Proc : handleDeviceInterrupt(p)
  <2>1. handlePLTInterrupt \/ (Handling("int") /\ backToCurrent /\ UNCHANGED live)
    BY <1>4 DEF handleIntervalTimerInterrupt, handleDeviceInterrupt, S!V
  <2> QED BY <2>1, InterruptStill
<1> QED BY <1>1, <1>2, <1>3, <1>4

\* A call of the nucleus that does not end its process leaves it at the next
\* instruction, whether it waits or not.
LEMMA CallTop ==
  ASSUME Inv, \/ sysPasseren \/ sysVerhogen \/ sysWaitIO \/ sysWaitClock \/ sysGetSupportPTR
              \/ sysTerminate /\ currentProcess = Test,
         NEW p, p = currentProcess
  PROVE  /\ p \in live /\ Top(p) = Where(bios) /\ Others(p)
         /\ Top(p)' = [lvl |-> bios.lvl, pc |-> bios.pc + 1]
         /\ bios.lvl # "user" /\ bios.a0 \in SyscallAt(bios.lvl, bios.pc)
         /\ UNCHANGED <<currentProcess, sup_exceptState, supportFreeList>>
<1>1. /\ nucleus = "exception" /\ bios.cause = "sys" /\ bios.lvl # "user"
      /\ UNCHANGED <<currentProcess, sup_exceptState, supportFreeList>>
  BY DEF sysPasseren, sysVerhogen, sysWaitIO, sysWaitClock, sysGetSupportPTR, sysTerminate,
         syscall, Handling, passeren, block
<1>2. /\ currentProcess \in live /\ currentProcess \in Proc /\ Top(p) = Where(bios)
      /\ bios.a0 \in SyscallAt(bios.lvl, bios.pc) /\ bios \in State
      /\ saved \in State /\ Where(saved) = [lvl |-> bios.lvl, pc |-> bios.pc + 1]
  BY <1>1, CurrentTop, SavedState, Handled DEF Where
<1>3. CASE UNCHANGED p_s /\ \E s \in State : LDST(s) /\ Where(s) = Where(saved)
  BY <1>1, <1>2, <1>3, LoadTop
<1>4. CASE p_s' = [p_s EXCEPT ![currentProcess] = saved] /\ nucleus' = "scheduler"
  <2>1. p_s'[currentProcess] = saved /\ \A q \in Proc \ {currentProcess} : p_s'[q] = p_s[q]
    BY <1>2, <1>4 DEF Inv, TypeOK
  <2>2. Others(p)
    BY <1>1, <2>1, TopOf, TopNext DEF Others
  <2> QED BY <1>1, <1>2, <1>4, <2>1, <2>2, TopNext
<1>5. CASE sysPasseren \/ sysVerhogen \/ sysWaitIO \/ sysWaitClock
  BY <1>2, <1>3, <1>4, <1>5 DEF sysPasseren, sysVerhogen, sysWaitIO, sysWaitClock, block
<1>6. CASE sysGetSupportPTR
  <2> DEFINE s == [saved EXCEPT !.sup = SupportOf(currentProcess)]
  <2>1. s \in State /\ Where(s) = Where(saved)
    <3>1. s \in State
      BY <1>2, Basics, StateChange
    <3> QED BY <1>2, <3>1 DEF Where, State
  <2>2. LDST(s) /\ UNCHANGED p_s
    BY <1>6 DEF sysGetSupportPTR
  <2> QED BY <1>3, <2>1, <2>2
<1>7. CASE sysTerminate /\ currentProcess = Test
  <2>1. nucleus' = "halted" /\ bios' = saved /\ UNCHANGED p_s
    BY <1>7 DEF sysTerminate
  <2>2. Others(p)
    BY <1>1, <2>1, TopOf, TopNext DEF Others
  <2> QED BY <1>1, <1>2, <2>1, <2>2, TopNext
<1> QED BY <1>5, <1>6, <1>7
-----------------------------------------------------------------------------
\* Stacks of at most three activations.
LEMMA Tuples ==
  ASSUME NEW a, NEW b, NEW c
  PROVE  /\ A!Front(One(a)) = <<>> /\ A!Last(One(a)) = a
         /\ A!Front(Two(a, b)) = One(a) /\ A!Last(Two(a, b)) = b
         /\ A!Front(Three(a, b, c)) = Two(a, b) /\ A!Last(Three(a, b, c)) = c
         /\ Len(One(a)) = 1 /\ Len(Two(a, b)) = 2 /\ Len(Three(a, b, c)) = 3
         /\ One(a) # <<>> /\ Two(a, b) # <<>> /\ Three(a, b, c) # <<>>
<1> DEFINE T == {a, b, c}
<1>1. /\ <<a>> \in Seq(T) /\ <<a, b>> \in Seq(T) /\ <<a, b, c>> \in Seq(T)
      /\ Len(<<a>>) = 1 /\ Len(<<a, b>>) = 2 /\ Len(<<a, b, c>>) = 3
  OBVIOUS
<1>2. A!Last(<<a>>) = a /\ A!Last(<<a, b>>) = b /\ A!Last(<<a, b, c>>) = c
  BY <1>1 DEF A!Last
<1>3. SubSeq(<<a>>, 1, 0) = <<>>
  BY SubSeqEmpty
<1>4. SubSeq(<<a, b>>, 1, 1) = <<a>>
  <2> DEFINE u == <<a, b>>
             t == SubSeq(u, 1, 1)
  <2>1. u \in Seq(T) /\ Len(u) = 2 /\ u[1] = a
    OBVIOUS
  <2> HIDE DEF T
  <2>2. \A i \in 1 .. 1 : u[i] \in T
    BY <2>1, ElementOfSeq
  <2> HIDE DEF u
  <2>3. t \in Seq(T) /\ Len(t) = 1 /\ \A i \in 1 .. 1 : t[i] = u[1 + i - 1]
    BY <2>2, SubSeqProperties
  <2>4. t[1] = a
    BY <2>1, <2>3
  <2> HIDE DEF t
  <2>5. t = <<a>>
    BY <2>3, <2>4, <1>1, SeqEqual
  <2> QED BY <2>5 DEF t, u
<1>5. SubSeq(<<a, b, c>>, 1, 2) = <<a, b>>
  <2> DEFINE u == <<a, b, c>>
             t == SubSeq(u, 1, 2)
  <2>1. u \in Seq(T) /\ Len(u) = 3 /\ u[1] = a /\ u[2] = b
    OBVIOUS
  <2> HIDE DEF T
  <2>2. \A i \in 1 .. 2 : u[i] \in T
    BY <2>1, ElementOfSeq
  <2> HIDE DEF u
  <2>3. t \in Seq(T) /\ Len(t) = 2 /\ \A i \in 1 .. 2 : t[i] = u[1 + i - 1]
    BY <2>2, SubSeqProperties
  <2>4. t[1] = a /\ t[2] = b
    BY <2>1, <2>3
  <2> HIDE DEF t
  <2>5. t = <<a, b>>
    BY <2>3, <2>4, <1>1, SeqEqual
  <2> QED BY <2>5 DEF t, u
<1>6. A!Front(<<a>>) = <<>> /\ A!Front(<<a, b>>) = <<a>> /\ A!Front(<<a, b, c>>) = <<a, b>>
  BY <1>1, <1>3, <1>4, <1>5 DEF A!Front
<1>7. <<a>> # <<>> /\ <<a, b>> # <<>> /\ <<a, b, c>> # <<>>
  OBVIOUS
<1> QED BY <1>1, <1>2, <1>6, <1>7 DEF One, Two, Three

LEMMA Appends ==
  ASSUME NEW a, NEW b, NEW c
  PROVE  /\ Append(<<>>, a) = One(a)
         /\ Append(One(a), b) = Two(a, b)
         /\ Append(Two(a, b), c) = Three(a, b, c)
<1> DEFINE T == {a, b, c}
<1>1. /\ <<>> \in Seq(T) /\ <<a>> \in Seq(T) /\ <<a, b>> \in Seq(T) /\ <<a, b, c>> \in Seq(T)
      /\ Len(<<a>>) = 1 /\ Len(<<a, b>>) = 2 /\ Len(<<a, b, c>>) = 3
      /\ a \in T /\ b \in T /\ c \in T
  OBVIOUS
<1>2. ASSUME NEW s \in Seq(T), NEW x \in T
      PROVE  /\ Append(s, x) \in Seq(T) /\ Len(Append(s, x)) = Len(s) + 1
             /\ \A i \in 1 .. Len(s) : Append(s, x)[i] = s[i]
             /\ Append(s, x)[Len(s) + 1] = x
  BY AppendProperties
<1> HIDE DEF T
<1>3. Append(<<>>, a) = <<a>>
  BY <1>1, <1>2, SeqEqual
<1>4. Append(<<a>>, b) = <<a, b>>
  <2> DEFINE u == <<a>>
             t == Append(u, b)
  <2>1. u \in Seq(T) /\ Len(u) = 1 /\ u[1] = a /\ b \in T
    BY <1>1
  <2> HIDE DEF u
  <2> HIDE DEF t
  <2>2. /\ t \in Seq(T) /\ Len(t) = Len(u) + 1 /\ (\A i \in 1 .. Len(u) : t[i] = u[i])
        /\ t[Len(u) + 1] = b
    BY <2>1, <1>2 DEF t
  <2>3. t \in Seq(T) /\ Len(t) = 2 /\ t[1] = a /\ t[2] = b
    BY <2>1, <2>2
  <2>4. t = <<a, b>>
    BY <2>3, <1>1, SeqEqual
  <2> QED BY <2>4 DEF t, u
<1>5. Append(<<a, b>>, c) = <<a, b, c>>
  <2> DEFINE u == <<a, b>>
             t == Append(u, c)
  <2>1. u \in Seq(T) /\ Len(u) = 2 /\ u[1] = a /\ u[2] = b /\ c \in T
    BY <1>1
  <2> HIDE DEF u
  <2> HIDE DEF t
  <2>2. /\ t \in Seq(T) /\ Len(t) = Len(u) + 1 /\ (\A i \in 1 .. Len(u) : t[i] = u[i])
        /\ t[Len(u) + 1] = c
    BY <2>1, <1>2 DEF t
  <2>3. t \in Seq(T) /\ Len(t) = 3 /\ t[1] = a /\ t[2] = b /\ t[3] = c
    BY <2>1, <2>2
  <2>4. t = <<a, b, c>>
    BY <2>3, <1>1, SeqEqual
  <2> QED BY <2>4 DEF t, u
<1> QED BY <1>3, <1>4, <1>5 DEF One, Two, Three

LEMMA Concats ==
  ASSUME NEW a, NEW b, NEW c
  PROVE  <<>> \o Two(b, c) = Two(b, c) /\ One(a) \o Two(b, c) = Three(a, b, c)
<1> DEFINE T == {a, b, c}
<1>1. /\ <<>> \in Seq(T) /\ <<a>> \in Seq(T) /\ <<b, c>> \in Seq(T) /\ <<a, b, c>> \in Seq(T)
      /\ Len(<<a>>) = 1 /\ Len(<<b, c>>) = 2 /\ Len(<<a, b, c>>) = 3
  OBVIOUS
<1> HIDE DEF T
<1>2. <<>> \o <<b, c>> = <<b, c>>
  BY <1>1, ConcatEmptySeq
<1>3. <<a>> \o <<b, c>> = <<a, b, c>>
  <2> DEFINE u == <<a>>
             v == <<b, c>>
             t == u \o v
  <2>1. u \in Seq(T) /\ v \in Seq(T) /\ Len(u) = 1 /\ Len(v) = 2 /\ u[1] = a /\ v[1] = b /\ v[2] = c
    BY <1>1
  <2> HIDE DEF u, v
  <2>2. /\ t \in Seq(T) /\ Len(t) = Len(u) + Len(v)
        /\ \A i \in 1 .. Len(u) + Len(v) : t[i] = IF i <= Len(u) THEN u[i] ELSE v[i - Len(u)]
    BY <2>1, ConcatProperties
  <2> HIDE DEF t
  <2>3. t \in Seq(T) /\ Len(t) = 3 /\ t[1] = a /\ t[2] = b /\ t[3] = c
    BY <2>1, <2>2
  <2>4. t = <<a, b, c>>
    BY <2>3, <1>1, SeqEqual
  <2> QED BY <2>4 DEF t, u, v
<1> QED BY <1>2, <1>3 DEF One, Two, Three

LEMMA Replaced ==
  /\ \A a, z : Append(A!Front(One(a)), z) = One(z)
  /\ \A a, b, z : Append(A!Front(Two(a, b)), z) = Two(a, z)
  /\ \A a, b, c, z : Append(A!Front(Three(a, b, c)), z) = Three(a, b, z)
<1>1. ASSUME NEW a, NEW z PROVE Append(A!Front(One(a)), z) = One(z)
  <2>1. A!Front(One(a)) = <<>>
    BY Tuples, Zenon
  <2>2. Append(<<>>, z) = One(z)
    BY Appends, Zenon
  <2> QED BY <2>1, <2>2
<1>2. ASSUME NEW a, NEW b, NEW z PROVE Append(A!Front(Two(a, b)), z) = Two(a, z)
  <2>1. A!Front(Two(a, b)) = One(a)
    BY Tuples, Zenon
  <2>2. Append(One(a), z) = Two(a, z)
    BY Appends, Zenon
  <2> QED BY <2>1, <2>2
<1>3. ASSUME NEW a, NEW b, NEW c, NEW z PROVE Append(A!Front(Three(a, b, c)), z) = Three(a, b, z)
  <2>1. A!Front(Three(a, b, c)) = Two(a, b)
    BY Tuples, Zenon
  <2>2. Append(Two(a, b), z) = Three(a, b, z)
    BY Appends, Zenon
  <2> QED BY <2>1, <2>2
<1> QED BY <1>1, <1>2, <1>3

-----------------------------------------------------------------------------
\* The last activation is the one that runs.
LEMMA TopIsLast ==
  ASSUME Inv, NEW p \in live
  PROVE  A!Last(Frames(p)) = Top(p) /\ Frames(p) # <<>>
<1>1. PICK a, b : Frames(p) \in {One(Top(p)), Two(a, Top(p)), Three(a, b, Top(p))}
  BY FramesOf
<1> QED BY <1>1, Tuples

\* It runs on, and what is below it stays.
LEMMA TopReplaced ==
  ASSUME Inv, NEW p \in live, p \in live', Top(p)'.lvl = Top(p).lvl,
         Top(p).lvl \in {"general", "pager"} => Called(p)' = Called(p) /\ Faulted(p)' = Faulted(p)
  PROVE  Frames(p)' = Append(A!Front(Frames(p)), Top(p)')
<1>1. CASE Top(p).lvl = "general"
  <2>1. Frames(p) = Two(Called(p), Top(p)) /\ Frames(p)' = Two(Called(p), Top(p)')
    BY <1>1, FramesOf, FramesNext
  <2> QED BY <2>1, Replaced
<1>2. CASE Top(p).lvl = "pager" /\ Faulted(p).lvl = "general"
  <2>1. /\ Frames(p) = Three(Called(p), Faulted(p), Top(p))
        /\ Frames(p)' = Three(Called(p), Faulted(p), Top(p)')
    BY <1>2, FramesOf, FramesNext
  <2> QED BY <2>1, Replaced
<1>3. CASE Top(p).lvl = "pager" /\ Faulted(p).lvl # "general"
  <2>1. Frames(p) = Two(Faulted(p), Top(p)) /\ Frames(p)' = Two(Faulted(p), Top(p)')
    BY <1>3, FramesOf, FramesNext
  <2> QED BY <2>1, Replaced
<1>4. CASE Top(p).lvl \notin {"general", "pager"}
  <2>1. Frames(p) = One(Top(p)) /\ Frames(p)' = One(Top(p)')
    BY <1>4, FramesOf, FramesNext
  <2> QED BY <2>1, Replaced
<1> QED BY <1>1, <1>2, <1>3, <1>4

Addresses == 0 .. 2 * UPROCMAX + 12

LEMMA SteppedIs ==
  ASSUME Inv, NEW p \in live, p \in live', NEW n, Top(p)' = [lvl |-> Top(p).lvl, pc |-> n],
         n \in IF Top(p).lvl = "user" THEN {Top(p).pc + 1} ELSE Addresses,
         Top(p).lvl \in {"general", "pager"} => Called(p)' = Called(p) /\ Faulted(p)' = Faulted(p)
  PROVE  Frames(p)' \in A!Stepped(p) /\ Stacks[p] # <<>>
<1>1. Stacks[p] = Frames(p) /\ Frames(p) # <<>> /\ A!Last(Frames(p)) = Top(p)
  BY TopType, TopIsLast DEF Stacks
<1>2. Frames(p)' = Append(A!Front(Frames(p)), [lvl |-> Top(p).lvl, pc |-> n])
  BY TopReplaced
<1>3. A!Stepped(p) = {Append(A!Front(Stacks[p]), [lvl |-> A!Last(Stacks[p]).lvl, pc |-> pc]) :
                        pc \in IF A!Last(Stacks[p]).lvl = "user" THEN {A!Last(Stacks[p]).pc + 1} ELSE Addresses}
  BY DEF A!Stepped, Stacks, Addresses
<1> QED BY <1>1, <1>2, <1>3

LEMMA StepIs ==
  ASSUME Inv, NEW p \in Proc, Frames(p)' \in A!Stepped(p), Stacks[p] # <<>>,
         \A q \in Proc \ {p} : Frames(q)' = Frames(q)
  PROVE  A!Next
<1>1. Stacks' = [Stacks EXCEPT ![p] = Frames(p)']
  BY OneStack
<1>2. A!Step(p)
  BY <1>1 DEF A!Step, Stacks
<1> QED BY <1>2 DEF A!Next

LEMMA CallIs ==
  ASSUME NEW p \in Proc, Frames(p) # <<>>, NEW l \in {"general", "pager"},
         NEW pc \in A!Resumptions(A!Last(Frames(p))),
         \A i \in DOMAIN Frames(p) : Frames(p)[i].lvl # l,
         Frames(p)' = A!Front(Frames(p)) \o Two([lvl |-> A!Last(Frames(p)).lvl, pc |-> pc],
                                                [lvl |-> l, pc |-> 0]),
         \A q \in Proc \ {p} : Frames(q)' = Frames(q)
  PROVE  A!Next
<1>1. Stacks' = [Stacks EXCEPT ![p] = Frames(p)'] /\ Stacks[p] = Frames(p)
  BY OneStack DEF Stacks
<1>2. Stacks' = [Stacks EXCEPT ![p] =
                   A!Front(Stacks[p]) \o <<[lvl |-> A!Last(Stacks[p]).lvl, pc |-> pc], [lvl |-> l, pc |-> 0]>>]
  BY <1>1 DEF Two
<1>3. pc \in A!Resumptions(A!Last(Stacks[p])) /\ \A i \in DOMAIN Stacks[p] : Stacks[p][i].lvl # l
  BY <1>1
<1>4. \E m \in {"general", "pager"}, r \in A!Resumptions(A!Last(Stacks[p])) :
        /\ \A i \in DOMAIN Stacks[p] : Stacks[p][i].lvl # m
        /\ Stacks' = [Stacks EXCEPT ![p] =
             A!Front(Stacks[p]) \o <<[lvl |-> A!Last(Stacks[p]).lvl, pc |-> r], [lvl |-> m, pc |-> 0]>>]
  BY <1>2, <1>3
<1>5. A!Call(p)
  BY <1>1, <1>4 DEF A!Call, Stacks
<1> QED BY <1>5 DEF A!Next

LEMMA ReturnIs ==
  ASSUME NEW p \in Proc, Len(Frames(p)) > 1, A!Last(A!Front(Frames(p))).pc # Never,
         Frames(p)' = A!Front(Frames(p)), \A q \in Proc \ {p} : Frames(q)' = Frames(q)
  PROVE  A!Next
<1>1. Stacks' = [Stacks EXCEPT ![p] = Frames(p)'] /\ Stacks[p] = Frames(p)
  BY OneStack DEF Stacks
<1>2. A!Return(p)
  BY <1>1 DEF A!Return, Stacks
<1> QED BY <1>2 DEF A!Next

LEMMA EndIs ==
  ASSUME NEW p \in Proc, Frames(p) # <<>>, Frames(p)' = <<>>, \A q \in Proc \ {p} : Frames(q)' = Frames(q)
  PROVE  A!Next
<1>1. Stacks' = [Stacks EXCEPT ![p] = Frames(p)'] /\ Stacks[p] = Frames(p)
  BY OneStack DEF Stacks
<1>2. A!End(p)
  BY <1>1 DEF A!End, Stacks
<1> QED BY <1>2 DEF A!Next

LEMMA SpawnIs ==
  ASSUME NEW p \in Proc, NEW q \in Uproc, p # q, Frames(p)' \in A!Stepped(p), Stacks[p] # <<>>,
         Frames(q) = <<>>, Frames(q)' = One([lvl |-> "user", pc |-> 0]),
         \A r \in Proc \ {p, q} : Frames(r)' = Frames(r)
  PROVE  A!Next
<1>1. q \in Proc /\ ProgramOf(q) = "user" /\ Stacks[q] = <<>>
  BY Basics DEF ProgramOf, Stacks
<1>2. Stacks' = [Stacks EXCEPT ![p] = Frames(p)', ![q] = <<[lvl |-> ProgramOf(q), pc |-> 0]>>]
  BY <1>1 DEF Stacks, One
<1>3. A!Spawn(p, q)
  BY <1>1, <1>2 DEF A!Spawn, Stacks
<1> QED BY <1>1, <1>3 DEF A!Next

-----------------------------------------------------------------------------
\* Each step of Exceptions is a step of Activations, or none.
LEMMA AreasSame ==
  ASSUME UNCHANGED sup_exceptState, NEW q
  PROVE  General(q)' = General(q) /\ Fault(q)' = Fault(q)
  BY DEF General, Fault

LEMMA StillIs ==
  ASSUME Inv, Still
  PROVE  UNCHANGED Stacks
<1>1. ASSUME NEW q \in Proc PROVE Frames(q)' = Frames(q)
  BY AreasSame, SameFrames DEF Still
<1> QED BY <1>1, SameStacks

\* Before its dispatch a call is still to be moved past.
Undispatched(p) == Top(p).lvl = "general" /\ Top(p).pc \in {GetSupport, Dispatch}

LEMMA BelowSame ==
  ASSUME NEW p, General(p)' = General(p), Fault(p)' = Fault(p), Undispatched(p)' <=> Undispatched(p)
  PROVE  Called(p)' = Called(p) /\ Faulted(p)' = Faulted(p)
  BY Below, BelowNext DEF Undispatched

LEMMA OthersSame ==
  ASSUME Inv, NEW p, Others(p), UNCHANGED <<live, sup_exceptState>>
  PROVE  \A q \in Proc \ {p} : Frames(q)' = Frames(q)
  BY AreasSame, SameFrames DEF Others

LEMMA AdvanceIs ==
  ASSUME Inv, NEW p \in live, Others(p), UNCHANGED <<live, sup_exceptState>>,
         NEW n, Top(p)' = [lvl |-> Top(p).lvl, pc |-> n],
         n \in IF Top(p).lvl = "user" THEN {Top(p).pc + 1} ELSE Addresses,
         Top(p).lvl = "general" => (n \in {GetSupport, Dispatch} <=> Top(p).pc \in {GetSupport, Dispatch})
  PROVE  A!Next
<1>1. Undispatched(p)' <=> Undispatched(p)
  BY DEF Undispatched
<1>2. Frames(p)' \in A!Stepped(p) /\ Stacks[p] # <<>>
  BY <1>1, AreasSame, BelowSame, SteppedIs
<1> QED BY <1>2, TopType, OthersSame, StepIs

\* Where the nucleus is called, and where the call returns to.
LEMMA CallSites ==
  ASSUME NEW l \in Level, NEW pc \in Nat, NEW n \in SyscallAt(l, pc)
  PROVE  /\ pc + 1 \in Addresses
         /\ l = "general" => (pc + 1 \in {GetSupport, Dispatch} <=> pc \in {GetSupport, Dispatch})
  BY ExceptionsAssumption DEF SyscallAt, Level, Addresses, GetSupport, Dispatch, Serve, Trapped, Terminate,
         Exit, Wait, Acquire, WriteOut, ReadIn, Release, Created, Awaited

LEMMA CallImplements ==
  ASSUME Inv, \/ sysPasseren \/ sysVerhogen \/ sysWaitIO \/ sysWaitClock \/ sysGetSupportPTR
              \/ sysTerminate /\ currentProcess = Test
  PROVE  A!Next
<1>0. PICK p : p = currentProcess
  OBVIOUS
<1>1. /\ p \in live /\ Top(p) = Where(bios) /\ Others(p)
      /\ Top(p)' = [lvl |-> bios.lvl, pc |-> bios.pc + 1]
      /\ bios.lvl # "user" /\ bios.a0 \in SyscallAt(bios.lvl, bios.pc) /\ UNCHANGED sup_exceptState
  BY <1>0, CallTop
<1>2. UNCHANGED live
  BY DEF sysPasseren, sysVerhogen, sysWaitIO, sysWaitClock, sysGetSupportPTR, sysTerminate, block, passeren,
         S!P, S!V, sems
<1>3. Top(p).lvl = bios.lvl /\ Top(p).pc = bios.pc /\ bios.lvl \in Level /\ bios.pc \in Nat
  BY <1>1, TopType DEF Where
<1>4. /\ bios.pc + 1 \in Addresses
      /\ bios.lvl = "general" => (bios.pc + 1 \in {GetSupport, Dispatch} <=> bios.pc \in {GetSupport, Dispatch})
  BY <1>1, <1>3, CallSites
<1>5. /\ p \in live /\ Others(p) /\ UNCHANGED <<live, sup_exceptState>>
      /\ Top(p)' = [lvl |-> Top(p).lvl, pc |-> bios.pc + 1]
      /\ bios.pc + 1 \in IF Top(p).lvl = "user" THEN {Top(p).pc + 1} ELSE Addresses
      /\ Top(p).lvl = "general" =>
           (bios.pc + 1 \in {GetSupport, Dispatch} <=> Top(p).pc \in {GetSupport, Dispatch})
  BY <1>1, <1>2, <1>3, <1>4
<1> QED BY <1>5, AdvanceIs

LEMMA JumpImplements ==
  ASSUME Inv, userStep \/ skip \/ freeSupportStruct \/ (copy /\ Jump(cpu.pc + 1))
  PROVE  A!Next
<1>0. PICK p : p = currentProcess
  OBVIOUS
<1>1. nucleus = "running" /\ UNCHANGED sup_exceptState
  BY DEF userStep, skip, freeSupportStruct, copy, Runs, Raise, Jump
<1>2. /\ p \in live /\ Top(p) = Where(cpu)
      /\ cpu.lvl \in Level /\ cpu.pc \in Nat /\ Top(p).lvl = cpu.lvl /\ Top(p).pc = cpu.pc
  BY <1>0, <1>1, CurrentTop, Running DEF Where
<1>3. PICK n : /\ Jump(n) /\ (n \in IF cpu.lvl = "user" THEN {cpu.pc + 1} ELSE Addresses)
               /\ cpu.lvl = "general" => n \notin {GetSupport, Dispatch} /\ cpu.pc \notin {GetSupport, Dispatch}
  <2>1. {0, ReadIn, Exit, CopyIn + 1, CopyOut + 1} \subseteq Addresses
    BY ExceptionsAssumption DEF Addresses, ReadIn, Exit, CopyIn, CopyOut
  <2>2. CASE userStep
    BY <2>2 DEF userStep
  <2>3. CASE skip
    BY <2>1, <2>3 DEF skip, Runs
  <2>4. CASE freeSupportStruct
    BY <2>1, <2>4 DEF freeSupportStruct, Runs, FreeSup, Exit, GetSupport, Dispatch
  <2>5. CASE copy /\ Jump(cpu.pc + 1)
    BY <2>1, <2>5 DEF copy, Runs, CopyIn, CopyOut, GetSupport, Dispatch
  <2> QED BY <2>2, <2>3, <2>4, <2>5
<1>4. UNCHANGED live /\ Others(p) /\ Top(p)' = [lvl |-> Top(p).lvl, pc |-> n]
  BY <1>0, <1>1, <1>2, <1>3, JumpTop
<1>5. /\ UNCHANGED <<live, sup_exceptState>>
      /\ n \in IF Top(p).lvl = "user" THEN {Top(p).pc + 1} ELSE Addresses
      /\ Top(p).lvl = "general" => (n \in {GetSupport, Dispatch} <=> Top(p).pc \in {GetSupport, Dispatch})
  BY <1>1, <1>2, <1>3, <1>4
<1> QED BY <1>2, <1>4, <1>5, AdvanceIs

\* A save area of p is written: nobody else's.
LEMMA AreaWritten ==
  ASSUME Inv, NEW p \in Uproc, NEW x \in {PGFAULTEXCEPT, GENERALEXCEPT}, NEW s,
         sup_exceptState' = [sup_exceptState EXCEPT ![SupportOf(p)][x] = s]
  PROVE  /\ x = GENERALEXCEPT => General(p)' = s /\ Fault(p)' = Fault(p)
         /\ x = PGFAULTEXCEPT => Fault(p)' = s /\ General(p)' = General(p)
         /\ \A t \in Support \ {SupportOf(p)} : sup_exceptState'[t] = sup_exceptState[t]
         /\ \A q \in Uproc \ {p} : General(q)' = General(q) /\ Fault(q)' = Fault(q)
<1> DEFINE k == SupportOf(p)
<1>1. k \in Support /\ sup_exceptState \in [Support -> [{PGFAULTEXCEPT, GENERALEXCEPT} -> State]]
      /\ PGFAULTEXCEPT # GENERALEXCEPT
  BY Basics DEF Inv, TypeOK, PGFAULTEXCEPT, GENERALEXCEPT
<1>2. sup_exceptState'[k][x] = s
      /\ \A y \in {PGFAULTEXCEPT, GENERALEXCEPT} : y # x => sup_exceptState'[k][y] = sup_exceptState[k][y]
  BY <1>1
<1>3. \A t \in Support \ {k} : sup_exceptState'[t] = sup_exceptState[t]
  BY <1>1
<1>4. \A q \in Uproc \ {p} : sup_exceptState'[SupportOf(q)] = sup_exceptState[SupportOf(q)]
  BY <1>3, Basics
<1> QED BY <1>1, <1>2, <1>3, <1>4 DEF General, Fault

LEMMA OthersKept ==
  ASSUME Inv, NEW p, Others(p), UNCHANGED live,
         \A q \in Uproc \ {p} : General(q)' = General(q) /\ Fault(q)' = Fault(q)
  PROVE  \A q \in Proc \ {p} : Frames(q)' = Frames(q)
  BY SameFrames DEF Others

\* An exception of a U-proc, or of its general handler, is passed up.
LEMMA PassUpTop ==
  ASSUME Inv, NEW x \in {PGFAULTEXCEPT, GENERALEXCEPT}, NEW s, passUpOrDie(x, s),
         NEW p, p = currentProcess, p \in Uproc
  PROVE  /\ UNCHANGED <<live, supportFreeList>> /\ Others(p)
         /\ sup_exceptState' = [sup_exceptState EXCEPT ![SupportOf(p)][x] = s]
         /\ Top(p)' = [lvl |-> IF x = PGFAULTEXCEPT THEN "pager" ELSE "general", pc |-> 0]
<1> DEFINE l == IF x = PGFAULTEXCEPT THEN "pager" ELSE "general"
<1>1. /\ cpu' = Start(l) /\ nucleus' = "running"
      /\ UNCHANGED <<currentProcess, p_s, live, supportFreeList>>
      /\ sup_exceptState' = [sup_exceptState EXCEPT ![SupportOf(p)][x] = s]
  BY DEF passUpOrDie, LDCXT, sems
<1>2. Where(Start(l)) = [lvl |-> l, pc |-> 0]
  BY DEF Where, Start
<1>3. Others(p)
  BY <1>1, TopOf, TopNext DEF Others
<1> QED BY <1>1, <1>2, <1>3, TopNext

LEMMA Elements ==
  ASSUME NEW a, NEW b
  PROVE  /\ \A i \in DOMAIN One(a) : One(a)[i] = a
         /\ \A i \in DOMAIN Two(a, b) : Two(a, b)[i] \in {a, b}
  BY DEF One, Two

LEMMA PassGeneral ==
  ASSUME Inv, NEW p \in live, p = currentProcess, p \in Uproc, Top(p) = Where(bios), bios.lvl = "user",
         NEW s \in State, s.lvl = "user", s.cause = "sys" /\ s.a0 \in Service => s.pc = bios.pc,
         passUpOrDie(GENERALEXCEPT, s)
  PROVE  A!Next
<1>1. /\ UNCHANGED live /\ Others(p) /\ Top(p)' = [lvl |-> "general", pc |-> 0]
      /\ General(p)' = s /\ \A q \in Uproc \ {p} : General(q)' = General(q) /\ Fault(q)' = Fault(q)
  BY PassUpTop, AreaWritten DEF PGFAULTEXCEPT, GENERALEXCEPT
<1>2. Top(p).lvl = "user" /\ Top(p).pc = bios.pc /\ Top(p)'.lvl = "general" /\ Top(p)'.pc = GetSupport
  BY <1>1 DEF Where, GetSupport
<1>3. PICK r : r \in A!Resumptions(Top(p)) /\ Called(p)' = [lvl |-> "user", pc |-> r]
  <2> DEFINE r == IF ~IsService(s) THEN Never ELSE s.pc + 1
  <2>1. Called(p)' = [lvl |-> "user", pc |-> r]
    BY <1>1, <1>2, BelowNext
  <2>2. r \in A!Resumptions(Top(p))
    BY <1>2 DEF A!Resumptions, IsService
  <2> QED BY <2>1, <2>2
<1>4. Frames(p) = One(Top(p)) /\ Frames(p)' = Two(Called(p)', Top(p)')
  BY <1>1, <1>2, FramesOf, FramesNext
<1>5. A!Front(Frames(p)) = <<>> /\ A!Last(Frames(p)) = Top(p) /\ Frames(p) # <<>>
  BY <1>4, Tuples
<1>6. Frames(p)' = A!Front(Frames(p)) \o Two([lvl |-> A!Last(Frames(p)).lvl, pc |-> r],
                                              [lvl |-> "general", pc |-> 0])
  BY <1>1, <1>2, <1>3, <1>4, <1>5, Concats
<1>7. \A i \in DOMAIN Frames(p) : Frames(p)[i].lvl # "general"
  BY <1>2, <1>4, Elements
<1>8. p \in Proc /\ \A q \in Proc \ {p} : Frames(q)' = Frames(q)
  BY <1>1, TopType, OthersKept
<1> QED BY <1>3, <1>5, <1>6, <1>7, <1>8, CallIs

LEMMA PassPager ==
  ASSUME Inv, Nested, NEW p \in live, p = currentProcess, p \in Uproc, Top(p) = Where(bios), bios \in State,
         bios.lvl = "user" \/ (bios.lvl = "general" /\ bios.pc \in {CopyIn, CopyOut}),
         passUpOrDie(PGFAULTEXCEPT, bios)
  PROVE  A!Next
<1>1. /\ UNCHANGED live /\ Others(p) /\ Top(p)' = [lvl |-> "pager", pc |-> 0]
      /\ Fault(p)' = bios /\ General(p)' = General(p)
      /\ \A q \in Uproc \ {p} : General(q)' = General(q) /\ Fault(q)' = Fault(q)
  BY PassUpTop, AreaWritten DEF PGFAULTEXCEPT, GENERALEXCEPT
<1>2. /\ Top(p).lvl = bios.lvl /\ Top(p).pc = bios.pc /\ Top(p)'.lvl = "pager"
      /\ Faulted(p)' = Top(p)
  BY <1>1, BelowNext DEF Where
<1>3. Top(p).pc \in A!Resumptions(Top(p)) /\ Top(p) = [lvl |-> Top(p).lvl, pc |-> Top(p).pc]
  BY TopType DEF A!Resumptions
<1>4. p \in Proc /\ \A q \in Proc \ {p} : Frames(q)' = Frames(q)
  BY <1>1, TopType, OthersKept
<1>5. /\ A!Last(Frames(p)) = Top(p) /\ Frames(p) # <<>>
      /\ Frames(p)' = A!Front(Frames(p)) \o Two(Top(p), Top(p)')
      /\ \A i \in DOMAIN Frames(p) : Frames(p)[i].lvl # "pager"
  <2>1. CASE bios.lvl = "user"
    <3>1. Frames(p) = One(Top(p)) /\ Frames(p)' = Two(Top(p), Top(p)')
      BY <1>1, <1>2, <2>1, FramesOf, FramesNext
    <3>2. A!Front(Frames(p)) = <<>> /\ A!Last(Frames(p)) = Top(p) /\ Frames(p) # <<>>
      BY <3>1, Tuples
    <3>3. \A i \in DOMAIN Frames(p) : Frames(p)[i] = Top(p)
      BY <3>1, Elements
    <3>4. <<>> \o Two(Top(p), Top(p)') = Two(Top(p), Top(p)')
      BY Concats, Zenon
    <3> QED BY <1>2, <2>1, <3>1, <3>2, <3>3, <3>4
  <2>2. CASE bios.lvl = "general"
    <3>1. Called(p)' = Called(p)
      <4>1. ~Undispatched(p) /\ ~Undispatched(p)'
        BY <1>2, <2>2 DEF Undispatched, CopyIn, CopyOut, GetSupport, Dispatch
      <4>2. /\ Called(p)'.pc = Called(p).pc /\ Called(p)'.lvl = Called(p).lvl
            /\ Called(p)' = [lvl |-> Called(p)'.lvl, pc |-> Called(p)'.pc]
            /\ Called(p) = [lvl |-> Called(p).lvl, pc |-> Called(p).pc]
        BY <1>1, <4>1, Below, BelowNext DEF Undispatched
      <4> QED BY <4>2
    <3>2. Frames(p) = Two(Called(p), Top(p)) /\ Frames(p)' = Three(Called(p), Top(p), Top(p)')
      BY <1>1, <1>2, <2>2, <3>1, FramesOf, FramesNext
    <3>3. Called(p).lvl = "user"
      BY Below DEF Inv, SavedWell, General
    <3>4. A!Front(Frames(p)) = One(Called(p)) /\ A!Last(Frames(p)) = Top(p) /\ Frames(p) # <<>>
      BY <3>2, Tuples
    <3>5. \A i \in DOMAIN Frames(p) : Frames(p)[i] \in {Called(p), Top(p)}
      BY <3>2, Elements
    <3>6. \A i \in DOMAIN Frames(p) : Frames(p)[i].lvl # "pager"
      BY <1>2, <2>2, <3>3, <3>5
    <3>7. Three(Called(p), Top(p), Top(p)') = A!Front(Frames(p)) \o Two(Top(p), Top(p)')
      BY <3>4, Concats
    <3> QED BY <3>2, <3>4, <3>6, <3>7
  <2> QED BY <2>1, <2>2
<1>6. Frames(p)' = A!Front(Frames(p)) \o Two([lvl |-> A!Last(Frames(p)).lvl, pc |-> Top(p).pc],
                                              [lvl |-> "pager", pc |-> 0])
  BY <1>1, <1>3, <1>5
<1>7. Top(p).pc \in A!Resumptions(A!Last(Frames(p)))
  BY <1>3, <1>5
<1> QED BY <1>4, <1>5, <1>6, <1>7, CallIs

LEMMA PassUpImplements ==
  ASSUME Inv, Nested, TLBExceptionHandler \/ programTrapHandler \/ supportCall \/ userModeCall
  PROVE  A!Next
<1>0. PICK p : p = currentProcess
  OBVIOUS
<1>1. /\ nucleus = "exception" /\ bios.cause # "int"
      /\ p \in live /\ p \in Proc /\ Good(p, bios) /\ bios \in State /\ Top(p) = Where(bios)
  BY <1>0, Handled, CurrentTop
    DEF TLBExceptionHandler, programTrapHandler, supportCall, userModeCall, Handling
<1>2. CASE TLBExceptionHandler
  <2>1. bios.lvl = "user" \/ (bios.lvl = "general" /\ bios.pc \in {CopyIn, CopyOut})
    BY <1>1, <1>2 DEF TLBExceptionHandler, Handling, Inv, RunsWell
  <2>2. p \in Uproc /\ passUpOrDie(PGFAULTEXCEPT, bios)
    BY <1>1, <1>2, <2>1, OwnLevel DEF TLBExceptionHandler
  <2> QED BY <1>0, <1>1, <2>1, <2>2, PassPager
<1>3. CASE programTrapHandler \/ supportCall
  <2>1. bios.lvl = "user"
    BY <1>1, <1>3, SavedState DEF programTrapHandler, supportCall, Handling, Inv, RunsWell
  <2>2. p \in Uproc /\ passUpOrDie(GENERALEXCEPT, bios)
    BY <1>1, <1>3, <2>1, OwnLevel DEF programTrapHandler, supportCall
  <2> QED BY <1>0, <1>1, <2>1, <2>2, PassGeneral
<1>4. CASE userModeCall
  <2>1. /\ bios.lvl = "user" /\ saved \in State /\ saved.lvl = "user"
        /\ saved.a0 = bios.a0 /\ bios.a0 \notin Service
    BY <1>1, <1>4, SavedState DEF userModeCall, Handling, saved, State, Service
  <2>2. p \in Uproc /\ passUpOrDie(GENERALEXCEPT, saved)
    BY <1>1, <1>4, <2>1, OwnLevel DEF userModeCall
  <2>3. saved.cause = "sys" /\ saved.a0 \in Service => saved.pc = bios.pc
    BY <2>1
  <2> QED BY <1>0, <1>1, <2>1, <2>2, <2>3, PassGeneral
<1> QED BY <1>2, <1>3, <1>4

\* What dispatch knows and leaves.
LEMMA DispatchTop ==
  ASSUME Inv, dispatch, NEW p, p = currentProcess
  PROVE  /\ p \in live /\ p \in Uproc /\ UNCHANGED <<live, supportFreeList>> /\ Others(p)
         /\ Top(p) = [lvl |-> "general", pc |-> Dispatch] /\ General(p) \in State
         /\ \/ /\ General(p).cause = "trap" /\ UNCHANGED sup_exceptState
               /\ Top(p)' = [lvl |-> "general", pc |-> Trapped]
            \/ /\ General(p).cause = "sys"
               /\ sup_exceptState' = [sup_exceptState EXCEPT ![SupportOf(p)][GENERALEXCEPT] =
                                        [General(p) EXCEPT !.pc = @ + 1]]
               /\ \E n \in {Resume, Serve, Terminate} :
                    /\ Top(p)' = [lvl |-> "general", pc |-> n]
                    /\ n \in {Resume, Serve} => IsService(General(p))
<1>1. nucleus = "running" /\ cpu.lvl = "general" /\ cpu.pc = Dispatch
  BY DEF dispatch, Runs
<1>2. p \in Uproc /\ cpu.sup = SupportOf(p) /\ SupportOf(p) \in Support /\ p \in live
  BY <1>1, OwnSupport, Running DEF GetSupport, Dispatch
<1>3. General(p) \in State
  BY <1>2 DEF General, Inv, SavedWell, Good
<1>4. \A n : Jump(n) => /\ UNCHANGED live /\ Others(p) /\ Top(p) = [lvl |-> "general", pc |-> Dispatch]
                        /\ Top(p)' = [lvl |-> "general", pc |-> n]
  BY <1>1, JumpTop DEF Where
<1>5. CASE /\ General(p).cause = "trap" /\ Jump(Trapped) /\ UNCHANGED <<sup_exceptState, supportFreeList>>
  BY <1>2, <1>3, <1>4, <1>5
<1>6. CASE /\ General(p).cause = "sys" /\ UNCHANGED supportFreeList
           /\ sup_exceptState' = [sup_exceptState EXCEPT ![SupportOf(p)][GENERALEXCEPT].pc = @ + 1]
           /\ Jump(IF General(p).a0 = GETTOD THEN Resume ELSE IF General(p).a0 \in Service THEN Serve ELSE Terminate)
  <2>1. sup_exceptState' = [sup_exceptState EXCEPT ![SupportOf(p)][GENERALEXCEPT] =
                              [General(p) EXCEPT !.pc = @ + 1]]
    BY <1>6 DEF General
  <2>2. PICK n \in {Resume, Serve, Terminate} : Jump(n) /\ (n \in {Resume, Serve} => IsService(General(p)))
    BY <1>6 DEF IsService, Service, GETTOD, Resume, Serve, Terminate
  <2> QED BY <1>2, <1>3, <1>4, <1>6, <2>1, <2>2
<1> QED BY <1>2, <1>5, <1>6 DEF dispatch, General

LEMMA DispatchImplements ==
  ASSUME Inv, dispatch
  PROVE  A!Next
<1>0. PICK p : p = currentProcess
  OBVIOUS
<1>1. /\ p \in live /\ p \in Uproc /\ p \in Proc /\ UNCHANGED live /\ Others(p)
      /\ Top(p).lvl = "general" /\ Top(p).pc = Dispatch /\ General(p) \in State
  BY <1>0, DispatchTop, Basics
<1>2. PICK n \in {Trapped, Resume, Serve, Terminate} : Top(p)' = [lvl |-> Top(p).lvl, pc |-> n]
  BY <1>0, <1>1, DispatchTop
<1>3. n \in Addresses /\ Undispatched(p) /\ ~Undispatched(p)'
  BY <1>1, <1>2, ExceptionsAssumption
    DEF Undispatched, Addresses, Trapped, Resume, Serve, Terminate, GetSupport, Dispatch
<1>4. /\ Called(p)' = Called(p) /\ Faulted(p)' = Faulted(p)
      /\ \A q \in Uproc \ {p} : General(q)' = General(q) /\ Fault(q)' = Fault(q)
  <2>1. CASE General(p).cause = "trap" /\ UNCHANGED sup_exceptState
    <3>1. ~IsService(General(p)) /\ General(p)' = General(p) /\ Fault(p)' = Fault(p)
      BY <2>1, AreasSame DEF IsService
    <3>2. Called(p)'.pc = Called(p).pc /\ Called(p)'.lvl = Called(p).lvl /\ Faulted(p)' = Faulted(p)
      BY <3>1, Below, BelowNext
    <3> QED BY <2>1, <3>2, AreasSame, Below, BelowNext
  <2>2. CASE sup_exceptState' = [sup_exceptState EXCEPT ![SupportOf(p)][GENERALEXCEPT] =
                                   [General(p) EXCEPT !.pc = @ + 1]]
    <3>1. /\ General(p)' = [General(p) EXCEPT !.pc = @ + 1] /\ Fault(p)' = Fault(p)
          /\ \A q \in Uproc \ {p} : General(q)' = General(q) /\ Fault(q)' = Fault(q)
      BY <1>1, <2>2, AreaWritten DEF GENERALEXCEPT
    <3>2. /\ General(p)'.pc = General(p).pc + 1 /\ General(p)'.lvl = General(p).lvl
          /\ IsService(General(p)') <=> IsService(General(p))
      BY <1>1, <3>1 DEF State, IsService
    <3>3. Called(p)'.pc = Called(p).pc /\ Called(p)'.lvl = Called(p).lvl /\ Faulted(p)' = Faulted(p)
      BY <1>3, <3>1, <3>2, Below, BelowNext DEF Undispatched
    <3> QED BY <3>1, <3>3, Below, BelowNext
  <2> QED BY <1>0, <2>1, <2>2, DispatchTop
<1>5. n \in IF Top(p).lvl = "user" THEN {Top(p).pc + 1} ELSE Addresses
  BY <1>1, <1>3
<1>6. p \in live'
  BY <1>1
<1>7. Frames(p)' \in A!Stepped(p) /\ Stacks[p] # <<>>
  BY <1>1, <1>2, <1>4, <1>5, <1>6, SteppedIs
<1> QED BY <1>1, <1>4, <1>7, OthersKept, StepIs

\* A handler's last instruction loads the state that it was entered with.
LEMMA ResumeTop ==
  ASSUME Inv, resume, NEW p, p = currentProcess
  PROVE  /\ p \in live /\ p \in Uproc /\ UNCHANGED <<live, sup_exceptState, supportFreeList>> /\ Others(p)
         /\ \/ Top(p) = [lvl |-> "general", pc |-> Resume] /\ Top(p)' = Where(General(p))
            \/ Top(p) = [lvl |-> "pager", pc |-> Retry] /\ Top(p)' = Where(Fault(p))
<1>1. /\ nucleus = "running" /\ cpu.lvl \in {"general", "pager"} /\ currentProcess' = currentProcess
      /\ UNCHANGED <<live, p_s, sup_exceptState, supportFreeList>>
  BY DEF resume, Runs, sems
<1>2. p \in live /\ p \in Uproc /\ Top(p) = Where(cpu)
  BY <1>1, Running, CurrentTop, OwnLevel
<1>3. General(p) \in State /\ Fault(p) \in State
  BY <1>2 DEF General, Fault, Inv, SavedWell, Good
<1>4. CASE Runs("general", Resume) /\ LDST(sup_exceptState[cpu.sup][GENERALEXCEPT])
  <2>1. cpu.sup = SupportOf(p)
    BY <1>1, <1>4, OwnSupport DEF Runs, Resume, GetSupport
  <2>2. LDST(General(p)) /\ Top(p) = [lvl |-> "general", pc |-> Resume]
    BY <1>2, <1>4, <2>1 DEF General, Where, Runs
  <2> QED BY <1>1, <1>2, <1>3, <2>2, LoadTop
<1>5. CASE Runs("pager", Retry) /\ LDST(sup_exceptState[SupportOf(currentProcess)][PGFAULTEXCEPT])
  <2>1. LDST(Fault(p)) /\ Top(p) = [lvl |-> "pager", pc |-> Retry]
    BY <1>2, <1>5 DEF Fault, Where, Runs
  <2> QED BY <1>1, <1>2, <1>3, <2>1, LoadTop
<1> QED BY <1>4, <1>5 DEF resume

LEMMA ResumeImplements ==
  ASSUME Inv, Nested, resume
  PROVE  A!Next
<1>0. PICK p : p = currentProcess
  OBVIOUS
<1>1. /\ p \in live /\ p \in Uproc /\ p \in Proc /\ UNCHANGED <<live, sup_exceptState>> /\ Others(p)
      /\ General(p)' = General(p) /\ Fault(p)' = Fault(p)
  BY <1>0, ResumeTop, AreasSame, Basics
<1>2. \A q \in Proc \ {p} : Frames(q)' = Frames(q)
  BY <1>1, OthersSame
<1>3. /\ General(p) \in State /\ General(p).lvl = "user" /\ Fault(p) \in State
      /\ Fault(p).lvl \in {"user", "general", "pager"}
      /\ General(p).pc \in Nat /\ Fault(p).pc \in Nat
  BY <1>1, Basics DEF General, Fault, Inv, SavedWell, Good, LevelsOf, State
<1>4. /\ Len(Frames(p)) > 1 /\ A!Last(A!Front(Frames(p))).pc # Never /\ Frames(p)' = A!Front(Frames(p))
  <2>1. CASE Top(p) = [lvl |-> "general", pc |-> Resume] /\ Top(p)' = Where(General(p))
    <3>1. IsService(General(p))
      BY <1>1, <2>1 DEF Nested, Nests, Serve, Resume
    <3>2. Called(p) = Where(General(p)) /\ Called(p).pc # Never
      <4>1. Called(p).pc = General(p).pc /\ Called(p).lvl = "user"
            /\ Called(p) = [lvl |-> Called(p).lvl, pc |-> Called(p).pc]
        BY <1>3, <2>1, <3>1, Below DEF Resume, GetSupport, Dispatch
      <4> QED BY <1>3, <4>1 DEF Where, Never
    <3>3. Frames(p) = Two(Called(p), Top(p)) /\ Frames(p)' = One(Called(p))
      BY <1>1, <1>3, <2>1, <3>2, FramesOf, FramesNext DEF Where
    <3> QED BY <3>2, <3>3, Tuples
  <2>2. CASE Top(p) = [lvl |-> "pager", pc |-> Retry] /\ Top(p)' = Where(Fault(p))
    <3>1. Faulted(p) = Top(p)' /\ Faulted(p).lvl = Fault(p).lvl /\ Faulted(p).pc = Fault(p).pc
      BY <2>2, Below DEF Where
    <3>2. Faulted(p).pc # Never
      BY <1>3, <3>1 DEF Never
    <3>3. Fault(p).lvl # "pager"
      BY <1>1, <2>2 DEF Nested, Nests
    <3>4. CASE Fault(p).lvl = "user"
      <4>1. Frames(p) = Two(Faulted(p), Top(p)) /\ Frames(p)' = One(Faulted(p))
        BY <1>1, <2>2, <3>1, <3>4, FramesOf, FramesNext
      <4> QED BY <3>2, <4>1, Tuples
    <3>5. CASE Fault(p).lvl = "general"
      <4>1. IsService(General(p)) /\ Fault(p).pc \in {CopyIn, CopyOut}
        BY <1>1, <2>2, <3>5 DEF Nested, Nests
      <4>2. ~Undispatched(p) /\ ~Undispatched(p)'
        BY <2>2, <3>1, <4>1 DEF Undispatched, CopyIn, CopyOut, GetSupport, Dispatch
      <4>3. Called(p)' = Called(p)
        BY <1>1, <4>2, BelowSame
      <4>4. Frames(p) = Three(Called(p), Faulted(p), Top(p)) /\ Frames(p)' = Two(Called(p), Faulted(p))
        BY <1>1, <2>2, <3>1, <3>5, <4>3, FramesOf, FramesNext
      <4> QED BY <3>2, <4>4, Tuples
    <3> QED BY <1>3, <3>3, <3>4, <3>5
  <2> QED BY <1>0, <2>1, <2>2, ResumeTop
<1> QED BY <1>1, <1>2, <1>4, ReturnIs

\* SYS1 of test(): the U-proc that it creates was none.
LEMMA CreateTop ==
  ASSUME Inv, sysCreateProcess, NEW p, p = currentProcess, NEW n, n = bios.pc + 1
  PROVE  /\ p = Test /\ p \in live /\ Top(p) = [lvl |-> "test", pc |-> bios.pc] /\ bios.pc < Created
         /\ bios.pc \in Nat /\ n \in Uproc /\ n \notin live /\ live' = live \cup {n}
         /\ Top(p)' = [lvl |-> "test", pc |-> n] /\ Top(n)' = [lvl |-> "user", pc |-> 0]
         /\ \A q \in Proc \ {p, n} : Top(q)' = Top(q)
         /\ UNCHANGED <<sup_exceptState, supportFreeList>>
<1>1. /\ nucleus = "exception" /\ bios.cause = "sys" /\ bios.lvl # "user" /\ bios.a0 = 1
      /\ LDST(saved) /\ UNCHANGED <<currentProcess, sup_exceptState, supportFreeList>>
      /\ live' = live \cup {saved.pc} /\ saved.pc \notin live /\ p_s' = [p_s EXCEPT ![saved.pc] = Start("user")]
  BY DEF sysCreateProcess, syscall, Handling, S!Join
<1>2. /\ p \in live /\ p \in Proc /\ Good(p, bios) /\ Top(p) = Where(bios) /\ bios \in State
      /\ bios.lvl \in Level /\ bios.pc \in Nat /\ bios.a0 \in SyscallAt(bios.lvl, bios.pc)
      /\ saved \in State /\ saved.lvl = bios.lvl /\ saved.pc = n
  BY <1>1, Handled, CurrentTop, SavedState
<1>3. bios.lvl = "test" /\ n \in Uproc /\ bios.pc < Created
  <2>1. 1 \in SyscallAt(bios.lvl, bios.pc)
    BY <1>1, <1>2
  <2>2. bios.lvl = "test" /\ bios.pc + 1 \in Uproc
    BY <1>2, <2>1, Calls
  <2> QED BY <1>2, <2>2, ExceptionsAssumption DEF Uproc, Created
<1>4. p = Test
  BY <1>2, <1>3, Basics DEF Good, LevelsOf
<1>5. nucleus' = "running" /\ Where(cpu') = [lvl |-> "test", pc |-> n]
  BY <1>1, <1>2, <1>3 DEF LDST, Where, State
<1>6. p_s'[n] = Start("user") /\ \A q \in Proc \ {n} : p_s'[q] = p_s[q]
  BY <1>1, <1>2, <1>3, Basics DEF Inv, TypeOK
<1>7. Top(n)' = [lvl |-> "user", pc |-> 0]
  BY <1>1, <1>3, <1>4, <1>6, TopNext, Basics DEF Start, Where
<1>8. \A q \in Proc \ {p, n} : Top(q)' = Top(q)
  BY <1>1, <1>6, TopOf, TopNext
<1>9. Top(p)' = [lvl |-> "test", pc |-> n]
  BY <1>1, <1>5, TopNext
<1>10. Top(p) = [lvl |-> "test", pc |-> bios.pc]
  BY <1>2, <1>3 DEF Where
<1> QED BY <1>1, <1>2, <1>3, <1>4, <1>7, <1>8, <1>9, <1>10

LEMMA CreateImplements ==
  ASSUME Inv, sysCreateProcess
  PROVE  A!Next
<1>0. PICK p, n : p = currentProcess /\ n = bios.pc + 1
  OBVIOUS
<1>1. /\ p = Test /\ p \in live /\ p \in Proc /\ Top(p) = [lvl |-> "test", pc |-> bios.pc] /\ bios.pc < Created
      /\ bios.pc \in Nat /\ n \in Uproc /\ n \in Proc /\ p # n /\ n \notin live /\ live' = live \cup {n}
      /\ Top(p)' = [lvl |-> "test", pc |-> n] /\ Top(n)' = [lvl |-> "user", pc |-> 0]
      /\ \A q \in Proc \ {p, n} : Top(q)' = Top(q)
      /\ UNCHANGED sup_exceptState
  BY <1>0, CreateTop, Basics
<1>2. Top(p).lvl = "test" /\ Top(p)' = [lvl |-> Top(p).lvl, pc |-> n] /\ n \in Addresses
  BY <1>0, <1>1, ExceptionsAssumption DEF Addresses, Created
<1>3. Frames(p)' \in A!Stepped(p) /\ Stacks[p] # <<>>
  <2>1. n \in IF Top(p).lvl = "user" THEN {Top(p).pc + 1} ELSE Addresses
    BY <1>2
  <2>2. p \in live' /\ ~(Top(p).lvl \in {"general", "pager"})
    BY <1>1, <1>2
  <2> QED BY <1>1, <1>2, <2>1, <2>2, SteppedIs
<1>4. Frames(n) = <<>> /\ Frames(n)' = One([lvl |-> "user", pc |-> 0])
  <2>1. n \in live' /\ Top(n)'.lvl \notin {"general", "pager"}
    BY <1>1
  <2> QED BY <1>1, <2>1, FramesOf, FramesNext
<1>5. ASSUME NEW r \in Proc \ {p, n} PROVE Frames(r)' = Frames(r)
  BY <1>1, <1>5, AreasSame, SameFrames
<1> QED BY <1>1, <1>3, <1>4, <1>5, SpawnIs

\* SYS2 of a U-proc ends it; the others, and their areas, stay.
LEMMA EndTop ==
  ASSUME Inv, sysTerminate, NEW p, p = currentProcess, p # Test
  PROVE  /\ p \in live /\ p \in Proc /\ live' = live \ {p} /\ Others(p)
         /\ Top(p) = [lvl |-> "general", pc |-> Exit]
         /\ UNCHANGED <<sup_exceptState, supportFreeList>>
<1>1. /\ nucleus = "exception" /\ bios.cause = "sys" /\ bios.lvl # "user" /\ bios.a0 = 2
      /\ nucleus' = "scheduler" /\ live' = live \ {p}
      /\ UNCHANGED <<currentProcess, p_s, sup_exceptState, supportFreeList>>
  BY DEF sysTerminate, syscall, Handling, S!Leave
<1>2. /\ p \in live /\ p \in Proc /\ Good(p, bios) /\ Top(p) = Where(bios) /\ bios.lvl \in Level
      /\ bios.pc \in Nat /\ 2 \in SyscallAt(bios.lvl, bios.pc)
  BY <1>1, Handled, CurrentTop, SavedState
<1>3. bios.lvl # "test"
  BY <1>2, Basics DEF Good, LevelsOf
<1>4. bios.lvl = "general" /\ bios.pc = Exit
  BY <1>2, <1>3 DEF SyscallAt
<1>5. Others(p)
  BY <1>1, TopOf, TopNext DEF Others
<1> QED BY <1>1, <1>2, <1>4, <1>5 DEF Where

LEMMA EndImplements ==
  ASSUME Inv, sysTerminate, currentProcess # Test
  PROVE  A!Next
<1>0. PICK p : p = currentProcess
  OBVIOUS
<1>1. /\ p \in live /\ p \in Proc /\ live' = live \ {p} /\ Others(p) /\ UNCHANGED sup_exceptState
  BY <1>0, EndTop
<1>2. Frames(p) # <<>> /\ Frames(p)' = <<>>
  BY <1>1, TopIsLast, FramesNext
<1>3. ASSUME NEW q \in Proc \ {p} PROVE Frames(q)' = Frames(q)
  BY <1>1, <1>3, AreasSame, SameFrames DEF Others
<1> QED BY <1>1, <1>2, <1>3, EndIs

\* Together: what Inv and Nested need is that they hold before the step.
LEMMA StepImplements ==
  ASSUME Inv, Nested, [Next]_vars
  PROVE  [A!Next]_Stacks
<1>1. CASE dispatch
  BY <1>1, DispatchImplements
<1>2. CASE resume
  BY <1>2, ResumeImplements
<1>3. CASE userStep \/ skip \/ freeSupportStruct \/ (copy /\ Jump(cpu.pc + 1))
  BY <1>3, JumpImplements
<1>4. CASE TLBExceptionHandler \/ programTrapHandler \/ supportCall \/ userModeCall
  BY <1>4, PassUpImplements
<1>5. CASE \/ sysPasseren \/ sysVerhogen \/ sysWaitIO \/ sysWaitClock \/ sysGetSupportPTR
           \/ sysTerminate /\ currentProcess = Test
  BY <1>5, CallImplements
<1>6. CASE sysCreateProcess \/ (sysTerminate /\ currentProcess # Test)
  BY <1>6, CreateImplements, EndImplements
<1>7. CASE \/ userException \/ handlerCall \/ interrupt \/ tick \/ scheduler \/ UNCHANGED vars
           \/ copy /\ Raise("tlb", 0)
           \/ handlePLTInterrupt \/ handleIntervalTimerInterrupt
           \/ \E p \in Proc : handleDeviceInterrupt(p)
  BY <1>7, StillSteps, StillIs
<1>8. copy => Jump(cpu.pc + 1) \/ Raise("tlb", 0)
  BY DEF copy
<1> QED BY <1>1, <1>2, <1>3, <1>4, <1>5, <1>6, <1>7, <1>8 DEF Next, processor, exceptionHandler

-----------------------------------------------------------------------------
\* Nested and Freed are kept by each step.
LEMMA NestsSame ==
  ASSUME NEW q, Nests(q), Top(q)' = Top(q), General(q)' = General(q), Fault(q)' = Fault(q)
  PROVE  Nests(q)'
  BY DEF Nests, IsService

LEMMA NestedKept ==
  ASSUME Inv, Nested, NEW p \in Proc, Others(p), live' \subseteq live,
         \A q \in Uproc \ {p} : General(q)' = General(q) /\ Fault(q)' = Fault(q),
         p \in live' \cap Uproc => Nests(p)'
  PROVE  Nested'
<1>1. ASSUME NEW q \in live' \cap Uproc, q # p PROVE Nests(q)'
  <2>1. Nests(q) /\ Top(q)' = Top(q) /\ General(q)' = General(q) /\ Fault(q)' = Fault(q)
    BY <1>1, Basics DEF Nested, Others
  <2> QED BY <2>1, NestsSame
<1>2. \A q \in live' \cap Uproc : Nests(q)'
  BY <1>1
<1> QED BY <1>2 DEF Nested, Uproc

LEMMA FreedKept ==
  ASSUME Inv, Freed, NEW p \in Proc, Others(p), live' \subseteq live, Test \in live', UNCHANGED supportFreeList,
         p = Test => Top(p)'.pc \in Nat /\ Top(p)'.pc >= Top(p).pc, p \in live' => Top(p) # AtExit
  PROVE  Freed'
<1>1. Top(Test).pc \in Nat /\ Test \in Proc
  BY TopType, Basics DEF Freed
<1>2. Top(Test)'.pc \in Nat /\ Top(Test)'.pc >= Top(Test).pc
  <2>1. CASE p = Test
    BY <2>1
  <2>2. CASE p # Test
    BY <1>1, <2>2 DEF Others
  <2> QED BY <2>1, <2>2
<1>3. ASSUME NEW q \in live' \cap Uproc PROVE q <= Top(Test)'.pc
  <2>1. q \in Nat /\ q <= Top(Test).pc
    BY <1>3, Basics DEF Freed
  <2> QED BY <1>1, <1>2, <2>1
<1>4. ASSUME NEW q \in Uproc, SupportOf(q) \in Range(supportFreeList)'
      PROVE  q <= Top(Test)'.pc /\ (q \in live' => Top(q)' = AtExit)
  <2>1. q \in Nat /\ q \in Proc /\ q <= Top(Test).pc /\ (q \in live => Top(q) = AtExit)
    BY <1>4, Basics DEF Freed
  <2>2. q <= Top(Test)'.pc
    BY <1>1, <1>2, <2>1
  <2>3. q \in live' => q # p /\ Top(q)' = Top(q)
    BY <2>1 DEF Others
  <2> QED BY <2>1, <2>2, <2>3
<1>5. /\ Test \in live'
      /\ \A q \in live' \cap Uproc : q <= Top(Test)'.pc
      /\ \A q \in Uproc : SupportOf(q) \in Range(supportFreeList)' =>
           q <= Top(Test)'.pc /\ (q \in live' => Top(q)' = AtExit)
  BY <1>3, <1>4
<1> QED BY <1>5 DEF Freed, Uproc, SupportOf, AtExit

LEMMA AdvanceKeeps ==
  ASSUME Inv, Nested, NEW p \in live, Others(p), UNCHANGED <<live, sup_exceptState>>,
         NEW n, Top(p)' = [lvl |-> Top(p).lvl, pc |-> n],
         Top(p).lvl = "general" => (n \in Serve .. Resume => Top(p).pc \in Serve .. Resume)
  PROVE  Nested'
<1>1. p \in Proc /\ \A q \in Proc : General(q)' = General(q) /\ Fault(q)' = Fault(q)
  BY TopType, AreasSame
<1>2. p \in Uproc => Nests(p)'
  BY <1>1 DEF Nested, Nests, IsService
<1> QED BY <1>1, <1>2, NestedKept, Basics

LEMMA StillKeeps ==
  ASSUME Inv, Nested, Freed, Still
  PROVE  Nested' /\ Freed'
<1>1. /\ UNCHANGED <<live, supportFreeList>> /\ \A q \in Proc : Top(q)' = Top(q)
      /\ \A q \in Proc : General(q)' = General(q) /\ Fault(q)' = Fault(q)
  BY AreasSame DEF Still
<1>2. \A q \in live' \cap Uproc : Nests(q)'
  BY <1>1, NestsSame, Basics DEF Nested
<1>3. /\ Test \in live'
      /\ \A q \in live' \cap Uproc : q <= Top(Test)'.pc
      /\ \A q \in Uproc : SupportOf(q) \in Range(supportFreeList)' =>
           q <= Top(Test)'.pc /\ (q \in live' => Top(q)' = AtExit)
  BY <1>1, Basics DEF Freed
<1> QED BY <1>2, <1>3 DEF Nested, Freed, Uproc, SupportOf, AtExit

LEMMA CallKeeps ==
  ASSUME Inv, Nested, Freed,
         \/ sysPasseren \/ sysVerhogen \/ sysWaitIO \/ sysWaitClock \/ sysGetSupportPTR
         \/ sysTerminate /\ currentProcess = Test
  PROVE  Nested' /\ Freed'
<1>0. PICK p : p = currentProcess
  OBVIOUS
<1>1. /\ p \in live /\ Top(p) = Where(bios) /\ Others(p)
      /\ Top(p)' = [lvl |-> bios.lvl, pc |-> bios.pc + 1]
      /\ bios.a0 \in SyscallAt(bios.lvl, bios.pc) /\ UNCHANGED <<sup_exceptState, supportFreeList>>
  BY <1>0, CallTop
<1>2. UNCHANGED live
  BY DEF sysPasseren, sysVerhogen, sysWaitIO, sysWaitClock, sysGetSupportPTR, sysTerminate, block, passeren,
         S!P, S!V, sems
<1>3. /\ Top(p).lvl = bios.lvl /\ Top(p).pc = bios.pc /\ bios.lvl \in Level /\ bios.pc \in Nat
      /\ p \in Proc /\ bios.lvl \in LevelsOf(p)
  BY <1>1, TopType DEF Where
<1>4. bios.lvl = "general" => bios.pc \in {GetSupport, Trapped, Terminate, Serve, Wait}
  <2>1. CASE sysTerminate /\ p = Test
    BY <1>3, <2>1 DEF LevelsOf
  <2>2. CASE sysPasseren \/ sysVerhogen \/ sysWaitIO \/ sysWaitClock \/ sysGetSupportPTR
    <3>1. bios.a0 \in {3, 4, 5, 7, 8}
      BY <2>2 DEF sysPasseren, sysVerhogen, sysWaitIO, sysWaitClock, sysGetSupportPTR, syscall
    <3> QED BY <1>1, <3>1 DEF SyscallAt
  <2> QED BY <1>0, <2>1, <2>2
<1>5. Top(p).lvl = "general" => (bios.pc + 1 \in Serve .. Resume => Top(p).pc \in Serve .. Resume)
  BY <1>3, <1>4 DEF GetSupport, Trapped, Terminate, Serve, Wait, Resume
<1>6. Top(p) # AtExit
  BY <1>3, <1>4 DEF AtExit, GetSupport, Trapped, Terminate, Serve, Wait, Exit
<1>7. Nested'
  <2>1. Top(p)' = [lvl |-> Top(p).lvl, pc |-> bios.pc + 1] /\ UNCHANGED <<live, sup_exceptState>>
    BY <1>1, <1>2, <1>3
  <2> QED BY <1>1, <1>5, <2>1, AdvanceKeeps
<1>8. Freed'
  <2>1. /\ live' \subseteq live /\ Test \in live' /\ UNCHANGED supportFreeList
        /\ Top(p)'.pc \in Nat /\ Top(p)'.pc >= Top(p).pc
    BY <1>1, <1>2, <1>3 DEF Freed
  <2> QED BY <1>1, <1>3, <1>6, <2>1, FreedKept
<1> QED BY <1>7, <1>8

LEMMA JumpKeeps ==
  ASSUME Inv, Nested, Freed, userStep \/ skip \/ freeSupportStruct \/ (copy /\ Jump(cpu.pc + 1))
  PROVE  Nested' /\ Freed'
<1>0. PICK p : p = currentProcess
  OBVIOUS
<1>1. nucleus = "running" /\ UNCHANGED sup_exceptState
  BY DEF userStep, skip, freeSupportStruct, copy, Runs, Raise, Jump
<1>2. /\ p \in live /\ p \in Proc /\ Top(p) = Where(cpu) /\ Good(p, cpu)
      /\ cpu.pc \in Nat /\ Top(p).lvl = cpu.lvl /\ Top(p).pc = cpu.pc
  BY <1>0, <1>1, CurrentTop, Running DEF Where
<1>3. cpu.lvl \in {"user", "pager", "daemon", "general"} /\ p # Test
  BY <1>2, Basics DEF userStep, skip, freeSupportStruct, copy, Runs, Good, LevelsOf
<1>4. PICK n : /\ Jump(n)
               /\ cpu.lvl = "general" => (n \in Serve .. Resume => cpu.pc \in Serve .. Resume)
               /\ freeSupportStruct => n = Exit
               /\ ~freeSupportStruct => [lvl |-> cpu.lvl, pc |-> cpu.pc] # AtExit /\ UNCHANGED supportFreeList
  <2>1. CASE userStep /\ ~freeSupportStruct
    BY <2>1 DEF userStep, AtExit
  <2>2. CASE skip /\ ~freeSupportStruct
    BY <2>2 DEF skip, Runs, AtExit
  <2>3. CASE freeSupportStruct
    BY <2>3 DEF freeSupportStruct, Serve, Resume, Exit
  <2>4. CASE copy /\ Jump(cpu.pc + 1) /\ ~freeSupportStruct
    BY <2>4 DEF copy, Runs, Raise, Jump, CopyIn, CopyOut, Serve, Resume, Exit, AtExit
  <2> QED BY <2>1, <2>2, <2>3, <2>4
<1>5. UNCHANGED live /\ Others(p) /\ Top(p)' = [lvl |-> cpu.lvl, pc |-> n]
  BY <1>0, <1>1, <1>4, JumpTop
<1>6. Nested'
  <2>1. /\ Top(p)' = [lvl |-> Top(p).lvl, pc |-> n] /\ UNCHANGED <<live, sup_exceptState>>
        /\ Top(p).lvl = "general" => (n \in Serve .. Resume => Top(p).pc \in Serve .. Resume)
    BY <1>1, <1>2, <1>4, <1>5
  <2> QED BY <1>2, <1>5, <2>1, AdvanceKeeps
<1>7. CASE ~freeSupportStruct
  <2>1. Top(p) # AtExit /\ live' \subseteq live /\ Test \in live' /\ UNCHANGED supportFreeList
    BY <1>2, <1>4, <1>5, <1>7 DEF Freed, Where
  <2> QED BY <1>2, <1>3, <1>5, <1>6, <2>1, FreedKept
<1>8. CASE freeSupportStruct
  <2>1. cpu.lvl = "general" /\ supportFreeList' = <<SupportOf(p)>> \o supportFreeList
    BY <1>0, <1>8 DEF freeSupportStruct, Runs
  <2>2. p \in Uproc /\ SupportOf(p) \in Support /\ supportFreeList \in Seq(Support)
    BY <1>2, <2>1, OwnLevel, Basics DEF Inv, TypeOK
  <2>3. \A t \in Range(supportFreeList)' : t = SupportOf(p) \/ t \in Range(supportFreeList)
    BY <2>1, <2>2 DEF Range
  <2>4. Top(p)' = AtExit /\ Top(Test)' = Top(Test)
    BY <1>3, <1>4, <1>5, <1>8, <2>1, Basics DEF AtExit, Others
  <2>5. p <= Top(Test).pc
    BY <1>2, <2>2 DEF Freed
  <2>6. ASSUME NEW q \in Uproc, SupportOf(q) \in Range(supportFreeList)'
        PROVE  q <= Top(Test)'.pc /\ (q \in live' => Top(q)' = AtExit)
    <3>1. CASE q = p
      BY <2>4, <2>5, <3>1
    <3>2. CASE q # p
      <4>1. SupportOf(q) \in Range(supportFreeList) /\ q \in Proc
        BY <2>2, <2>3, <2>6, <3>2, Basics
      <4>2. Top(q)' = Top(q)
        BY <3>2, <4>1, <1>5 DEF Others
      <4> QED BY <1>5, <2>4, <4>1, <4>2 DEF Freed
    <3> QED BY <3>1, <3>2
  <2>7. Test \in live' /\ \A q \in live' \cap Uproc : q <= Top(Test)'.pc
    BY <1>5, <2>4 DEF Freed
  <2>8. Freed'
    BY <2>6, <2>7 DEF Freed, Uproc, SupportOf, AtExit
  <2> QED BY <1>6, <2>8
<1> QED BY <1>7, <1>8

LEMMA PassUpWhere ==
  ASSUME Inv, TLBExceptionHandler \/ programTrapHandler \/ supportCall \/ userModeCall,
         NEW p, p = currentProcess
  PROVE  /\ p \in live /\ p \in Uproc /\ Top(p) = Where(bios) /\ Top(p) # AtExit /\ bios \in State
         /\ \/ /\ bios.lvl = "user" \/ (bios.lvl = "general" /\ bios.pc \in {CopyIn, CopyOut})
               /\ passUpOrDie(PGFAULTEXCEPT, bios)
            \/ \E s : passUpOrDie(GENERALEXCEPT, s)
<1>1. /\ nucleus = "exception" /\ bios.cause # "int"
      /\ p \in live /\ p \in Proc /\ Good(p, bios) /\ bios \in State /\ Top(p) = Where(bios)
  BY Handled, CurrentTop
    DEF TLBExceptionHandler, programTrapHandler, supportCall, userModeCall, Handling
<1>2. bios.lvl = "user" \/ (bios.lvl = "general" /\ bios.pc \in {CopyIn, CopyOut})
  BY <1>1, SavedState
    DEF TLBExceptionHandler, programTrapHandler, supportCall, userModeCall, Handling, Inv, RunsWell
<1>3. p \in Uproc
  BY <1>1, <1>2, OwnLevel
<1>4. Top(p) # AtExit
  BY <1>1, <1>2 DEF Where, AtExit, CopyIn, CopyOut, Exit
<1> QED BY <1>1, <1>2, <1>3, <1>4 DEF TLBExceptionHandler, programTrapHandler, supportCall, userModeCall

LEMMA PassUpKeeps ==
  ASSUME Inv, Nested, Freed, TLBExceptionHandler \/ programTrapHandler \/ supportCall \/ userModeCall
  PROVE  Nested' /\ Freed'
<1>0. PICK p : p = currentProcess
  OBVIOUS
<1>1. /\ p \in live /\ p \in Uproc /\ p \in Proc /\ p # Test /\ Top(p) = Where(bios) /\ Top(p) # AtExit
      /\ Nests(p)
  BY <1>0, PassUpWhere, Basics DEF Nested
<1>2. PICK x, s :
        /\ x \in {PGFAULTEXCEPT, GENERALEXCEPT} /\ passUpOrDie(x, s)
        /\ x = PGFAULTEXCEPT =>
             s = bios /\ (bios.lvl = "user" \/ (bios.lvl = "general" /\ bios.pc \in {CopyIn, CopyOut}))
  BY <1>0, PassUpWhere DEF PGFAULTEXCEPT, GENERALEXCEPT
<1>3. /\ UNCHANGED <<live, supportFreeList>> /\ Others(p)
      /\ sup_exceptState' = [sup_exceptState EXCEPT ![SupportOf(p)][x] = s]
      /\ Top(p)' = [lvl |-> IF x = PGFAULTEXCEPT THEN "pager" ELSE "general", pc |-> 0]
  BY <1>0, <1>1, <1>2, PassUpTop
<1>4. /\ \A q \in Uproc \ {p} : General(q)' = General(q) /\ Fault(q)' = Fault(q)
      /\ x = PGFAULTEXCEPT => Fault(p)' = bios /\ General(p)' = General(p)
  BY <1>1, <1>2, <1>3, AreaWritten
<1>5. Nests(p)'
  <2>1. CASE x = GENERALEXCEPT
    <3>1. Top(p)'.lvl = "general" /\ Top(p)'.pc = 0
      BY <1>3, <2>1 DEF PGFAULTEXCEPT, GENERALEXCEPT
    <3> QED BY <3>1 DEF Nests, Serve, Resume
  <2>2. CASE x = PGFAULTEXCEPT
    <3>1. /\ Top(p).lvl = bios.lvl /\ Top(p).pc = bios.pc
          /\ Top(p)'.lvl = "pager" /\ Fault(p)' = bios /\ General(p)' = General(p)
      BY <1>1, <1>3, <1>4, <2>2 DEF Where
    <3>2. bios.lvl = "general" => bios.pc \in {CopyIn, CopyOut} /\ IsService(General(p))
      <4>1. bios.lvl = "user" \/ (bios.lvl = "general" /\ bios.pc \in {CopyIn, CopyOut})
        BY <1>2, <2>2
      <4>2. bios.pc \in {CopyIn, CopyOut} => bios.pc \in Serve .. Resume
        BY DEF CopyIn, CopyOut, Serve, Resume
      <4>3. Top(p).lvl = "general" /\ Top(p).pc \in Serve .. Resume => IsService(General(p))
        BY <1>1 DEF Nests
      <4> QED BY <3>1, <4>1, <4>2, <4>3
    <3>3. bios.lvl # "pager"
      BY <1>2, <2>2
    <3> QED BY <3>1, <3>2, <3>3 DEF Nests, IsService
  <2> QED BY <1>2, <2>1, <2>2
<1>6. Nested'
  <2>1. live' \subseteq live
    BY <1>3
  <2> QED BY <1>1, <1>3, <1>4, <1>5, <2>1, NestedKept
<1>7. Freed'
  <2>1. live' \subseteq live /\ Test \in live' /\ UNCHANGED supportFreeList
    BY <1>3 DEF Freed
  <2> QED BY <1>1, <1>3, <2>1, FreedKept
<1> QED BY <1>6, <1>7

LEMMA DispatchKeeps ==
  ASSUME Inv, Nested, Freed, dispatch
  PROVE  Nested' /\ Freed'
<1>0. PICK p : p = currentProcess
  OBVIOUS
<1>1. /\ p \in live /\ p \in Uproc /\ p \in Proc /\ p # Test /\ UNCHANGED <<live, supportFreeList>> /\ Others(p)
      /\ Top(p) # AtExit /\ General(p) \in State
  BY <1>0, DispatchTop, Basics DEF AtExit, Dispatch, Exit
<1>2. /\ Nests(p)' /\ \A q \in Uproc \ {p} : General(q)' = General(q) /\ Fault(q)' = Fault(q)
  <2>1. CASE UNCHANGED sup_exceptState /\ Top(p)' = [lvl |-> "general", pc |-> Trapped]
    <3>1. Nests(p)'
      BY <2>1 DEF Nests, Trapped, Serve, Resume
    <3> QED BY <2>1, <3>1, AreasSame
  <2>2. CASE /\ sup_exceptState' = [sup_exceptState EXCEPT ![SupportOf(p)][GENERALEXCEPT] =
                                      [General(p) EXCEPT !.pc = @ + 1]]
             /\ \E n \in {Resume, Serve, Terminate} :
                  /\ Top(p)' = [lvl |-> "general", pc |-> n]
                  /\ n \in {Resume, Serve} => IsService(General(p))
    <3>1. /\ General(p)' = [General(p) EXCEPT !.pc = @ + 1]
          /\ \A q \in Uproc \ {p} : General(q)' = General(q) /\ Fault(q)' = Fault(q)
      BY <1>1, <2>2, AreaWritten DEF GENERALEXCEPT
    <3>2. IsService(General(p)') <=> IsService(General(p))
      BY <1>1, <3>1 DEF State, IsService
    <3>3. PICK n \in {Resume, Serve, Terminate} :
            /\ Top(p)' = [lvl |-> "general", pc |-> n]
            /\ n \in {Resume, Serve} => IsService(General(p))
      BY <2>2
    <3>4. Top(p)'.lvl = "general" /\ Top(p)'.pc = n
      BY <3>3
    <3>5. n = Terminate => n \notin Serve .. Resume
      BY DEF Terminate, Serve, Resume
    <3>6. n \in Serve .. Resume => IsService(General(p)')
      BY <3>2, <3>3, <3>5
    <3>7. Nests(p)'
      BY <3>4, <3>6 DEF Nests, IsService
    <3> QED BY <3>1, <3>7
  <2> QED BY <1>0, <2>1, <2>2, DispatchTop
<1>3. live' \subseteq live /\ Test \in live'
  BY <1>1 DEF Freed
<1>4. Nested'
  BY <1>1, <1>2, <1>3, NestedKept
<1>5. Freed'
  BY <1>1, <1>3, FreedKept
<1> QED BY <1>4, <1>5

LEMMA ResumeKeeps ==
  ASSUME Inv, Nested, Freed, resume
  PROVE  Nested' /\ Freed'
<1>0. PICK p : p = currentProcess
  OBVIOUS
<1>1. /\ p \in live /\ p \in Uproc /\ p \in Proc /\ p # Test /\ Others(p) /\ Nests(p)
      /\ UNCHANGED <<live, sup_exceptState, supportFreeList>> /\ Top(p) # AtExit
  <2>1. Top(p).lvl = "pager" \/ Top(p).pc = Resume
    BY <1>0, ResumeTop
  <2>2. Top(p) # AtExit
    BY <2>1 DEF AtExit, Resume, Exit
  <2> QED BY <1>0, <2>2, ResumeTop, Basics DEF Nested
<1>2. \A q \in Proc : General(q)' = General(q) /\ Fault(q)' = Fault(q)
  BY <1>1, AreasSame
<1>3. Nests(p)'
  <2>1. CASE Top(p)' = Where(General(p))
    <3>1. Top(p)'.lvl = "user"
      BY <1>1, <2>1 DEF General, Inv, SavedWell, Where
    <3> QED BY <3>1 DEF Nests
  <2>2. CASE Top(p).lvl = "pager" /\ Top(p)' = Where(Fault(p))
    <3>1. /\ Top(p)'.lvl = Fault(p).lvl /\ Fault(p).lvl # "pager"
          /\ Fault(p).lvl = "general" => IsService(General(p))
      BY <1>1, <2>2 DEF Nests, Where
    <3> QED BY <1>1, <1>2, <3>1 DEF Nests, IsService
  <2> QED BY <1>0, <2>1, <2>2, ResumeTop
<1>4. live' \subseteq live /\ Test \in live'
  BY <1>1 DEF Freed
<1>5. Nested'
  BY <1>1, <1>2, <1>3, <1>4, NestedKept, Basics
<1>6. Freed'
  BY <1>1, <1>4, FreedKept
<1> QED BY <1>5, <1>6

LEMMA CreateKeeps ==
  ASSUME Inv, Nested, Freed, sysCreateProcess
  PROVE  Nested' /\ Freed'
<1>0. PICK n : n = bios.pc + 1
  OBVIOUS
<1>1. /\ Test = currentProcess /\ Test \in live /\ Top(Test) = [lvl |-> "test", pc |-> bios.pc]
      /\ bios.pc \in Nat /\ n \in Uproc /\ n \notin live /\ live' = live \cup {n}
      /\ Top(Test)' = [lvl |-> "test", pc |-> n] /\ Top(n)' = [lvl |-> "user", pc |-> 0]
      /\ \A q \in Proc \ {Test, n} : Top(q)' = Top(q)
      /\ UNCHANGED <<sup_exceptState, supportFreeList>>
  BY <1>0, CreateTop
<1>2. \A q \in Proc : General(q)' = General(q) /\ Fault(q)' = Fault(q)
  BY <1>1, AreasSame
<1>3. Top(Test).pc = bios.pc /\ Top(Test)'.pc = n /\ Test \notin Uproc
  BY <1>1, Basics
<1>4. ASSUME NEW q \in live' \cap Uproc PROVE Nests(q)' /\ q <= Top(Test)'.pc
  <2>1. CASE q = n
    <3>1. Nests(q)'
      BY <1>1, <2>1 DEF Nests
    <3> QED BY <1>1, <1>3, <2>1, <3>1, Basics
  <2>2. CASE q # n
    <3>1. q \in live /\ q \in Nat /\ Top(q)' = Top(q) /\ Nests(q) /\ q <= bios.pc
      BY <1>1, <1>3, <1>4, <2>2, Basics DEF Nested, Freed
    <3>2. Nests(q)'
      BY <1>2, <1>4, <3>1, NestsSame, Basics
    <3> QED BY <1>0, <1>1, <1>3, <3>1, <3>2
  <2> QED BY <2>1, <2>2
<1>5. ASSUME NEW q \in Uproc, SupportOf(q) \in Range(supportFreeList)'
      PROVE  q <= Top(Test)'.pc /\ (q \in live' => Top(q)' = AtExit)
  <2>1. q \in Nat /\ q \in Proc /\ q <= bios.pc /\ (q \in live => Top(q) = AtExit)
    BY <1>1, <1>3, <1>5, Basics DEF Freed
  <2>2. q # n /\ q <= n
    BY <1>0, <1>1, <2>1
  <2> QED BY <1>1, <1>3, <2>1, <2>2
<1>6. Nested'
  BY <1>4 DEF Nested, Uproc
<1>7. Test \in live'
  BY <1>1
<1>8. Freed'
  BY <1>4, <1>5, <1>7 DEF Freed, Uproc, SupportOf, AtExit
<1> QED BY <1>6, <1>8

LEMMA EndKeeps ==
  ASSUME Inv, Nested, Freed, sysTerminate, currentProcess # Test
  PROVE  Nested' /\ Freed'
<1>0. PICK p : p = currentProcess
  OBVIOUS
<1>1. /\ p \in live /\ p \in Proc /\ p # Test /\ live' = live \ {p} /\ Others(p)
      /\ UNCHANGED <<sup_exceptState, supportFreeList>>
  BY <1>0, EndTop
<1>2. \A q \in Uproc \ {p} : General(q)' = General(q) /\ Fault(q)' = Fault(q)
  BY <1>1, AreasSame
<1>3. live' \subseteq live /\ Test \in live' /\ p \notin live'
  BY <1>1 DEF Freed
<1>4. Nested'
  BY <1>1, <1>2, <1>3, NestedKept
<1>5. Freed'
  BY <1>1, <1>3, FreedKept
<1> QED BY <1>4, <1>5

-----------------------------------------------------------------------------
IInv == Inv /\ Nested /\ Freed

LEMMA NestedBeginning == Init => IInv
<1> SUFFICES ASSUME Init PROVE IInv
  OBVIOUS
<1>1. Inv /\ live = {Test, Daemon} /\ live \cap Uproc = {}
  BY Beginning, Basics DEF Init
<1>2. Nested
  BY <1>1 DEF Nested
<1>3. ASSUME NEW p \in Uproc PROVE SupportOf(p) \notin Range(supportFreeList)
  <2>1. SupportOf(p) = SUPPORT_STRUCT_POOL_SIZE - p /\ p \in Nat /\ p <= UPROCMAX
    BY <1>3, ExceptionsAssumption DEF SupportOf, Uproc
  <2>2. supportFreeList = [i \in 1 .. SUPPORT_STRUCT_POOL_SIZE - UPROCMAX |-> SUPPORT_STRUCT_POOL_SIZE - UPROCMAX - i]
    BY DEF Init
  <2>3. DOMAIN supportFreeList = 1 .. SUPPORT_STRUCT_POOL_SIZE - UPROCMAX
        /\ \A i \in 1 .. SUPPORT_STRUCT_POOL_SIZE - UPROCMAX :
             supportFreeList[i] = SUPPORT_STRUCT_POOL_SIZE - UPROCMAX - i
    BY <2>2
  <2>4. \A i \in 1 .. SUPPORT_STRUCT_POOL_SIZE - UPROCMAX :
          SUPPORT_STRUCT_POOL_SIZE - UPROCMAX - i # SUPPORT_STRUCT_POOL_SIZE - p
    BY <2>1, ExceptionsAssumption
  <2> QED BY <2>1, <2>3, <2>4 DEF Range
<1>4. Freed
  BY <1>1, <1>3 DEF Freed
<1> QED BY <1>1, <1>2, <1>4 DEF IInv

\* The invariant of the refinement: where each process is, what is saved under it
\* and which support structures are free agree.
THEOREM RefinementInvariant == Spec => []IInv
<1>1. IInv /\ [Next]_vars => Nested' /\ Freed'
  <2> SUFFICES ASSUME Inv, Nested, Freed, [Next]_vars PROVE Nested' /\ Freed'
    BY DEF IInv
  <2>1. CASE dispatch
    BY <2>1, DispatchKeeps
  <2>2. CASE resume
    BY <2>2, ResumeKeeps
  <2>3. CASE userStep \/ skip \/ freeSupportStruct \/ (copy /\ Jump(cpu.pc + 1))
    BY <2>3, JumpKeeps
  <2>4. CASE TLBExceptionHandler \/ programTrapHandler \/ supportCall \/ userModeCall
    BY <2>4, PassUpKeeps
  <2>5. CASE \/ sysPasseren \/ sysVerhogen \/ sysWaitIO \/ sysWaitClock \/ sysGetSupportPTR
             \/ sysTerminate /\ currentProcess = Test
    BY <2>5, CallKeeps
  <2>6. CASE sysCreateProcess \/ (sysTerminate /\ currentProcess # Test)
    BY <2>6, CreateKeeps, EndKeeps
  <2>7. CASE \/ userException \/ handlerCall \/ interrupt \/ tick \/ scheduler \/ UNCHANGED vars
             \/ copy /\ Raise("tlb", 0)
             \/ handlePLTInterrupt \/ handleIntervalTimerInterrupt
             \/ \E p \in Proc : handleDeviceInterrupt(p)
    BY <2>7, StillSteps, StillKeeps
  <2>8. copy => Jump(cpu.pc + 1) \/ Raise("tlb", 0)
    BY DEF copy
  <2> QED BY <2>1, <2>2, <2>3, <2>4, <2>5, <2>6, <2>7, <2>8 DEF Next, processor, exceptionHandler
<1>2. Inv /\ Nested /\ Freed => IInv
  BY DEF IInv
<1>3. Init => Nested /\ Freed
  BY NestedBeginning DEF IInv
<1>4. IInv /\ [Next]_vars /\ Inv' => IInv'
  BY <1>1 DEF IInv
<1> QED BY <1>2, <1>3, <1>4, NestedBeginning, ExceptionsInvariant, PTL DEF Spec

\* Exceptions implements Activations: whatever the nucleus saves, copies, loads,
\* passes up and nests, each process goes on with its last activation, and what is
\* suspended under it goes on later, once, where its exception promised.
THEOREM ExceptionsImplementActivations == Spec => Implements
<1>1. Init => A!Init
  <2> SUFFICES ASSUME Init PROVE A!Init
    OBVIOUS
  <2>1. Inv /\ live = {Test, Daemon} /\ nucleus = "scheduler"
    BY Beginning DEF Init
  <2>2. ASSUME NEW p \in live PROVE Frames(p) = <<[lvl |-> ProgramOf(p), pc |-> 0]>>
    <3>1. Top(p) = Where(p_s[p]) /\ p \in Proc
      BY <2>1, TopOf, Basics
    <3>2. Top(p) = [lvl |-> ProgramOf(p), pc |-> 0]
      BY <3>1 DEF Init, Start, Where
    <3>3. ProgramOf(p) \in {"test", "daemon"}
      BY <2>1 DEF ProgramOf
    <3>4. Frames(p) = One(Top(p))
      BY <3>2, <3>3, FramesOf
    <3> QED BY <3>2, <3>4 DEF One
  <2>3. \A p \in Proc : p \notin live => Frames(p) = <<>>
    BY FramesOf
  <2>4. \A p \in Proc :
          Frames(p) \in {<<>>} \cup {<<[lvl |-> [r \in Proc |-> ProgramOf(r)][q], pc |-> 0]>> : q \in Proc}
    BY <2>2, <2>3
  <2> QED BY <2>4 DEF A!Init
<1>2. IInv /\ [Next]_vars => [A!Next]_[p \in Proc |-> Frames(p)]
  BY StepImplements DEF IInv, Stacks
<1> QED BY <1>1, <1>2, RefinementInvariant, PTL DEF Spec, Implements, A!Spec

\* The support structure of a U-proc whose exceptions are still saved is not free:
\* from freeSupportStruct to SYS2 only interrupts come, and they use the pcb.
THEOREM FreeNeverWritten == Spec => FreeUntouched
<1>1. ASSUME IInv, [Next]_vars, NEW s \in Range(supportFreeList)
      PROVE  sup_exceptState'[s] = sup_exceptState[s]
  <2>0. PICK p : p = currentProcess
    OBVIOUS
  <2>1. s \in Support
    BY <1>1 DEF IInv, Inv, TypeOK, Range
  <2>2. p \in live /\ p \in Uproc /\ Top(p) # AtExit => s # SupportOf(p)
    BY <1>1 DEF IInv, Freed
  <2>3. ASSUME p \in Uproc, NEW x \in {PGFAULTEXCEPT, GENERALEXCEPT}, NEW r, s # SupportOf(p),
               sup_exceptState' = [sup_exceptState EXCEPT ![SupportOf(p)][x] = r]
        PROVE  sup_exceptState'[s] = sup_exceptState[s]
    BY <1>1, <2>1, <2>3, AreaWritten DEF IInv
  <2>4. CASE dispatch
    <3>1. p \in live /\ p \in Uproc /\ Top(p) # AtExit
      BY <1>1, <2>0, <2>4, DispatchTop DEF IInv, AtExit, Dispatch, Exit
    <3>2. \/ UNCHANGED sup_exceptState
          \/ \E r : sup_exceptState' = [sup_exceptState EXCEPT ![SupportOf(p)][GENERALEXCEPT] = r]
      BY <1>1, <2>0, <2>4, DispatchTop DEF IInv
    <3> QED BY <2>2, <2>3, <3>1, <3>2
  <2>5. CASE TLBExceptionHandler \/ programTrapHandler \/ supportCall \/ userModeCall
    <3>1. p \in live /\ p \in Uproc /\ Top(p) # AtExit
          /\ \E x \in {PGFAULTEXCEPT, GENERALEXCEPT} : \E r : passUpOrDie(x, r)
      BY <1>1, <2>0, <2>5, PassUpWhere DEF IInv
    <3>2. PICK x \in {PGFAULTEXCEPT, GENERALEXCEPT} : \E r : passUpOrDie(x, r)
      BY <3>1
    <3>3. PICK r : sup_exceptState' = [sup_exceptState EXCEPT ![SupportOf(p)][x] = r]
      BY <2>0, <3>2 DEF passUpOrDie
    <3> QED BY <2>2, <2>3, <3>1, <3>3
  <2>6. CASE userStep \/ skip \/ freeSupportStruct \/ copy \/ resume \/ sysCreateProcess \/ sysTerminate
    BY <2>6 DEF userStep, skip, freeSupportStruct, copy, Raise, resume, sysCreateProcess, sysTerminate
  <2>7. CASE sysPasseren \/ sysVerhogen \/ sysWaitIO \/ sysWaitClock \/ sysGetSupportPTR
    BY <2>7 DEF sysPasseren, sysVerhogen, sysWaitIO, sysWaitClock, sysGetSupportPTR, block, passeren
  <2>8. CASE \/ userException \/ handlerCall \/ interrupt \/ tick \/ scheduler \/ UNCHANGED vars
             \/ handlePLTInterrupt \/ handleIntervalTimerInterrupt
             \/ \E q \in Proc : handleDeviceInterrupt(q)
    BY <1>1, <2>8, StillSteps DEF IInv, Still
  <2> QED BY <1>1, <2>4, <2>5, <2>6, <2>7, <2>8 DEF Next, processor, exceptionHandler
<1>2. IInv /\ [Next]_vars => [\A s \in Range(supportFreeList) : sup_exceptState'[s] = sup_exceptState[s]]_vars
  BY <1>1
<1> QED BY <1>2, RefinementInvariant, PTL DEF Spec, FreeUntouched

\* Handlers of one ASID and of two use different stack pages, test() and the daemon
\* others: all but the daemon's, which ASID 1's general handler has too.
THEOREM HandlersKeepApart == Spec => []StacksApart
<1>1. ASSUME IInv, NEW p \in Proc, NEW l \in Stacked(p)
      PROVE  l \in LevelsOf(p) \ {"user"}
  <2>1. p \in live
    BY FramesOf DEF Stacked, Range
  <2>2. Top(p).lvl \in LevelsOf(p)
    BY <1>1, <2>1, TopType DEF IInv
  <2>3. PICK f : f \in Range(Frames(p)) /\ f.lvl = l /\ l # "user"
    BY DEF Stacked
  <2>4. CASE p \in Uproc
    <3>1. Called(p).lvl = "user" /\ Faulted(p).lvl \in LevelsOf(p)
      BY <1>1, <2>4, Below DEF IInv, Inv, SavedWell, Good, General, Fault, Where
    <3>2. Frames(p) \in {One(Top(p)), Two(Called(p), Top(p)), Two(Faulted(p), Top(p)),
                         Three(Called(p), Faulted(p), Top(p))}
      BY <2>1, FramesOf
    <3>3. f \in {Called(p), Faulted(p), Top(p)}
      BY <2>3, <3>2 DEF Range, One, Two, Three
    <3> QED BY <2>2, <2>3, <3>1, <3>3
  <2>5. CASE p \notin Uproc
    <3>1. Frames(p) = One(Top(p))
      BY <2>1, <2>2, <2>5, FramesOf, Basics DEF LevelsOf
    <3>2. f = Top(p)
      BY <2>3, <3>1 DEF Range, One
    <3> QED BY <2>2, <2>3, <3>2
  <2> QED BY <2>4, <2>5
<1>2. ASSUME NEW p \in Proc, NEW q \in Proc, NEW l \in LevelsOf(p) \ {"user"}, NEW m \in LevelsOf(q) \ {"user"},
             Stack(p, l) = Stack(q, m)
      PROVE  (p = q /\ l = m) \/ {p, q} = {Daemon, 1}
  <2>1. \A r \in Proc :
          \/ r = Test /\ LevelsOf(r) = {"test"}
          \/ r = Daemon /\ LevelsOf(r) = {"daemon"}
          \/ r \in Nat \ {0} /\ LevelsOf(r) = {"user", "general", "pager"}
    BY ExceptionsAssumption DEF Proc, Uproc, LevelsOf
  <2>2. \/ p = Test /\ l = "test" /\ Stack(p, l) = 0
        \/ p = Daemon /\ l = "daemon" /\ Stack(p, l) = 2
        \/ p \in Nat \ {0} /\ l = "pager" /\ Stack(p, l) = 2 * p - 1
        \/ p \in Nat \ {0} /\ l = "general" /\ Stack(p, l) = 2 * p
    BY <2>1 DEF Stack
  <2>3. \/ q = Test /\ m = "test" /\ Stack(q, m) = 0
        \/ q = Daemon /\ m = "daemon" /\ Stack(q, m) = 2
        \/ q \in Nat \ {0} /\ m = "pager" /\ Stack(q, m) = 2 * q - 1
        \/ q \in Nat \ {0} /\ m = "general" /\ Stack(q, m) = 2 * q
    BY <2>1 DEF Stack
  <2> QED BY <1>2, <2>2, <2>3
<1>3. IInv => StacksApart
  BY <1>1, <1>2 DEF StacksApart
<1> QED BY <1>3, RefinementInvariant, PTL
=============================================================================
