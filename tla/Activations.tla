---------------------------- MODULE Activations ----------------------------
(***************************************************************************)
(* What the nucleus and the support level promise about exceptions,        *)
(* without the BIOS data page, the pcbs and the support structures they    *)
(* save states in.  A process is a stack of activations: its program, the  *)
(* general handler that serves its calls, the pager.  Only the last of     *)
(* them runs.  What is suspended below it stays as it is and resumes where *)
(* it was promised to: at the instruction that faulted, after the one that *)
(* called, or never.  Exceptions implements this module.                   *)
(***************************************************************************)
EXTENDS Integers, SequencesExt

CONSTANTS
  Process,
  Program,   \* the level that each process starts at
  User,      \* the level of the U-procs' programs
  Handler,   \* the levels that exceptions are passed up to
  Address,   \* where the code of the system may jump to
  Never      \* the resumption address of what is not to be resumed

VARIABLE frames   \* for each process its activations, <<>> if it is none

Init == frames \in [Process -> {<<>>} \cup {<<[lvl |-> Program[p], pc |-> 0]>> : p \in Process}]

\* What is left of the activations of p when the last one has run one instruction:
\* the next one in a U-proc; the code of the system may jump.
Stepped(p) ==
  {Append(Front(frames[p]), [lvl |-> Last(frames[p]).lvl, pc |-> pc]) :
     pc \in IF Last(frames[p]).lvl = User THEN {Last(frames[p]).pc + 1} ELSE Address}

Step(p) ==
  /\ frames[p] # <<>>
  /\ \E f \in Stepped(p) : frames' = [frames EXCEPT ![p] = f]

\* SYS1: q starts.
Spawn(p, q) ==
  /\ frames[p] # <<>> /\ frames[q] = <<>>
  /\ \E f \in Stepped(p) :
       frames' = [frames EXCEPT ![p] = f, ![q] = <<[lvl |-> Program[q], pc |-> 0]>>]

\* An exception is passed up to a handler that is not at work for p already.  An
\* interrupted handler resumes at the instruction that faulted.
Resumptions(f) == IF f.lvl = User THEN {f.pc, f.pc + 1, Never} ELSE {f.pc}

Call(p) ==
  /\ frames[p] # <<>>
  /\ \E l \in Handler, pc \in Resumptions(Last(frames[p])) :
       /\ \A i \in DOMAIN frames[p] : frames[p][i].lvl # l
       /\ frames' = [frames EXCEPT ![p] =
                       Front(@) \o <<[lvl |-> Last(@).lvl, pc |-> pc], [lvl |-> l, pc |-> 0]>>]

Return(p) ==
  /\ Len(frames[p]) > 1
  /\ Last(Front(frames[p])).pc # Never
  /\ frames' = [frames EXCEPT ![p] = Front(@)]

End(p) ==
  /\ frames[p] # <<>>
  /\ frames' = [frames EXCEPT ![p] = <<>>]

Next ==
  \E p \in Process :
    Step(p) \/ Call(p) \/ Return(p) \/ End(p) \/ \E q \in Process : Spawn(p, q)

Spec == Init /\ [][Next]_frames
=============================================================================
