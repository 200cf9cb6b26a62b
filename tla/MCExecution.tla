---------------------------- MODULE MCExecution ----------------------------
(***************************************************************************)
(* Qubits q6 and q7.  The experiments: both qubits with a wacqt_cz pulse,  *)
(* one qubit acquired twice or once, both with crossed memory slots and    *)
(* classical bits from the metadata, both in one bit, and one that         *)
(* acquires nothing.                                                       *)
(***************************************************************************)
EXTENDS Execution

CONSTANTS u0, u1

MCDevice == {6, 7}
MCParking == [u \in Couplers |-> 0]
MCSpanCurrent == -3

Pulse(u, a) == [coupler |-> u, amount |-> a]
Both == [acquire |-> (0 :> 0 @@ 1 :> 1), q_to_c |-> <<>>, cols |-> 1,
         bias |-> {Pulse(u0, 1), Pulse(u0, -2)}]
Twice == [acquire |-> (1 :> 0), q_to_c |-> <<>>, cols |-> 2, bias |-> {Pulse(u1, 1)}]
Once == [Twice EXCEPT !.cols = 1]
Crossed == [acquire |-> (0 :> 1 @@ 1 :> 0), q_to_c |-> (0 :> 2 @@ 1 :> 0), cols |-> 1, bias |-> {}]
Shared == [acquire |-> (0 :> 0 @@ 1 :> 1), q_to_c |-> (0 :> 1 @@ 1 :> 1), cols |-> 1, bias |-> {}]
Silent == [acquire |-> <<>>, q_to_c |-> <<>>, cols |-> 1, bias |-> {}]

Program(expts, level, ret) == [expts |-> expts, level |-> level, ret |-> ret]
MCQobjs == {
  Program(<<Both, Twice>>, 1, "single"),      \* the bias of one is not that of the next
  Program(<<Crossed, Once>>, 2, "single"),
  Program(<<Both, Silent>>, 2, "single"),     \* the last experiment is not in the file
  Program(<<Silent, Both>>, 2, "avg"),        \* the second takes the place of the first
  Program(<<Shared>>, 2, "avg"),              \* two qubits in one classical bit
  Program(<<Twice>>, 2, "avg"),
  Program(<<Twice>>, 2, "single"),            \* two measurements of a channel raise
  Program(<<Both>>, 0, "avg"),                \* traces are not implemented
  Program(<<Both>>, 0, "single")}             \* no native configuration

SymJobs == Permutations(Jobs)

=============================================================================
