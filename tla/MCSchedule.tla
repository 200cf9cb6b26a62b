----------------------------- MODULE MCSchedule -----------------------------
(***************************************************************************)
(* A drive channel whose LO lies below the drive frequency, and the readout *)
(* channels of two qubits.  6 ns lies half-way between two grid lines.      *)
(***************************************************************************)
EXTENDS Schedule, TLC

MCNames == [c \in Clocks |->
              IF c \in Readout THEN {"acquire", "constant", "delay"}
              ELSE {"setf", "shiftf", "setp", "fc", "gaussian", "wacqt_cz", "library"}]
MCRawTimes == {0, 4, 6}
MCValues == {1, 2}

\* The readout channels are interchangeable.
MCSymmetry == Permutations(Readout)

=============================================================================
