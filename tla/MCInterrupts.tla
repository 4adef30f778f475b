---------------------------- MODULE MCInterrupts ----------------------------
(* A machine whose I/O APIC has a line after that of the PIT, one where the  *)
(* line of the PIT is the last, and one with a second I/O APIC.              *)
EXTENDS Interrupts

MCMachines == {
    << [base |-> 0, max |-> 3] >>,
    << [base |-> 0, max |-> 2] >>,
    << [base |-> 4, max |-> 3], [base |-> 0, max |-> 3] >> }

\* A machine with all it takes to calibrate the timer.
MCCalibrated == { << [base |-> 0, max |-> 3] >> }
=============================================================================
