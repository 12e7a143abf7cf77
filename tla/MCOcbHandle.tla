---------------------------- MODULE MCOcbHandle ----------------------------
(* Instances of OcbHandle for TLC.                                        *)
EXTENDS OcbHandle, TLC

Symmetry == Permutations(Threads)

(* All calls on one handle.                                                *)
EveryOp == AllOps

(* The calls of the transmit half.                                         *)
TxOps == {"write", "send", "abort_tx", "destroy"}

(* The calls that leave a job in flight, and the close that has to end it. *)
JobOps == {"read", "write", "send", "destroy"}

=============================================================================
