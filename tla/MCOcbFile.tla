----------------------------- MODULE MCOcbFile -----------------------------
(* Instances of OcbFile for TLC.                                           *)
EXTENDS OcbFile, TLC

Symmetry == Permutations(Threads) \cup Permutations(Ocbs)

(* A good range, one that goes beyond the last ID, and the whole number    *)
(* space.                                                                  *)
SomeRanges == {<<0, 1>>, <<1, 2>>, <<0, 2>>}

=============================================================================
