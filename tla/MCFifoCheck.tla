---------------------------- MODULE MCFifoCheck ----------------------------
(***************************************************************************)
(* FifoCheck for TLC: a FIFO of FDEPTH words with registers of FMOD values.*)
(***************************************************************************)
EXTENDS FifoCheck, FiniteSets, TLC

CONSTANT
  MaxKinds   (* bound: kinds of traffic mixed between two clears *)

ASSUME BoundAssumption == MaxKinds \in Nat

FewKinds == Cardinality(seen) <= MaxKinds

(* The words are only stored and compared. *)
Symmetry == Permutations(Data)
=============================================================================
