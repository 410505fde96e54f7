------------------------------ MODULE FifoUser ------------------------------
(***************************************************************************)
(* The RTL in the hands of a user who OBEYS: one who looks at F_EmptyN and *)
(* F_FullN only, and clears the FIFO, and resets it, whenever he likes.    *)
(***************************************************************************)
EXTENDS FifoRtl

(* How far the write pointer is ahead of the read pointer, around FMOD. *)
Ahead == IF wr_ptr >= rd_ptr THEN wr_ptr - rd_ptr ELSE FMOD + wr_ptr - rd_ptr

-----------------------------------------------------------------------------
(* No read of a FIFO that says it is empty and no write to one that says it *)
(* is full.                                                                 *)
Obeys(FInN, FOutN) ==
  /\ FOutN = 0 => F_EmptyN = 1
  /\ FInN = 0  => F_FullN = 1

Clear ==
  \E FInN, FOutN \in Bit, Data_In \in Data : PosedgeClk(0, FInN, FOutN, Data_In)

Reset == NegedgeRstN \/ PosedgeRstN

ObedientRequest ==
  \E FInN, FOutN \in Bit, Data_In \in Data :
    Obeys(FInN, FOutN) /\ PosedgeClk(1, FInN, FOutN, Data_In)

ObedientNext == ObedientRequest \/ Clear \/ Reset

ObedientSpec == RtlInit /\ [][ObedientNext]_rtlVars

-----------------------------------------------------------------------------
(* For a user who obeys the flags, fcounter is exact for ever, also long    *)
(* after the pointers have left the memory, and so are the three flags of   *)
(* the upper end (lines 129-136 and 204-273).  Neither holds for a user who *)
(* does not obey.                                                           *)
CounterIsExact ==
  /\ fcounter = Ahead
  /\ F_SLastN = 0 <=> fcounter = FDEPTH - 2
  /\ F_LastN = 0  <=> fcounter = FDEPTH - 1
  /\ F_FullN = 0  <=> fcounter = FDEPTH

(* Such a user never meets an underflow or an overflow: F_EmptyN, although  *)
(* it is wrong (line 162), errs to the safe side only.                      *)
NeverMisled ==
  /\ F_EmptyN = 1 => Ahead > 0
  /\ F_FullN = 1  => Ahead < FDEPTH
=============================================================================
