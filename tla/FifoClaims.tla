----------------------------- MODULE FifoClaims -----------------------------
(***************************************************************************)
(* What the README, the reference model and the comments of rtl/fifo.v say *)
(* of the FIFO and the RTL does not do.  Each claim allows only the kinds  *)
(* of traffic it speaks of, so that a counterexample is about that claim   *)
(* and not about the consequence of another one.                           *)
(***************************************************************************)
EXTENDS FifoCheck

Only(kinds) == Avoided(Kinds \ kinds)

(* README.md line 37, F_FirstN: "At least one word is stored", and line 46, *)
(* F_FirstN is 1 at occupancy 0; here after writes and reads.  The branch   *)
(* of rtl/fifo.v line 189 that should deassert F_FirstN assigns 0 again.    *)
FirstN_MeansOneOrMore ==
  Only({"Read"}) => (F_FirstN = 0 <=> ~Empty)

(* rtl/fifo.v lines 143 and 145: "All the FIFO status signals are dependent *)
(* on fcounter value" and "If the fcounter is equal to zero, FIFO is EMPTY".*)
(* Line 162 derives F_EmptyN from F_FirstN instead.                         *)
EmptyN_MeansCountIsZero ==
  Only({"Read"}) => (F_EmptyN = 0 <=> fcounter = 0)

(* README.md line 58: "A read-only request is ignored when empty."  Line    *)
(* 123 of the RTL moves rd_ptr, so the next word written is not shown.      *)
ReadOnEmpty_IsIgnored ==
  Only({"ReadOnEmpty"}) => (~Empty => F_Data = expected.F_Data)

(* README.md line 60: "Simultaneous read/write while empty is treated as a  *)
(* no-op."  Line 159 of the RTL deasserts F_EmptyN.                         *)
ReplaceOnEmpty_IsNoOp ==
  Only({"ReplaceOnEmpty"}) => F_EmptyN = expected.F_EmptyN

(* README.md line 59: "Simultaneous read/write replaces the oldest item     *)
(* without changing occupancy."  On a full FIFO lines 238 and 266 of the    *)
(* RTL take it for a read.                                                  *)
ReplaceOnFull_KeepsOccupancy ==
  Only({"ReplaceOnFull", "PastEnd"}) => F_FullN = expected.F_FullN

(* The same sentence, on a FIFO that is not full: the FDEPTH+1st word of a  *)
(* fill is stored outside the memory, because the pointers (lines 58-60)    *)
(* are FWIDTH bits wide and not FCWIDTH.                                    *)
Replace_StoresTheWord ==
  Only({"PastEnd"}) => (~Empty => F_Data = expected.F_Data)
=============================================================================
