---------------------------- MODULE FifoCounting ----------------------------
(***************************************************************************)
(* The RTL in the hands of a user who COUNTS: one who knows how many words *)
(* were written and read since the last clear, and ignores the flags.      *)
(*                                                                         *)
(* The reference model runs beside the RTL.  Every clock edge gives both   *)
(* the same request, and a reset empties the model at once, at whatever    *)
(* moment it comes.  So model_q is what the user is promised, and the      *)
(* question is whether the RTL holds just these words.                     *)
(***************************************************************************)
EXTENDS FifoRtl, Sequences

VARIABLE model_q   (* the words that the user wrote and did not read *)

vars == <<rtlVars, model_q>>

model == INSTANCE FifoModel WITH FIFO_DEPTH <- FDEPTH

(* The words in the memory are those from rd_ptr to wr_ptr or to the end of *)
(* the memory.                                                              *)
End(wr) == IF wr < FDEPTH THEN wr ELSE FDEPTH

Words(rd, wr, mem) == [i \in 1 .. End(wr) - rd |-> mem[rd + i - 1]]

queue == Words(rd_ptr, wr_ptr, FIFO)

-----------------------------------------------------------------------------
(* No word may be read that is not there, and none stored past the end of   *)
(* the memory.  A write that the reference model ignores is allowed, but    *)
(* not for so long that wr_ptr starts again at 0.  wr_ptr stands for the    *)
(* number of writes since the last clear.                                   *)
Counts(FInN, FOutN) ==
  /\ FInN = 1 /\ FOutN = 0 => model_q # <<>>
  /\ FInN = 0 =>
       /\ wr_ptr # FMOD - 1
       /\ \/ wr_ptr < FDEPTH
          \/ FOutN = 1 /\ Len(model_q) = FDEPTH
          \/ FOutN = 0 /\ model_q = <<>>

(* The RTL and predict take the same request. *)
Edge(FClrN, FInN, FOutN, Data_In) ==
  /\ PosedgeClk(FClrN, FInN, FOutN, Data_In)
  /\ model!Predict(RstN, FClrN, FInN, FOutN, Data_In)

CountingRequest ==
  \E FInN, FOutN \in Bit, Data_In \in Data :
    Counts(FInN, FOutN) /\ Edge(1, FInN, FOutN, Data_In)

Clear ==
  \E FInN, FOutN \in Bit, Data_In \in Data : Edge(0, FInN, FOutN, Data_In)

(* A change of RstN between two edges comes with no request. *)
Reset ==
  /\ NegedgeRstN \/ PosedgeRstN
  /\ model!Predict(RstN', 1, 1, 1, X)

CountingInit == RtlInit /\ model!ModelInit

CountingNext == CountingRequest \/ Clear \/ Reset

CountingSpec == CountingInit /\ [][CountingNext]_vars

-----------------------------------------------------------------------------
(* The pointers and the memory of rtl/fifo.v (lines 107-124 and 305-309)    *)
(* hold exactly the words that predict (component/fifo_model.sv, 19-52) has *)
(* in its queue after the same requests, word for word and in order, and    *)
(* F_Data shows the oldest.  A dropped write, an ignored read, another word *)
(* stored, or a clear or reset that leaves a word makes the two differ from *)
(* that step on.                                                            *)
ImplementsModel ==
  /\ queue = model_q
  /\ model_q # <<>> => F_Data = Head(model_q)
=============================================================================
