----------------------------- MODULE FifoModel -----------------------------
(***************************************************************************)
(* The reference model, class fifo_model of component/fifo_model.sv: a     *)
(* queue of words from which the data and the five flags are predicted.    *)
(* It is the project's statement of what the FIFO promises.                *)
(***************************************************************************)
EXTENDS Integers, Sequences

CONSTANTS
  FIFO_DEPTH,   (* localparam FIFO_DEPTH: 4 in the code *)
  Data,         (* the words                            *)
  X             (* 'x, predicted when there is no word  *)

VARIABLE model_q   (* bit [31:0] model_q[$] *)

ModelTypeOK ==
  /\ model_q \in Seq(Data)
  /\ Len(model_q) <= FIFO_DEPTH

ModelInit == model_q = <<>>

-----------------------------------------------------------------------------
(* The branches of predict that change the queue, as functions of it. *)

(* write only: ignored when full *)
Pushed(q, Data_In) == IF Len(q) < FIFO_DEPTH THEN Append(q, Data_In) ELSE q

(* read only: ignored when empty *)
Popped(q) == IF q # <<>> THEN Tail(q) ELSE q

(* read and write: the new word replaces the oldest, nothing when empty *)
Replaced(q, Data_In) == IF q # <<>> THEN Append(Tail(q), Data_In) ELSE q

(* The queue after predict has consumed one monitored transaction. *)
NextQ(q, Rst_N, FClrN, FInN, FOutN, Data_In) ==
  IF Rst_N = 0 \/ FClrN = 0        THEN <<>>
  ELSE IF FInN = 0 /\ FOutN = 1    THEN Pushed(q, Data_In)
  ELSE IF FInN = 1 /\ FOutN = 0    THEN Popped(q)
  ELSE IF FInN = 0 /\ FOutN = 0    THEN Replaced(q, Data_In)
  ELSE q

Predict(Rst_N, FClrN, FInN, FOutN, Data_In) ==
  model_q' = NextQ(model_q, Rst_N, FClrN, FInN, FOutN, Data_In)

-----------------------------------------------------------------------------
(* The transaction that predict returns, as a function of the queue it left. *)
ActiveLow(asserted) == IF asserted THEN 0 ELSE 1

data_valid(q) == Len(q) > 0

Expected(q) ==
  [F_EmptyN |-> ActiveLow(Len(q) = 0),
   F_FirstN |-> ActiveLow(Len(q) >= 1),
   F_SLastN |-> ActiveLow(Len(q) = FIFO_DEPTH - 2),
   F_LastN  |-> ActiveLow(Len(q) = FIFO_DEPTH - 1),
   F_FullN  |-> ActiveLow(Len(q) = FIFO_DEPTH),
   F_Data   |-> IF data_valid(q) THEN Head(q) ELSE X]
=============================================================================
