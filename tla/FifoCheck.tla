----------------------------- MODULE FifoCheck -----------------------------
(***************************************************************************)
(* The check that the environment makes in every clock cycle: the RTL and  *)
(* the reference model take the same inputs and the scoreboard             *)
(* (component/scb_fifo.sv) compares what they show.  The reset of the RTL  *)
(* is asynchronous, while the reference model learns of a reset only from  *)
(* the value of Rst_N that the monitor samples on a clock edge             *)
(* (component/monitor_fifo.sv).                                            *)
(*                                                                         *)
(* The inputs are arbitrary: the directed tests are some of the behaviours *)
(* of this specification.  To say for WHICH traffic the RTL and the model  *)
(* agree, the history variable `seen' holds the kinds of traffic that have *)
(* occurred since the last reset or clear.  No action depends on it.       *)
(***************************************************************************)
EXTENDS FifoRtl, Sequences

VARIABLES
  model_q,   (* queue of the reference model                            *)
  matched,   (* verdict of the last comparison of the scoreboard        *)
  seen       (* history: kinds of traffic since the last reset or clear *)

vars == <<rtlVars, model_q, matched, seen>>

model == INSTANCE FifoModel WITH FIFO_DEPTH <- FDEPTH

-----------------------------------------------------------------------------
(* Kinds of traffic.  The first six are about the requests a user makes,    *)
(* in terms of what the reference model holds and of how many words were    *)
(* written since the last clear, the last two about the registers' width    *)
(* and about the reset.                                                     *)
Kinds == {"Read",            \* a read with no write, of a stored word
          "ReadOnEmpty",     \* a read with no write, of an empty FIFO
          "WriteAfterRead",  \* a word stored after a "Read"
          "ReplaceOnEmpty",  \* a read and write of an empty FIFO
          "ReplaceOnFull",   \* a read and write of a full FIFO
          "PastEnd",         \* a word stored after FDEPTH write requests
          "PointerWrap",     \* wr_ptr wraps around at FMOD
          "UnseenReset"}     \* a reset that no clock edge has sampled yet

Empty == model_q = <<>>
Full  == Len(model_q) = FDEPTH

(* The reference model stores Data_In in this cycle. *)
Stores(WriteN, ReadN) ==
  WriteN = 0 /\ IF ReadN = 0 THEN ~Empty ELSE ~Full

KindsOf(WriteN, ReadN) ==
  {k \in Kinds :
     \/ k = "Read"           /\ WriteN = 1 /\ ReadN = 0 /\ ~Empty
     \/ k = "ReadOnEmpty"    /\ WriteN = 1 /\ ReadN = 0 /\ Empty
     \/ k = "WriteAfterRead" /\ Stores(WriteN, ReadN) /\ "Read" \in seen
     \/ k = "ReplaceOnEmpty" /\ WriteN = 0 /\ ReadN = 0 /\ Empty
     \/ k = "ReplaceOnFull"  /\ WriteN = 0 /\ ReadN = 0 /\ Full
     \/ k = "PastEnd"        /\ Stores(WriteN, ReadN) /\ wr_ptr >= FDEPTH
     \/ k = "PointerWrap"    /\ WriteN = 0 /\ wr_ptr = FMOD - 1}

-----------------------------------------------------------------------------
(* Variant: compares the data of an empty FIFO too. *)
compare_Always(actualFlags, actualData, q) ==
  LET e == model!Expected(q)
  IN  /\ actualFlags = <<e.F_EmptyN, e.F_FirstN, e.F_SLastN, e.F_LastN, e.F_FullN>>
      /\ actualData = e.F_Data

(* Variant: does not compare F_EmptyN. *)
compare_NotEmptyN(actualFlags, actualData, q) ==
  LET e == model!Expected(q)
  IN  /\ Tail(actualFlags) = <<e.F_FirstN, e.F_SLastN, e.F_LastN, e.F_FullN>>
      /\ model!data_valid(q) => actualData = e.F_Data

(* compare of the scoreboard: all five flags, and the data unless the model *)
(* predicts an empty FIFO.                                                  *)
compare(actualFlags, actualData, q) ==
  LET e == model!Expected(q)
  IN  /\ actualFlags = <<e.F_EmptyN, e.F_FirstN, e.F_SLastN, e.F_LastN, e.F_FullN>>
      /\ model!data_valid(q) => actualData = e.F_Data

CheckInit ==
  /\ RtlInit
  /\ model!ModelInit
  /\ matched = TRUE
  /\ seen = {}

(* One clock edge.  The monitor samples the inputs at the edge and, with    *)
(* input skew #0, the outputs after the registers have changed; check then  *)
(* calls predict with this transaction and compares.                        *)
Cycle(FClrN, FInN, FOutN, Data_In) ==
  /\ PosedgeClk(FClrN, FInN, FOutN, Data_In)
  /\ model!Predict(RstN, FClrN, FInN, FOutN, Data_In)
  /\ matched' = compare(flags', F_Data', model_q')
  /\ seen' = IF RstN = 0 \/ FClrN = 0 THEN {} ELSE seen \union KindsOf(FInN, FOutN)

(* Rst_N falls between two clock edges.  tb_top_fifo does this at time 0    *)
(* only; the RTL accepts it at any time.                                    *)
AssertReset ==
  /\ NegedgeRstN
  /\ seen' = seen \union {"UnseenReset"}
  /\ UNCHANGED <<model_q, matched>>

ReleaseReset ==
  /\ PosedgeRstN
  /\ UNCHANGED <<model_q, matched, seen>>

CheckNext ==
  \/ \E FClrN, FInN, FOutN \in Bit, Data_In \in Data :
       Cycle(FClrN, FInN, FOutN, Data_In)
  \/ AssertReset
  \/ ReleaseReset

CheckSpec == CheckInit /\ [][CheckNext]_vars

-----------------------------------------------------------------------------
(* Type invariant of the RTL, the reference model and the scoreboard. *)
TypeOK ==
  /\ RstN \in Bit
  /\ fcounter \in Count /\ rd_ptr \in Count /\ wr_ptr \in Count
  /\ F_EmptyN \in Bit /\ F_FirstN \in Bit /\ F_SLastN \in Bit
  /\ F_LastN \in Bit /\ F_FullN \in Bit
  /\ memblk!MemTypeOK
  /\ model!ModelTypeOK
  /\ matched \in BOOLEAN
  /\ seen \subseteq Kinds

Avoided(kinds) == seen \intersect kinds = {}

expected == model!Expected(model_q)

(* Whatever else happened since the last clear, the counter and all five    *)
(* flags show the occupancy of the reference model until a word is read     *)
(* without a write or a simultaneous read and write meets an empty or full  *)
(* FIFO: overfilling, reading when empty and running past the end of the    *)
(* memory do not disturb them.  (Blocks of rtl/fifo.v lines 92-273.)        *)
FlagsShowOccupancy ==
  Avoided({"Read", "ReplaceOnEmpty", "ReplaceOnFull", "UnseenReset"}) =>
    /\ fcounter = Len(model_q)
    /\ F_EmptyN = expected.F_EmptyN
    /\ F_FirstN = expected.F_FirstN
    /\ F_SLastN = expected.F_SLastN
    /\ F_LastN  = expected.F_LastN
    /\ F_FullN  = expected.F_FullN

(* The three flags of the upper end survive reads too: filling and then     *)
(* draining keeps them right although fcounter, F_EmptyN and F_FirstN are   *)
(* wrong by then, because on the way down each flag is derived from the one *)
(* above it and not from fcounter.  (rtl/fifo.v lines 204-273.)             *)
UpperFlagsShowOccupancy ==
  Avoided({"WriteAfterRead", "ReplaceOnEmpty", "ReplaceOnFull", "UnseenReset"}) =>
    /\ F_SLastN = expected.F_SLastN
    /\ F_LastN  = expected.F_LastN
    /\ F_FullN  = expected.F_FullN

(* Words come out whole and in order, whatever the flags say, as long as no *)
(* read meets an empty FIFO and no word is stored past the end of the       *)
(* memory.  (The pointers, rtl/fifo.v 117-124, and the memory, 303-310.)    *)
DataInOrder ==
  Avoided({"ReadOnEmpty", "PastEnd", "PointerWrap", "UnseenReset"}) =>
    (~Empty => F_Data = expected.F_Data)

(* The scoreboard reports no error while the traffic since the last clear   *)
(* is of no listed kind: fill, idle, overfill, replace, clear.              *)
CleanTrafficMatches == seen = {} => matched

(* The kinds of traffic that set a flag or the counter wrong. *)
Upsetting == {"Read", "ReplaceOnEmpty", "ReplaceOnFull"}

(* The converse: the first request of a kind that upsets the flags fails    *)
(* the comparison (scb_fifo.sv lines 86-117) of the very cycle that takes  *)
(* it, whatever came before it.  No later request can put the flags right   *)
(* before the scoreboard looks.                                             *)
UpsetIsReported ==
  [][Avoided(Upsetting \union {"UnseenReset"}) /\ ~Avoided(Upsetting)' => ~matched']_vars

(* Under any traffic whatever, a FIFO that reports full has its write       *)
(* pointer outside the memory until the pointer has wrapped around, so an   *)
(* overfilling write is lost and overwrites nothing, although neither the   *)
(* pointer (line 117) nor the memory (line 308) looks at F_FullN.           *)
FullIsPastEnd ==
  F_FullN = 0 /\ "PointerWrap" \notin seen => wr_ptr >= FDEPTH

(* Under any traffic whatever the flags exclude each other this far: full   *)
(* is never empty, and any flag of a filled FIFO implies F_FirstN.          *)
FlagsConsistent ==
  /\ F_FullN = 0 => F_EmptyN = 1
  /\ (F_EmptyN = 1 \/ F_SLastN = 0 \/ F_LastN = 0 \/ F_FullN = 0) => F_FirstN = 0
=============================================================================
