------------------------------ MODULE FifoRtl ------------------------------
(***************************************************************************)
(* The device under test, module `fifo' of rtl/fifo.v: a first-word        *)
(* fall-through FIFO of FDEPTH words with active-low requests and flags.   *)
(*                                                                         *)
(* Every `always' block of the RTL is one operator below that gives the    *)
(* next value of the registers the block assigns.  Nonblocking assignments *)
(* all read the values before the edge, which is what unprimed variables   *)
(* are, so a clock edge is the conjunction of the blocks.                  *)
(*                                                                         *)
(* The names, the active-low values (0 is asserted) and the polarity are   *)
(* those of the RTL.                                                       *)
(***************************************************************************)
EXTENDS Integers

CONSTANTS
  FDEPTH,   (* `FDEPTH, the number of words: 4 in the code                  *)
  FMOD,     (* number of values of a FWIDTH-bit register: 2^32 in the code  *)
  Data,     (* the words that can appear on Data_In                         *)
  X         (* the unknown value                                            *)

ASSUME RtlAssumption ==
  /\ FDEPTH \in Nat /\ FDEPTH >= 3
  /\ FMOD \in Nat /\ FMOD > FDEPTH
  /\ X \notin Data

VARIABLES
  RstN,       (* the asynchronous reset input                     *)
  fcounter,   (* what the RTL takes for the number of words       *)
  rd_ptr,     (* read pointer, FWIDTH bits wide                   *)
  wr_ptr,     (* write pointer, FWIDTH bits wide                  *)
  F_EmptyN,   (* registered status flags, active low              *)
  F_FirstN,
  F_SLastN,
  F_LastN,
  F_FullN,
  FIFO        (* the array inside the instance memblk             *)

pointers == <<fcounter, rd_ptr, wr_ptr>>
flags    == <<F_EmptyN, F_FirstN, F_SLastN, F_LastN, F_FullN>>
rtlVars  == <<RstN, fcounter, rd_ptr, wr_ptr,
              F_EmptyN, F_FirstN, F_SLastN, F_LastN, F_FullN, FIFO>>

memblk == INSTANCE FifoMemBlk

Bit   == {0, 1}
Count == 0 .. FMOD - 1     (* the values of a FWIDTH-bit register *)

(* Unsigned FWIDTH-bit arithmetic wraps around at both ends. *)
Inc(r) == IF r = FMOD - 1 THEN 0 ELSE r + 1
Dec_NoWrap(r) == r - 1     (* variant: forgets the wrap-around *)

Dec(r) == IF r = 0 THEN FMOD - 1 ELSE r - 1

(* assign F_Data = FIFODataOut *)
F_Data == memblk!data_out(rd_ptr)

-----------------------------------------------------------------------------
(* Every block has the same outer structure: a reset branch, a clear branch *)
(* with the same values, and the branches for the requests.  `clear' says   *)
(* that one of the first two is taken.                                      *)

(* Variant: counts a write that does not fit. *)
CountAfter_IgnoresFull(WriteN, ReadN) ==
  IF WriteN = 0 /\ ReadN = 1                      THEN Inc(fcounter)
  ELSE IF WriteN = 1 /\ ReadN = 0 /\ F_EmptyN = 1 THEN Dec(fcounter)
  ELSE fcounter

(* The counter is the only register that looks at F_FullN and F_EmptyN. *)
CountAfter(WriteN, ReadN) ==
  IF WriteN = 0 /\ ReadN = 1 /\ F_FullN = 1       THEN Inc(fcounter)
  ELSE IF WriteN = 1 /\ ReadN = 0 /\ F_EmptyN = 1 THEN Dec(fcounter)
  ELSE fcounter

(* Variant: a read that F_EmptyN does not allow leaves the read pointer. *)
Control_ReadGuarded(clear, WriteN, ReadN) ==
  IF clear
    THEN fcounter' = 0 /\ rd_ptr' = 0 /\ wr_ptr' = 0
    ELSE /\ fcounter' = CountAfter(WriteN, ReadN)
         /\ wr_ptr' = IF WriteN = 0 THEN Inc(wr_ptr) ELSE wr_ptr
         /\ rd_ptr' = IF ReadN = 0 /\ F_EmptyN = 1 THEN Inc(rd_ptr) ELSE rd_ptr

(* The control circuitry: the pointers move on every request. *)
Control(clear, WriteN, ReadN) ==
  IF clear
    THEN fcounter' = 0 /\ rd_ptr' = 0 /\ wr_ptr' = 0
    ELSE /\ fcounter' = CountAfter(WriteN, ReadN)
         /\ wr_ptr' = IF WriteN = 0 THEN Inc(wr_ptr) ELSE wr_ptr
         /\ rd_ptr' = IF ReadN = 0 THEN Inc(rd_ptr) ELSE rd_ptr

(* The conditions under which the blocks of the flags assert (0) a flag; a  *)
(* block looks at deasserting (1) it only when this is false.               *)
FirstAsserts(WriteN, ReadN) ==
  \/ F_EmptyN = 0 /\ WriteN = 0
  \/ fcounter = 2 /\ ReadN = 0 /\ WriteN = 1
  \/ F_FirstN = 0 /\ WriteN # ReadN   \* the branch `else if' also assigns 0

SLastAsserts(WriteN, ReadN) ==
  \/ F_LastN = 0 /\ ReadN = 0 /\ WriteN = 1
  \/ fcounter = FDEPTH - 3 /\ WriteN = 0 /\ ReadN = 1

(* Variant: does not come down from full. *)
LastAsserts_OnlyUp(WriteN, ReadN) ==
  fcounter = FDEPTH - 2 /\ WriteN = 0 /\ ReadN = 1

LastAsserts(WriteN, ReadN) ==
  \/ F_FullN = 0 /\ ReadN = 0
  \/ fcounter = FDEPTH - 2 /\ WriteN = 0 /\ ReadN = 1

(* Variant: looks at the flag for two free words instead of one. *)
FullAsserts_TwoEarly(WriteN, ReadN) ==
  F_SLastN = 0 /\ WriteN = 0 /\ ReadN = 1

FullAsserts(WriteN, ReadN) ==
  F_LastN = 0 /\ WriteN = 0 /\ ReadN = 1

(* Variant: takes a simultaneous read and write for a read. *)
EmptyFlag_AnyRead(clear, WriteN, ReadN) ==
  F_EmptyN' = IF clear                            THEN 0
              ELSE IF F_EmptyN = 0 /\ WriteN = 0  THEN 1
              ELSE IF F_FirstN = 0 /\ ReadN = 0   THEN 0
              ELSE F_EmptyN

EmptyFlag(clear, WriteN, ReadN) ==
  F_EmptyN' = IF clear                                        THEN 0
              ELSE IF F_EmptyN = 0 /\ WriteN = 0              THEN 1
              ELSE IF F_FirstN = 0 /\ ReadN = 0 /\ WriteN = 1 THEN 0
              ELSE F_EmptyN

(* No branch but clear and reset deasserts F_FirstN. *)
FirstFlag(clear, WriteN, ReadN) ==
  F_FirstN' = IF clear                            THEN 1
              ELSE IF FirstAsserts(WriteN, ReadN) THEN 0
              ELSE F_FirstN

(* Variant: survives reset and clear. *)
SLastFlag_NotCleared(clear, WriteN, ReadN) ==
  F_SLastN' = IF SLastAsserts(WriteN, ReadN)          THEN 0
              ELSE IF F_SLastN = 0 /\ ReadN # WriteN  THEN 1
              ELSE F_SLastN

SLastFlag(clear, WriteN, ReadN) ==
  F_SLastN' = IF clear                                THEN 1
              ELSE IF SLastAsserts(WriteN, ReadN)     THEN 0
              ELSE IF F_SLastN = 0 /\ ReadN # WriteN  THEN 1
              ELSE F_SLastN

LastFlag(clear, WriteN, ReadN) ==
  F_LastN' = IF clear                               THEN 1
             ELSE IF LastAsserts(WriteN, ReadN)     THEN 0
             ELSE IF F_LastN = 0 /\ ReadN # WriteN  THEN 1
             ELSE F_LastN

FullFlag(clear, WriteN, ReadN) ==
  F_FullN' = IF clear                           THEN 1
             ELSE IF FullAsserts(WriteN, ReadN) THEN 0
             ELSE IF F_FullN = 0 /\ ReadN = 0   THEN 1
             ELSE F_FullN

-----------------------------------------------------------------------------
(* All the blocks that are sensitive to the clock and to the reset *)
Registers(clear, WriteN, ReadN) ==
  /\ Control(clear, WriteN, ReadN)
  /\ EmptyFlag(clear, WriteN, ReadN)
  /\ FirstFlag(clear, WriteN, ReadN)
  /\ SLastFlag(clear, WriteN, ReadN)
  /\ LastFlag(clear, WriteN, ReadN)
  /\ FullFlag(clear, WriteN, ReadN)

(* Time 0 of a simulation: the falling edge of RstN has reset the registers *)
(* and no one has written the memory.                                       *)
RtlInit ==
  /\ RstN = 0
  /\ fcounter = 0 /\ rd_ptr = 0 /\ wr_ptr = 0
  /\ F_EmptyN = 0
  /\ F_FirstN = 1 /\ F_SLastN = 1 /\ F_LastN = 1 /\ F_FullN = 1
  /\ memblk!MemInit

(* posedge Clk with the inputs that are on the pins at the edge.  The memory *)
(* block has neither reset nor clear.                                        *)
PosedgeClk(FClrN, FInN, FOutN, Data_In) ==
  /\ Registers(RstN = 0 \/ FClrN = 0, FInN, FOutN)
  /\ memblk!MemPosedge(FInN, wr_ptr, Data_In)
  /\ UNCHANGED RstN

(* negedge RstN runs the same blocks, all in their reset branch. *)
NegedgeRstN ==
  /\ RstN = 1
  /\ RstN' = 0
  /\ Registers(TRUE, 1, 1)
  /\ UNCHANGED FIFO

(* Releasing RstN triggers no block. *)
PosedgeRstN ==
  /\ RstN = 0
  /\ RstN' = 1
  /\ UNCHANGED <<pointers, flags, FIFO>>

RtlNext ==
  \/ \E FClrN, FInN, FOutN \in Bit, Data_In \in Data :
       PosedgeClk(FClrN, FInN, FOutN, Data_In)
  \/ NegedgeRstN
  \/ PosedgeRstN

RtlSpec == RtlInit /\ [][RtlNext]_rtlVars
=============================================================================
