----------------------------- MODULE FifoMemBlk -----------------------------
(***************************************************************************)
(* The memory block FIFO_MEM_BLK of rtl/fifo.v: FDEPTH words, written on   *)
(* the clock edge and read combinationally.  It has no reset and is not    *)
(* told whether the FIFO is full, so it stores whatever writeN tells it to.*)
(*                                                                         *)
(* The address ports are as wide as the data (FWIDTH bits), so an address  *)
(* can lie outside the array.  Verilog ignores a write there and reads the *)
(* unknown value X.                                                        *)
(***************************************************************************)
EXTENDS Integers

CONSTANTS
  FDEPTH,   (* number of words of the memory *)
  Data,     (* the words that can be written *)
  X         (* the unknown value of a word that no one wrote *)

VARIABLE FIFO   (* reg [FWIDTH-1:0] FIFO[0:FDEPTH-1] *)

Addresses == 0 .. FDEPTH - 1

Word == Data \union {X}

MemTypeOK == FIFO \in [Addresses -> Word]

MemInit == FIFO = [a \in Addresses |-> X]

(* assign data_out = FIFO[rd_addr] *)
data_out(rd_addr) == IF rd_addr \in Addresses THEN FIFO[rd_addr] ELSE X

(* Variant: an address port of FCWIDTH bits, which wraps around at FDEPTH. *)
MemPosedge_Wraps(writeN, wr_addr, data_in) ==
  FIFO' = IF writeN = 0 THEN [FIFO EXCEPT ![wr_addr % FDEPTH] = data_in] ELSE FIFO

(* always @(posedge clk): only a low writeN stores, and only inside the array. *)
MemPosedge(writeN, wr_addr, data_in) ==
  FIFO' = IF writeN = 0 /\ wr_addr \in Addresses
            THEN [FIFO EXCEPT ![wr_addr] = data_in]
            ELSE FIFO
=============================================================================
