--------------------------- MODULE FifoUserProofs ---------------------------
(***************************************************************************)
(* Proofs about FifoUser for every depth, register width and set of words. *)
(***************************************************************************)
EXTENDS FifoUser, TLAPS

(* What CounterIsExact rests on: the types, that the counter does not exceed *)
(* the depth, and that F_EmptyN is deasserted only while there is a word.    *)
ObedientInv ==
  /\ rd_ptr \in Count /\ wr_ptr \in Count /\ RstN \in Bit
  /\ F_EmptyN \in Bit /\ F_SLastN \in Bit /\ F_LastN \in Bit /\ F_FullN \in Bit
  /\ fcounter \in 0 .. FDEPTH
  /\ F_EmptyN = 1 => fcounter > 0 /\ F_FirstN = 0
  /\ CounterIsExact

LEMMA ObedientInitInv == RtlInit => ObedientInv
BY RtlAssumption DEF RtlInit, ObedientInv, CounterIsExact, Ahead, Count, Bit

(* A clear or a reset establishes the invariant. *)
LEMMA ObedientCleared ==
  ASSUME NEW WriteN, NEW ReadN, Registers(TRUE, WriteN, ReadN), RstN' \in Bit
  PROVE  ObedientInv'
<1>1. /\ fcounter' = 0 /\ rd_ptr' = 0 /\ wr_ptr' = 0 /\ F_EmptyN' = 0
      /\ F_SLastN' = 1 /\ F_LastN' = 1 /\ F_FullN' = 1
  BY DEF Registers, Control, EmptyFlag, SLastFlag, LastFlag, FullFlag
<1> QED
  BY <1>1, RtlAssumption DEF ObedientInv, CounterIsExact, Ahead, Count, Bit

(* A request that the flags allow preserves it. *)
LEMMA ObedientRequestStep ==
  ASSUME ObedientInv, NEW FInN \in Bit, NEW FOutN \in Bit, Obeys(FInN, FOutN),
         Registers(FALSE, FInN, FOutN), RstN' \in Bit
  PROVE  ObedientInv'
<1>1. /\ FDEPTH \in Nat /\ FDEPTH >= 3 /\ FMOD \in Nat /\ FDEPTH < FMOD
      /\ rd_ptr \in 0 .. FMOD - 1 /\ wr_ptr \in 0 .. FMOD - 1 /\ fcounter \in 0 .. FDEPTH
      /\ fcounter = Ahead
  BY RtlAssumption DEF ObedientInv, CounterIsExact, Count
<1>2. /\ wr_ptr' = IF FInN = 0 THEN Inc(wr_ptr) ELSE wr_ptr
      /\ rd_ptr' = IF FOutN = 0 THEN Inc(rd_ptr) ELSE rd_ptr
      /\ fcounter' = CountAfter(FInN, FOutN)
  BY DEF Registers, Control
<1>3. /\ FInN = 0 => F_FullN = 1 /\ fcounter < FDEPTH
      /\ FOutN = 0 => F_EmptyN = 1 /\ fcounter > 0
  BY <1>1 DEF Obeys, ObedientInv, CounterIsExact
<1>4. fcounter' = IF FInN = 0 /\ FOutN = 1 THEN fcounter + 1
                  ELSE IF FInN = 1 /\ FOutN = 0 THEN fcounter - 1
                  ELSE fcounter
  BY <1>1, <1>2, <1>3 DEF CountAfter, Inc, Dec
<1>5. fcounter' = Ahead' /\ rd_ptr' \in Count /\ wr_ptr' \in Count
      /\ fcounter' \in 0 .. FDEPTH
  BY <1>1, <1>2, <1>3, <1>4 DEF Ahead, Inc, Count, Bit
<1>6. F_EmptyN' \in Bit /\ (F_EmptyN' = 1 => fcounter' > 0 /\ F_FirstN' = 0)
  BY <1>1, <1>3, <1>4
  DEF Registers, EmptyFlag, FirstFlag, FirstAsserts, ObedientInv, Bit
<1>7. F_SLastN' \in Bit /\ (F_SLastN' = 0 <=> fcounter' = FDEPTH - 2)
  BY <1>1, <1>3, <1>4 DEF Registers, SLastFlag, SLastAsserts, ObedientInv, CounterIsExact, Bit
<1>8. F_LastN' \in Bit /\ (F_LastN' = 0 <=> fcounter' = FDEPTH - 1)
  BY <1>1, <1>3, <1>4 DEF Registers, LastFlag, LastAsserts, ObedientInv, CounterIsExact, Bit
<1>9. F_FullN' \in Bit /\ (F_FullN' = 0 <=> fcounter' = FDEPTH)
  BY <1>1, <1>3, <1>4 DEF Registers, FullFlag, FullAsserts, ObedientInv, CounterIsExact, Bit
<1> QED
  BY <1>5, <1>6, <1>7, <1>8, <1>9 DEF ObedientInv, CounterIsExact

LEMMA ObedientStep == ObedientInv /\ [ObedientNext]_rtlVars => ObedientInv'
<1> SUFFICES ASSUME ObedientInv, [ObedientNext]_rtlVars PROVE ObedientInv'
  OBVIOUS
<1>1. RstN \in Bit
  BY DEF ObedientInv
<1>2. CASE ObedientRequest
  <2>1. PICK FInN \in Bit, FOutN \in Bit, Data_In \in Data :
          Obeys(FInN, FOutN) /\ PosedgeClk(1, FInN, FOutN, Data_In)
    BY <1>2 DEF ObedientRequest
  <2>2. RstN' = RstN /\ Registers(RstN = 0, FInN, FOutN)
    BY <2>1 DEF PosedgeClk
  <2>3. CASE RstN = 0
    <3>1. Registers(TRUE, FInN, FOutN)
      BY <2>2, <2>3
    <3> QED
      BY <1>1, <2>2, <3>1, ObedientCleared
  <2>4. CASE RstN # 0
    <3>1. Registers(FALSE, FInN, FOutN)
      BY <2>2, <2>4
    <3> QED
      BY <1>1, <2>1, <2>2, <3>1, ObedientRequestStep
  <2> QED
    BY <2>3, <2>4
<1>3. CASE Clear
  <2>1. PICK FInN \in Bit, FOutN \in Bit, Data_In \in Data :
          PosedgeClk(0, FInN, FOutN, Data_In)
    BY <1>3 DEF Clear
  <2>2. RstN' = RstN /\ Registers(TRUE, FInN, FOutN)
    BY <2>1 DEF PosedgeClk
  <2> QED
    BY <1>1, <2>2, ObedientCleared
<1>4. CASE NegedgeRstN
  <2>1. Registers(TRUE, 1, 1) /\ RstN' \in Bit
    BY <1>4 DEF NegedgeRstN, Bit
  <2> QED
    BY <2>1, ObedientCleared
<1>5. CASE PosedgeRstN
  BY <1>5 DEF PosedgeRstN, pointers, flags, ObedientInv, CounterIsExact, Ahead, Bit
<1>6. CASE UNCHANGED rtlVars
  BY <1>6 DEF rtlVars, ObedientInv, CounterIsExact, Ahead
<1> QED
  BY <1>2, <1>3, <1>4, <1>5, <1>6 DEF ObedientNext, Reset

(* For a user who obeys F_EmptyN and F_FullN the counter and the flags of    *)
(* the upper end are exact for ever.                                         *)
THEOREM ObedientCounter == ObedientSpec => []CounterIsExact
<1>1. ObedientInv => CounterIsExact
  BY DEF ObedientInv
<1> QED
  BY <1>1, ObedientInitInv, ObedientStep, PTL DEF ObedientSpec

(* Such a user never reads an empty FIFO and never writes to a full one.     *)
THEOREM ObedientNeverMisled == ObedientSpec => []NeverMisled
<1>1. ObedientInv => NeverMisled
  BY RtlAssumption DEF ObedientInv, CounterIsExact, NeverMisled, Ahead, Count
<1> QED
  BY <1>1, ObedientInitInv, ObedientStep, PTL DEF ObedientSpec
=============================================================================
