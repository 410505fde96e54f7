-------------------------- MODULE FifoTestsProofs --------------------------
(***************************************************************************)
(* Proofs about how the directed tests end, for every draw of their words, *)
(* every register width and every depth of up to 5 words; 4 in the code.   *)
(* With 6 words or more multiple_rw would not reach the end of the memory. *)
(***************************************************************************)
EXTENDS FifoSerialProofs, FifoTests

(* The requests of the test *)
requests == Script(test)

-----------------------------------------------------------------------------
(* The step that takes a request *)

LEMMA RequestTaken ==
  ASSUME SerialInv, CheckRequest
  PROVE  /\ checked \in Nat /\ checked < Len(requests) /\ Len(requests) \in Nat
         /\ checked' = checked + 1 /\ requests' = requests /\ RstN = 1
         /\ next_tx = requests[checked + 1]
         /\ next_tx.ctl.FClrN \in Bit /\ next_tx.ctl.FInN \in Bit /\ next_tx.ctl.FOutN \in Bit
         /\ next_tx.Data_In \in Data
         /\ Cycle(next_tx.ctl.FClrN, next_tx.ctl.FInN, next_tx.ctl.FOutN, next_tx.Data_In)
<1>1. /\ checked < Len(Script(test)) /\ checked' = checked + 1 /\ RstN = 1 /\ test' = test
      /\ Cycle(next_tx.ctl.FClrN, next_tx.ctl.FInN, next_tx.ctl.FOutN, next_tx.Data_In)
  BY DEF CheckRequest, next_tx
<1>2. checked \in Nat /\ Len(Script(test)) \in Nat
  BY ScriptTyped DEF SerialInv
<1>3. requests' = requests
  BY <1>1 DEF requests, Script
<1> QED
  BY <1>1, <1>2, <1>3, RequestOfTest DEF requests, next_tx

(* A request with clear *)
LEMMA ClearTaken ==
  ASSUME SerialInv, CheckRequest, next_tx.ctl.FClrN = 0
  PROVE  rd_ptr' = 0 /\ wr_ptr' = 0 /\ model_q' = <<>> /\ seen' = {}
BY RequestTaken, CycleClears

(* A request without *)
LEMMA OperationTaken ==
  ASSUME SerialInv, TypeOK, CheckRequest, next_tx.ctl.FClrN = 1
  PROVE  /\ rd_ptr' = IF next_tx.ctl.FOutN = 0 THEN Inc(rd_ptr) ELSE rd_ptr
         /\ wr_ptr' = IF next_tx.ctl.FInN = 0 THEN Inc(wr_ptr) ELSE wr_ptr
         /\ Len(model_q') = IF next_tx.ctl.FInN = 0 /\ next_tx.ctl.FOutN = 1 /\ ~Full
                              THEN Len(model_q) + 1
                            ELSE IF next_tx.ctl.FInN = 1 /\ next_tx.ctl.FOutN = 0 /\ ~Empty
                              THEN Len(model_q) - 1
                            ELSE Len(model_q)
         /\ seen' = seen \union KindsOf(next_tx.ctl.FInN, next_tx.ctl.FOutN)
<1>1. ~(RstN = 0 \/ next_tx.ctl.FClrN = 0)
  BY RequestTaken
<1>2. /\ Registers(FALSE, next_tx.ctl.FInN, next_tx.ctl.FOutN)
      /\ seen' = seen \union KindsOf(next_tx.ctl.FInN, next_tx.ctl.FOutN)
  BY <1>1, RequestTaken, CycleRuns
<1> QED
  BY <1>1, <1>2, RequestTaken, CycleOccupancy DEF Registers, Control

(* The word behind the first one in the memory *)
LEMMA SecondWord ==
  ASSUME SerialInv, TypeOK, CheckRequest
  PROVE  FIFO'[1] = IF next_tx.ctl.FInN = 0 /\ wr_ptr = 1 THEN next_tx.Data_In ELSE FIFO[1]
<1>1. memblk!MemPosedge(next_tx.ctl.FInN, wr_ptr, next_tx.Data_In)
  BY RequestTaken DEF Cycle, PosedgeClk
<1>2. 1 \in memblk!Addresses
  BY RtlAssumption DEF memblk!Addresses
<1> QED
  BY <1>1, <1>2 DEF memblk!MemPosedge, TypeOK, memblk!MemTypeOK

(* A write to an empty FIFO *)
LEMMA FirstWord ==
  ASSUME SerialInv, TypeOK, CheckRequest, next_tx.ctl = Controls["WRITE"], model_q = <<>>
  PROVE  model_q' # <<>> /\ Head(model_q') = next_tx.Data_In
<1>1. next_tx.ctl.FClrN = 1 /\ next_tx.ctl.FInN = 0 /\ next_tx.ctl.FOutN = 1
  BY DEF Controls
<1>2. model_q' = model!Pushed(<<>>, next_tx.Data_In)
  <2>1. /\ Cycle(next_tx.ctl.FClrN, next_tx.ctl.FInN, next_tx.ctl.FOutN, next_tx.Data_In)
        /\ ~(RstN = 0 \/ next_tx.ctl.FClrN = 0)
    BY <1>1, RequestTaken
  <2> QED
    BY <1>1, <2>1 DEF Cycle, model!Predict, model!NextQ
<1>3. model_q' = <<next_tx.Data_In>>
  BY <1>2, RtlAssumption, EmptySeq DEF model!Pushed
<1> QED
  BY <1>3

LEMMA NextQueue ==
  ASSUME TypeOK'
  PROVE  /\ model_q' \in Seq(Data) /\ Len(model_q') \in Nat
         /\ (model_q' = <<>> <=> Len(model_q') = 0)
BY LenProperties, EmptySeq DEF TypeOK, model!ModelTypeOK

(* The scoreboard compares the data of a FIFO that is not empty. *)
LEMMA DataCompared ==
  ASSUME SerialInv, TypeOK', CheckRequest, matched', model_q' # <<>>
  PROVE  F_Data' = Head(model_q')
<1>1. matched' = compare(flags', F_Data', model_q')
  BY RequestTaken DEF Cycle
<1>2. Len(model_q') > 0
  BY NextQueue
<1> QED
  BY <1>1, <1>2 DEF compare, model!Expected, model!data_valid

(* While the flags are right that is all that matters. *)
LEMMA OnlyDataCompared ==
  ASSUME SerialInv, TypeOK', FlagsShowOccupancy', CheckRequest,
         Avoided(Upsetting \union {"UnseenReset"})'
  PROVE  matched' <=> (model_q' = <<>> \/ F_Data' = Head(model_q'))
<1>1. matched' = compare(flags', F_Data', model_q')
  BY RequestTaken DEF Cycle
<1>2. model_q' = <<>> <=> ~(Len(model_q') > 0)
  BY NextQueue
<1>3. Avoided({"Read", "ReplaceOnEmpty", "ReplaceOnFull", "UnseenReset"})'
  BY DEF Avoided, Upsetting
<1>4. flags' = <<expected'.F_EmptyN, expected'.F_FirstN, expected'.F_SLastN,
                 expected'.F_LastN, expected'.F_FullN>>
  BY <1>3 DEF FlagsShowOccupancy, flags
<1> QED
  BY <1>1, <1>2, <1>4 DEF compare, expected, model!Expected, model!data_valid
LEMMA Codes ==
  /\ Controls["WRITE"].FClrN = 1 /\ Controls["WRITE"].FInN = 0 /\ Controls["WRITE"].FOutN = 1
  /\ Controls["READ"].FClrN = 1 /\ Controls["READ"].FInN = 1 /\ Controls["READ"].FOutN = 0
  /\ Controls["IDLE"].FClrN = 1 /\ Controls["IDLE"].FInN = 1 /\ Controls["IDLE"].FOutN = 1
  /\ Controls["READ_WRITE"].FClrN = 1 /\ Controls["READ_WRITE"].FInN = 0
  /\ Controls["READ_WRITE"].FOutN = 0
BY DEF Controls

(* What is of no listed kind, or only of the kind that does not upset *)
LEMMA HarmlessKinds ==
  /\ KindsOf(1, 1) = {}
  /\ Empty => KindsOf(1, 0) \subseteq {"ReadOnEmpty"}
  /\ "Read" \notin seen /\ wr_ptr \in 0 .. FDEPTH - 1 =>
       /\ KindsOf(0, 1) = {}
       /\ ~Empty /\ ~Full => KindsOf(0, 0) = {}
<1>1. wr_ptr \in 0 .. FDEPTH - 1 => ~(wr_ptr >= FDEPTH) /\ wr_ptr # FMOD - 1
  BY RtlAssumption
<1>2. KindsOf(1, 1) = {}
  BY DEF KindsOf, Stores
<1>3. Empty => KindsOf(1, 0) \subseteq {"ReadOnEmpty"}
  BY DEF KindsOf, Stores
<1>4. "Read" \notin seen /\ wr_ptr \in 0 .. FDEPTH - 1 => KindsOf(0, 1) = {}
  BY <1>1 DEF KindsOf
<1>5. "Read" \notin seen /\ wr_ptr \in 0 .. FDEPTH - 1 /\ ~Empty /\ ~Full => KindsOf(0, 0) = {}
  BY <1>1 DEF KindsOf
<1> QED
  BY <1>2, <1>3, <1>4, <1>5

-----------------------------------------------------------------------------
(* What is known of every test *)

(* Before the first request nothing has happened. *)
Fresh ==
  checked = 0 =>
    model_q = <<>> /\ rd_ptr = 0 /\ wr_ptr = 0 /\ FIFO[1] = X /\ seen = {}

Known ==
  SerialInv /\ TypeOK /\ FlagsShowOccupancy /\ CleanTrafficMatches /\ Gentle /\ Fresh

(* All but the requests leave alone what the invariants below are about. *)
LEMMA OtherSteps ==
  ASSUME [SerialNext]_serialVars, ~CheckRequest
  PROVE  /\ UNCHANGED <<checked, errors, model_q, rd_ptr, wr_ptr, FIFO, seen>>
         /\ requests' = requests
BY DEF SerialNext, StartTest, ReleaseReset, PosedgeRstN, pointers, serialVars, vars, rtlVars,
       requests, Script

LEMMA FreshStep == ASSUME SerialInv, Fresh, [SerialNext]_serialVars PROVE Fresh'
<1>1. CASE CheckRequest
  BY <1>1, RequestTaken DEF Fresh
<1>2. CASE ~CheckRequest
  BY <1>2, OtherSteps DEF Fresh
<1> QED
  BY <1>1, <1>2

LEMMA KnownOfTests == SerialSpec => []Known
<1>1. SerialInit => Fresh
  BY RtlAssumption
  DEF SerialInit, CheckInit, RtlInit, memblk!MemInit, memblk!Addresses, model!ModelInit, Fresh
<1>2. SerialInv /\ Fresh /\ [SerialNext]_serialVars => Fresh'
  BY FreshStep
<1>3. SerialSpec => []Fresh
  BY <1>1, <1>2, SerialTyping, PTL DEF SerialSpec
<1>4. SerialSpec => []TypeOK /\ []FlagsShowOccupancy /\ []CleanTrafficMatches
  BY SerialImplementsCheck, Typing, FlagsShow, CleanMatches, PTL
<1>5. SerialInv /\ TypeOK /\ FlagsShowOccupancy /\ CleanTrafficMatches /\ Gentle /\ Fresh
        => Known
  BY DEF Known
<1> QED
  BY <1>3, <1>4, <1>5, SerialTyping, PassingTestsAreGentle, PTL

-----------------------------------------------------------------------------
(* The tests that write first, do not clear and later read: nothing can     *)
(* empty the FIFO again without an error, so the read takes a stored word.  *)

WritesThenReads ==
  /\ Len(requests) >= 1 /\ requests[1].ctl = Controls["WRITE"]
  /\ \A i \in 1 .. Len(requests) : requests[i].ctl.FClrN = 1
  /\ \E i \in 1 .. Len(requests) : requests[i].ctl = Controls["READ"]

NeverReads ==
  WritesThenReads /\ errors = 0 =>
    /\ checked >= 1 => ~Empty
    /\ \A i \in 1 .. checked : requests[i].ctl # Controls["READ"]

LEMMA NeverReadsStep ==
  ASSUME Known, Known', NeverReads, [SerialNext]_serialVars PROVE NeverReads'
<1>1. CASE CheckRequest
  <2> SUFFICES ASSUME WritesThenReads', errors' = 0
               PROVE  /\ ~Empty'
                      /\ \A i \in 1 .. checked' : requests'[i].ctl # Controls["READ"]
    BY DEF NeverReads
  <2>1. /\ checked \in Nat /\ checked < Len(requests) /\ Len(requests) \in Nat
        /\ checked' = checked + 1 /\ requests' = requests /\ next_tx = requests[checked + 1]
        /\ next_tx.ctl.FInN \in Bit /\ next_tx.ctl.FOutN \in Bit
    BY <1>1, RequestTaken DEF Known
  <2>2. WritesThenReads /\ errors = 0
    BY <1>1, <2>1, ErrorsOnlyGrow DEF WritesThenReads, Known
  <2>3. next_tx.ctl.FClrN = 1
    BY <2>1, <2>2 DEF WritesThenReads
  <2>4. "Read" \notin seen'
    BY DEF Known, Gentle, Avoided, Upsetting
  <2>5. ~(next_tx.ctl.FInN = 1 /\ next_tx.ctl.FOutN = 0 /\ ~Empty)
    BY <1>1, <2>1, <2>3, <2>4, OperationTaken, KindsRecorded DEF Known
  <2>6. /\ Len(model_q) \in Nat
        /\ (Empty <=> Len(model_q) = 0) /\ (Full <=> Len(model_q) = FDEPTH)
    BY Occupancy DEF Known
  <2>7. Empty' <=> Len(model_q') = 0
    BY NextQueue DEF Known, Empty
  <2>8. Controls["READ"].FInN = 1 /\ Controls["READ"].FOutN = 0
    BY DEF Controls
  <2>9. Len(model_q') = IF next_tx.ctl.FInN = 0 /\ next_tx.ctl.FOutN = 1 /\ ~Full
                          THEN Len(model_q) + 1
                        ELSE IF next_tx.ctl.FInN = 1 /\ next_tx.ctl.FOutN = 0 /\ ~Empty
                          THEN Len(model_q) - 1
                        ELSE Len(model_q)
    BY <1>1, <2>3, OperationTaken DEF Known
  <2>10. CASE checked = 0
    <3>1. next_tx.ctl.FInN = 0 /\ next_tx.ctl.FOutN = 1
      BY <2>1, <2>2, <2>10 DEF WritesThenReads, Controls
    <3>2. Len(model_q) = 0 /\ ~Full
      BY <2>6, <2>10, RtlAssumption, EmptySeq DEF Known, Fresh
    <3> QED
      BY <2>1, <2>7, <2>8, <2>9, <2>10, <3>1, <3>2
  <2>11. CASE checked >= 1
    <3>1. ~Empty /\ \A i \in 1 .. checked : requests[i].ctl # Controls["READ"]
      BY <2>2, <2>11 DEF NeverReads
    <3>2. next_tx.ctl # Controls["READ"]
      BY <2>5, <2>8, <3>1
    <3>3. \A i \in 1 .. checked' : requests'[i].ctl # Controls["READ"]
      BY <2>1, <3>1, <3>2
    <3>4. ~Empty'
      BY <2>5, <2>6, <2>7, <2>9, <3>1
    <3> QED
      BY <3>3, <3>4
  <2> QED
    BY <2>1, <2>10, <2>11
<1>2. CASE ~CheckRequest
  BY <1>2, OtherSteps DEF NeverReads, WritesThenReads, Empty
<1> QED
  BY <1>1, <1>2

-----------------------------------------------------------------------------
(* The test that begins with a read and write of the empty FIFO *)

ReplacesFirst == Len(requests) >= 1 /\ requests[1].ctl = Controls["READ_WRITE"]

FailsAtOnce == ReplacesFirst /\ errors = 0 => checked = 0

LEMMA FailsAtOnceStep ==
  ASSUME Known, Known', FailsAtOnce, [SerialNext]_serialVars PROVE FailsAtOnce'
<1>1. CASE CheckRequest
  <2> SUFFICES ASSUME ReplacesFirst', errors' = 0 PROVE FALSE
    BY DEF FailsAtOnce
  <2>1. /\ requests' = requests /\ next_tx = requests[checked + 1] /\ errors = 0
        /\ next_tx.ctl.FInN \in Bit /\ next_tx.ctl.FOutN \in Bit
    BY <1>1, RequestTaken, ErrorsOnlyGrow DEF Known
  <2>2. checked = 0 /\ next_tx.ctl = Controls["READ_WRITE"]
    BY <2>1 DEF FailsAtOnce, ReplacesFirst
  <2>3. next_tx.ctl.FClrN = 1 /\ next_tx.ctl.FInN = 0 /\ next_tx.ctl.FOutN = 0 /\ Empty
    BY <2>2, Codes DEF Known, Fresh, Empty
  <2>4. "ReplaceOnEmpty" \notin seen'
    BY DEF Known, Gentle, Avoided, Upsetting
  <2> QED
    BY <1>1, <2>1, <2>3, <2>4, OperationTaken, KindsRecorded DEF Known
<1>2. CASE ~CheckRequest
  BY <1>2, OtherSteps DEF FailsAtOnce, ReplacesFirst
<1> QED
  BY <1>1, <1>2

-----------------------------------------------------------------------------
(* The test that replaces one word until rd_ptr leaves the memory *)

Replaces ==
  /\ Len(requests) >= 7
  /\ requests[1].ctl = Controls["WRITE"] /\ requests[2].ctl = Controls["IDLE"]
  /\ \A i \in 3 .. 7 : requests[i].ctl = Controls["READ_WRITE"]

StaysInMemory ==
  Replaces /\ errors = 0 =>
    /\ checked <= FDEPTH + 1
    /\ rd_ptr = IF checked <= 2 THEN 0 ELSE checked - 2
    /\ checked >= 1 => Len(model_q) = 1

LEMMA StaysInMemoryStep ==
  ASSUME FDEPTH <= 5,
         Known, Known', StaysInMemory, [SerialNext]_serialVars
  PROVE  StaysInMemory'
<1>1. CASE CheckRequest
  <2> SUFFICES ASSUME Replaces', errors' = 0
               PROVE  /\ checked' <= FDEPTH + 1
                      /\ rd_ptr' = IF checked' <= 2 THEN 0 ELSE checked' - 2
                      /\ Len(model_q') = 1
    BY DEF StaysInMemory
  <2>1. /\ checked \in Nat /\ checked' = checked + 1
        /\ requests' = requests /\ next_tx = requests[checked + 1]
        /\ Replaces /\ errors = 0 /\ matched'
    BY <1>1, RequestTaken, ErrorsOnlyGrow DEF Known, Replaces
  <2>2. /\ checked <= FDEPTH + 1 /\ rd_ptr = IF checked <= 2 THEN 0 ELSE checked - 2
        /\ checked >= 1 => Len(model_q) = 1
    BY <2>1 DEF StaysInMemory
  <2>3. (Empty <=> Len(model_q) = 0) /\ (Full <=> Len(model_q) = FDEPTH)
    BY Occupancy DEF Known
  <2>4. CASE checked = 0
    <3>1. next_tx.ctl = Controls["WRITE"] /\ Len(model_q) = 0
      BY <2>1, <2>4, EmptySeq DEF Replaces, Known, Fresh
    <3>2. rd_ptr' = rd_ptr /\ Len(model_q') = 1
      BY <1>1, <2>3, <3>1, Codes, OperationTaken, RtlAssumption DEF Known
    <3> QED
      BY <2>1, <2>2, <2>4, <3>2, RtlAssumption
  <2>5. CASE checked = 1
    <3>1. next_tx.ctl = Controls["IDLE"] /\ Len(model_q) = 1
      BY <2>1, <2>2, <2>5 DEF Replaces
    <3>2. rd_ptr' = rd_ptr /\ Len(model_q') = 1
      BY <1>1, <2>3, <3>1, Codes, OperationTaken DEF Known
    <3> QED
      BY <2>1, <2>2, <2>5, <3>2, RtlAssumption
  <2>6. CASE checked >= 2
    <3>1. next_tx.ctl = Controls["READ_WRITE"] /\ Len(model_q) = 1 /\ rd_ptr = checked - 2
      <4>1. checked + 1 \in 3 .. 7
        BY <2>1, <2>2, <2>6, RtlAssumption
      <4> QED
        BY <2>1, <2>2, <2>6, <4>1 DEF Replaces
    <3>2. rd_ptr' = Inc(rd_ptr) /\ Len(model_q') = 1
      BY <1>1, <2>3, <3>1, Codes, OperationTaken DEF Known
    <3>3. rd_ptr' = checked - 1
      BY <2>1, <2>2, <2>6, <3>1, <3>2, RtlAssumption DEF Inc
    <3>4. checked # FDEPTH + 1
      <4> SUFFICES ASSUME checked = FDEPTH + 1 PROVE FALSE
        OBVIOUS
      <4>1. F_Data' = X
        BY <3>3, RtlAssumption DEF F_Data, memblk!data_out, memblk!Addresses
      <4>2. model_q' \in Seq(Data) /\ model_q' # <<>>
        BY <3>2, NextQueue DEF Known
      <4>3. F_Data' = Head(model_q')
        BY <1>1, <2>1, <4>2, DataCompared DEF Known
      <4> QED
        BY <4>1, <4>2, <4>3, HeadTailProperties, RtlAssumption
    <3> QED
      BY <2>1, <2>2, <2>6, <3>2, <3>3, <3>4, RtlAssumption
  <2> QED
    BY <2>1, <2>4, <2>5, <2>6
<1>2. CASE ~CheckRequest
  BY <1>2, OtherSteps DEF StaysInMemory, Replaces
<1> QED
  BY <1>1, <1>2
-----------------------------------------------------------------------------
(* The test that replaces a word inside the memory *)

ReplacesTwice ==
  /\ Len(requests) = 6
  /\ requests[1].ctl = Controls["WRITE"]
  /\ \A i \in {2, 4, 6} : requests[i].ctl = Controls["IDLE"]
  /\ \A i \in {3, 5} : requests[i].ctl = Controls["READ_WRITE"]

StaysClean ==
  ReplacesTwice =>
    /\ errors = 0 /\ seen = {}
    /\ wr_ptr = IF checked = 0 THEN 0 ELSE IF checked <= 2 THEN 1
                ELSE IF checked <= 4 THEN 2 ELSE 3
    /\ checked >= 1 => Len(model_q) = 1

LEMMA StaysCleanStep ==
  ASSUME Known, Known', StaysClean, [SerialNext]_serialVars PROVE StaysClean'
<1>1. CASE CheckRequest
  <2> SUFFICES ASSUME ReplacesTwice' PROVE StaysClean'
    BY DEF StaysClean
  <2>1. /\ checked \in Nat /\ checked' = checked + 1 /\ checked < Len(requests)
        /\ requests' = requests /\ next_tx = requests[checked + 1]
        /\ errors' = IF matched' THEN errors ELSE errors + 1
    BY <1>1, RequestTaken DEF Known, CheckRequest
  <2>2. ReplacesTwice
    BY <2>1 DEF ReplacesTwice
  <2>3. /\ errors = 0 /\ seen = {}
        /\ wr_ptr = IF checked = 0 THEN 0 ELSE IF checked <= 2 THEN 1
                    ELSE IF checked <= 4 THEN 2 ELSE 3
        /\ checked >= 1 => Len(model_q) = 1
    BY <2>2 DEF StaysClean
  <2>4. checked \in 0 .. 5
    BY <2>1, <2>2 DEF ReplacesTwice
  <2>5. (Empty <=> Len(model_q) = 0) /\ (Full <=> Len(model_q) = FDEPTH)
    BY Occupancy DEF Known
  <2>6. wr_ptr \in 0 .. FDEPTH - 1 \/ checked = 5
    BY <2>3, <2>4, RtlAssumption
  <2>7. seen' = {} /\ Len(model_q') = 1
        /\ wr_ptr' = IF checked \in {0, 2, 4} THEN Inc(wr_ptr) ELSE wr_ptr
    <3>1. CASE checked = 0
      <4>1. next_tx.ctl = Controls["WRITE"] /\ Len(model_q) = 0
        BY <2>1, <2>2, <3>1, EmptySeq DEF ReplacesTwice, Known, Fresh
      <4> QED
        BY <1>1, <2>3, <2>5, <2>6, <3>1, <4>1, Codes, OperationTaken, HarmlessKinds, RtlAssumption
        DEF Known
    <3>2. CASE checked \in {2, 4}
      <4>1. next_tx.ctl = Controls["READ_WRITE"] /\ Len(model_q) = 1
        BY <2>1, <2>2, <2>3, <3>2 DEF ReplacesTwice
      <4>2. ~Empty /\ ~Full /\ KindsOf(0, 0) = {}
        BY <2>3, <2>5, <2>6, <3>2, <4>1, HarmlessKinds, RtlAssumption
      <4> QED
        BY <1>1, <2>3, <3>2, <4>1, <4>2, Codes, OperationTaken DEF Known
    <3>3. CASE checked \in {1, 3, 5}
      <4>1. next_tx.ctl = Controls["IDLE"] /\ Len(model_q) = 1
        BY <2>1, <2>2, <2>3, <3>3 DEF ReplacesTwice
      <4> QED
        BY <1>1, <2>3, <3>3, <4>1, Codes, OperationTaken, HarmlessKinds DEF Known
    <3> QED
      BY <2>4, <3>1, <3>2, <3>3
  <2>8. wr_ptr' = IF checked' <= 2 THEN 1 ELSE IF checked' <= 4 THEN 2 ELSE 3
    BY <2>1, <2>3, <2>4, <2>7, RtlAssumption DEF Inc
  <2>9. matched'
    BY <2>7 DEF Known, CleanTrafficMatches
  <2> QED
    BY <2>1, <2>3, <2>7, <2>8, <2>9 DEF StaysClean
<1>2. CASE ~CheckRequest
  BY <1>2, OtherSteps DEF StaysClean, ReplacesTwice
<1> QED
  BY <1>1, <1>2

-----------------------------------------------------------------------------
(* The test that only reads, of an empty FIFO *)

OnlyReads ==
  \A i \in 1 .. Len(requests) : requests[i].ctl \in {Controls["READ"], Controls["IDLE"]}

StaysEmpty ==
  OnlyReads => errors = 0 /\ model_q = <<>> /\ seen \subseteq {"ReadOnEmpty"}

LEMMA StaysEmptyStep ==
  ASSUME Known, Known', StaysEmpty, [SerialNext]_serialVars PROVE StaysEmpty'
<1>1. CASE CheckRequest
  <2> SUFFICES ASSUME OnlyReads' PROVE errors' = 0 /\ model_q' = <<>> /\ seen' \subseteq {"ReadOnEmpty"}
    BY DEF StaysEmpty
  <2>1. /\ checked \in Nat /\ checked < Len(requests) /\ Len(requests) \in Nat
        /\ requests' = requests /\ next_tx = requests[checked + 1]
    BY <1>1, RequestTaken DEF Known
  <2>2. /\ OnlyReads /\ errors = 0 /\ model_q = <<>> /\ seen \subseteq {"ReadOnEmpty"}
    BY <2>1 DEF StaysEmpty, OnlyReads
  <2>3. next_tx.ctl \in {Controls["READ"], Controls["IDLE"]}
    BY <2>1, <2>2 DEF OnlyReads
  <2>4. Empty /\ Len(model_q) = 0
    BY <2>2, EmptySeq DEF Empty
  <2>5. Len(model_q') = 0 /\ seen' \subseteq {"ReadOnEmpty"}
    <3>1. /\ next_tx.ctl.FClrN = 1 /\ next_tx.ctl.FInN = 1
          /\ next_tx.ctl.FOutN = 0 \/ next_tx.ctl.FOutN = 1
      BY <2>3, Codes
    <3>2. seen' = seen \union KindsOf(1, 0) \/ seen' = seen \union KindsOf(1, 1)
      BY <1>1, <3>1, OperationTaken DEF Known
    <3>3. seen' \subseteq {"ReadOnEmpty"}
      BY <2>2, <2>4, <3>2, HarmlessKinds
    <3> QED
      BY <1>1, <2>4, <3>1, <3>3, OperationTaken DEF Known
  <2>6. TypeOK' /\ FlagsShowOccupancy'
    BY DEF Known
  <2>7. model_q' = <<>>
    BY <2>5, <2>6, NextQueue
  <2>8. Avoided(Upsetting \union {"UnseenReset"})'
    BY <2>5 DEF Avoided, Upsetting
  <2>9. matched'
    BY <1>1, <2>6, <2>7, <2>8, OnlyDataCompared DEF Known
  <2> QED
    BY <1>1, <2>2, <2>5, <2>7, <2>9 DEF CheckRequest
<1>2. CASE ~CheckRequest
  BY <1>2, OtherSteps DEF StaysEmpty, OnlyReads
<1> QED
  BY <1>1, <1>2
-----------------------------------------------------------------------------
(* The tests that clear after a write, read the empty FIFO and write again: *)
(* the read has moved rd_ptr to the second word of the memory, which is     *)
(* what F_Data shows.                                                       *)

ClearsThenReads ==
  LET n == Len(requests)
  IN  /\ n \in {4, 5}
      /\ requests[1].ctl = Controls["WRITE"]
      /\ requests[2].ctl.FClrN = 0
      /\ n = 5 => requests[3].ctl = Controls["IDLE"]
      /\ requests[n - 1].ctl = Controls["READ"]
      /\ requests[n].ctl = Controls["WRITE"]

(* What the request with clear has left there *)
second_word == IF requests[2].ctl.FInN = 0 THEN requests[2].Data_In ELSE X

ShowsSecondWord ==
  ClearsThenReads =>
    LET n == Len(requests)
    IN  /\ checked < n => errors = 0
        /\ checked = n => (errors = 0 <=> second_word = requests[n].Data_In)
        /\ checked = 1 => wr_ptr = 1 /\ FIFO[1] = X
        /\ checked \in 2 .. n - 1 =>
             /\ model_q = <<>> /\ wr_ptr = 0
             /\ rd_ptr = IF checked = n - 1 THEN 1 ELSE 0
             /\ FIFO[1] = second_word
             /\ seen \subseteq {"ReadOnEmpty"}

LEMMA ShowsSecondWordStep ==
  ASSUME Known, Known', ShowsSecondWord, [SerialNext]_serialVars PROVE ShowsSecondWord'
<1> DEFINE n == Len(requests)
<1>1. CASE CheckRequest
  <2> SUFFICES ASSUME ClearsThenReads' PROVE ShowsSecondWord'
    BY DEF ShowsSecondWord
  <2>1. /\ checked \in Nat /\ checked' = checked + 1 /\ checked < n
        /\ requests' = requests /\ next_tx = requests[checked + 1]
        /\ errors' = IF matched' THEN errors ELSE errors + 1
    BY <1>1, RequestTaken DEF Known, CheckRequest
  <2>2. ClearsThenReads /\ n \in {4, 5} /\ second_word' = second_word
    BY <2>1 DEF ClearsThenReads, second_word
  <2>3. /\ errors = 0
        /\ checked = 1 => wr_ptr = 1 /\ FIFO[1] = X
        /\ checked \in 2 .. n - 1 =>
             /\ model_q = <<>> /\ wr_ptr = 0
             /\ rd_ptr = IF checked = n - 1 THEN 1 ELSE 0
             /\ FIFO[1] = second_word
             /\ seen \subseteq {"ReadOnEmpty"}
    BY <2>1, <2>2 DEF ShowsSecondWord
  <2>4. FIFO'[1] = IF next_tx.ctl.FInN = 0 /\ wr_ptr = 1 THEN next_tx.Data_In ELSE FIFO[1]
    BY <1>1, SecondWord DEF Known
  <2>5. Inc(0) = 1 /\ 0 \in 0 .. FDEPTH - 1 /\ 1 \in memblk!Addresses
    BY RtlAssumption DEF Inc, memblk!Addresses
  <2>6. CASE checked = 0
    <3>1. next_tx.ctl = Controls["WRITE"] /\ wr_ptr = 0 /\ FIFO[1] = X /\ seen = {}
      BY <2>1, <2>2, <2>6 DEF ClearsThenReads, Known, Fresh
    <3>2. wr_ptr' = 1 /\ FIFO'[1] = X /\ seen' = {}
      BY <1>1, <2>4, <2>5, <3>1, Codes, OperationTaken, HarmlessKinds DEF Known
    <3>3. matched'
      BY <3>2 DEF Known, CleanTrafficMatches
    <3>4. checked' = 1 /\ checked' < n /\ checked' \notin 2 .. n - 1 /\ errors' = 0
      BY <2>1, <2>2, <2>3, <2>6, <3>3
    <3> QED
      BY <2>1, <3>2, <3>4 DEF ShowsSecondWord
  <2>7. CASE checked = 1
    <3>1. next_tx.ctl.FClrN = 0 /\ next_tx = requests[2]
      BY <2>1, <2>2, <2>7 DEF ClearsThenReads
    <3>2. wr_ptr' = 0 /\ rd_ptr' = 0 /\ model_q' = <<>> /\ seen' = {}
      BY <1>1, <3>1, ClearTaken DEF Known
    <3>3. FIFO'[1] = second_word
      BY <2>3, <2>4, <2>7, <3>1 DEF second_word
    <3>4. matched'
      BY <3>2 DEF Known, CleanTrafficMatches
    <3>5. checked' = 2 /\ checked' < n /\ checked' # n - 1
      BY <2>1, <2>2, <2>7
    <3>6. errors' = 0
      BY <2>1, <2>3, <3>4
    <3> QED
      BY <2>1, <2>2, <3>2, <3>3, <3>5, <3>6 DEF ShowsSecondWord
  <2>8. CASE checked \in 2 .. n - 2
    <3>1. /\ checked = n - 2 => next_tx.ctl = Controls["READ"]
          /\ checked # n - 2 => next_tx.ctl = Controls["IDLE"]
      BY <2>1, <2>2, <2>8 DEF ClearsThenReads
    <3>2. /\ next_tx.ctl.FClrN = 1 /\ next_tx.ctl.FInN = 1
          /\ next_tx.ctl.FOutN = IF checked = n - 2 THEN 0 ELSE 1
      BY <3>1, Codes
    <3>3. /\ model_q = <<>> /\ wr_ptr = 0 /\ rd_ptr = 0 /\ FIFO[1] = second_word
          /\ seen \subseteq {"ReadOnEmpty"} /\ Empty /\ Len(model_q) = 0
      BY <2>1, <2>2, <2>3, <2>8, EmptySeq DEF Empty
    <3>4. /\ wr_ptr' = 0 /\ rd_ptr' = (IF checked = n - 2 THEN 1 ELSE 0) /\ Len(model_q') = 0
          /\ seen' = seen \union KindsOf(1, next_tx.ctl.FOutN)
      BY <1>1, <2>5, <3>2, <3>3, OperationTaken DEF Known
    <3>5. seen' \subseteq {"ReadOnEmpty"}
      BY <3>2, <3>3, <3>4, HarmlessKinds
    <3>6. FIFO'[1] = second_word /\ model_q' = <<>>
      BY <2>4, <3>2, <3>3, <3>4, NextQueue DEF Known
    <3>7. matched'
      <4>1. Avoided(Upsetting \union {"UnseenReset"})'
        BY <3>5 DEF Avoided, Upsetting
      <4> QED
        BY <1>1, <3>6, <4>1, OnlyDataCompared DEF Known
    <3> QED
      BY <2>1, <2>2, <2>3, <2>8, <3>4, <3>5, <3>6, <3>7 DEF ShowsSecondWord
  <2>9. CASE checked = n - 1
    <3>1. next_tx.ctl = Controls["WRITE"] /\ next_tx = requests[n]
      BY <2>1, <2>2, <2>9 DEF ClearsThenReads
    <3>2. /\ model_q = <<>> /\ wr_ptr = 0 /\ rd_ptr = 1 /\ FIFO[1] = second_word
          /\ seen \subseteq {"ReadOnEmpty"}
      BY <2>1, <2>2, <2>3, <2>9
    <3>3. /\ next_tx.ctl.FClrN = 1 /\ next_tx.ctl.FInN = 0 /\ next_tx.ctl.FOutN = 1
      BY <3>1, Codes
    <3>4. rd_ptr' = 1 /\ FIFO'[1] = second_word /\ seen' \subseteq {"ReadOnEmpty"}
      <4>1. rd_ptr' = 1 /\ seen' = seen \union KindsOf(0, 1)
        BY <1>1, <3>2, <3>3, OperationTaken DEF Known
      <4>2. KindsOf(0, 1) = {}
        BY <2>5, <3>2, HarmlessKinds
      <4>3. FIFO'[1] = second_word
        BY <2>4, <3>2
      <4> QED
        BY <3>2, <4>1, <4>2, <4>3
    <3>5. F_Data' = second_word
      BY <2>5, <3>4 DEF F_Data, memblk!data_out, memblk!Addresses
    <3>6. model_q' # <<>> /\ Head(model_q') = requests[n].Data_In
      BY <1>1, <3>1, <3>2, FirstWord DEF Known
    <3>7. matched' <=> second_word = requests[n].Data_In
      <4>1. Avoided(Upsetting \union {"UnseenReset"})'
        BY <3>4 DEF Avoided, Upsetting
      <4> QED
        BY <1>1, <3>5, <3>6, <4>1, OnlyDataCompared DEF Known
    <3> QED
      BY <2>1, <2>2, <2>3, <2>9, <3>7 DEF ShowsSecondWord
  <2> QED
    BY <2>1, <2>2, <2>6, <2>7, <2>8, <2>9
<1>2. CASE ~CheckRequest
  BY <1>2, OtherSteps DEF ShowsSecondWord, ClearsThenReads, second_word
<1> QED
  BY <1>1, <1>2
-----------------------------------------------------------------------------
(* The directed tests *)

LEMMA OperationsOfTests ==
  /\ Operations["single_rnw"] = single_rnw /\ Operations["multiple_rnw"] = multiple_rnw
  /\ Operations["write_full"] = write_full /\ Operations["rw_full"] = rw_full
  /\ Operations["firstn"] = firstn /\ Operations["slastn"] = slastn
  /\ Operations["lastn"] = lastn /\ Operations["clr"] = clr
  /\ Operations["clr_read"] = clr_read /\ Operations["clr_write"] = clr_write
  /\ Operations["clr_rw"] = clr_rw
BY DEF Operations

TestsThatRead ==
  {"single_rnw", "multiple_rnw", "write_full", "rw_full", "firstn", "slastn", "lastn"}

(* A sequence of operations that reads what it has written *)
ReadsBack(ops) ==
  /\ Len(ops) \in Nat /\ Len(ops) >= 1 /\ ops[1] = "WRITE"
  /\ \A i \in 1 .. Len(ops) : ops[i] \in {"WRITE", "READ", "IDLE", "READ_WRITE"}
  /\ \E i \in 1 .. Len(ops) : ops[i] = "READ"

LEMMA TestsWriteThenRead ==
  ASSUME NEW name \in TestsThatRead, IsDraw(requests, name) PROVE WritesThenReads
<1>1. ReadsBack(single_rnw)
  <2>1. Len(single_rnw) = 6 /\ single_rnw[1] = "WRITE" /\ single_rnw[5] = "READ"
    BY DEF single_rnw
  <2>2. \A i \in 1 .. 6 : single_rnw[i] \in {"WRITE", "READ", "IDLE", "READ_WRITE"}
    BY DEF single_rnw
  <2> QED
    BY <2>1, <2>2 DEF ReadsBack
<1>2. ReadsBack(multiple_rnw)
  <2>1. Len(multiple_rnw) = 10 /\ multiple_rnw[1] = "WRITE" /\ multiple_rnw[6] = "READ"
    BY DEF multiple_rnw
  <2>2. \A i \in 1 .. 10 : multiple_rnw[i] \in {"WRITE", "READ", "IDLE", "READ_WRITE"}
    BY DEF multiple_rnw
  <2> QED
    BY <2>1, <2>2 DEF ReadsBack
<1>3. ReadsBack(write_full)
  <2>1. Len(write_full) = 14 /\ write_full[1] = "WRITE" /\ write_full[11] = "READ"
    BY DEF write_full
  <2>2. \A i \in 1 .. 14 : write_full[i] \in {"WRITE", "READ", "IDLE", "READ_WRITE"}
    BY DEF write_full
  <2> QED
    BY <2>1, <2>2 DEF ReadsBack
<1>4. ReadsBack(rw_full)
  <2>1. Len(rw_full) = 14 /\ rw_full[1] = "WRITE" /\ rw_full[10] = "READ"
    BY DEF rw_full
  <2>2. \A i \in 1 .. 14 : rw_full[i] \in {"WRITE", "READ", "IDLE", "READ_WRITE"}
    BY DEF rw_full
  <2> QED
    BY <2>1, <2>2 DEF ReadsBack
<1>5. ReadsBack(firstn)
  <2>1. Len(firstn) = 5 /\ firstn[1] = "WRITE" /\ firstn[2] = "READ"
    BY DEF firstn
  <2>2. \A i \in 1 .. 5 : firstn[i] \in {"WRITE", "READ", "IDLE", "READ_WRITE"}
    BY DEF firstn
  <2> QED
    BY <2>1, <2>2 DEF ReadsBack
<1>6. ReadsBack(slastn)
  <2>1. Len(slastn) = 7 /\ slastn[1] = "WRITE" /\ slastn[5] = "READ"
    BY DEF slastn
  <2>2. \A i \in 1 .. 7 : slastn[i] \in {"WRITE", "READ", "IDLE", "READ_WRITE"}
    BY DEF slastn
  <2> QED
    BY <2>1, <2>2 DEF ReadsBack
<1>7. ReadsBack(lastn)
  <2>1. Len(lastn) = 8 /\ lastn[1] = "WRITE" /\ lastn[6] = "READ"
    BY DEF lastn
  <2>2. \A i \in 1 .. 8 : lastn[i] \in {"WRITE", "READ", "IDLE", "READ_WRITE"}
    BY DEF lastn
  <2> QED
    BY <2>1, <2>2 DEF ReadsBack
<1>8. ReadsBack(Operations[name])
  BY <1>1, <1>2, <1>3, <1>4, <1>5, <1>6, <1>7, OperationsOfTests DEF TestsThatRead
<1>9. \A op \in {"WRITE", "READ", "IDLE", "READ_WRITE"} : Controls[op].FClrN = 1
  BY Codes
<1> QED
  BY <1>8, <1>9 DEF IsDraw, ReadsBack, WritesThenReads

TestsThatClear == {"clr", "clr_read", "clr_write", "clr_rw"}

LEMMA TestsClearThenRead ==
  ASSUME NEW name \in TestsThatClear, IsDraw(requests, name)
  PROVE  /\ ClearsThenReads /\ requests[Len(requests)].Data_In # X
         /\ name \in TestsOfTheDraw => second_word = requests[2].Data_In /\ Len(requests) = 4
         /\ name \notin TestsOfTheDraw => second_word = X
<1>1. ASSUME name = "clr"
      PROVE  ClearsThenReads /\ Len(requests) = 5 /\ requests[2].ctl.FInN = 1
  <2>1. /\ Len(clr) = 5 /\ clr[1] = "WRITE" /\ clr[2] = "CLEAR" /\ clr[3] = "IDLE"
        /\ clr[4] = "READ" /\ clr[5] = "WRITE"
    BY DEF clr
  <2>2. Len(requests) = 5 /\ \A i \in 1 .. 5 : requests[i].ctl = Controls[clr[i]]
    BY <1>1, <2>1, OperationsOfTests DEF IsDraw
  <2>3. Controls["CLEAR"].FClrN = 0 /\ Controls["CLEAR"].FInN = 1
    BY DEF Controls
  <2> QED
    BY <2>1, <2>2, <2>3 DEF ClearsThenReads
<1>2. ASSUME name = "clr_read"
      PROVE  ClearsThenReads /\ Len(requests) = 4 /\ requests[2].ctl.FInN = 1
  <2>1. /\ Len(clr_read) = 4 /\ clr_read[1] = "WRITE" /\ clr_read[2] = "CLEAR_READ"
        /\ clr_read[3] = "READ" /\ clr_read[4] = "WRITE"
    BY DEF clr_read
  <2>2. Len(requests) = 4 /\ \A i \in 1 .. 4 : requests[i].ctl = Controls[clr_read[i]]
    BY <1>2, <2>1, OperationsOfTests DEF IsDraw
  <2>3. Controls["CLEAR_READ"].FClrN = 0 /\ Controls["CLEAR_READ"].FInN = 1
    BY DEF Controls
  <2> QED
    BY <2>1, <2>2, <2>3 DEF ClearsThenReads
<1>3. ASSUME name = "clr_write"
      PROVE  ClearsThenReads /\ Len(requests) = 4 /\ requests[2].ctl.FInN = 0
  <2>1. /\ Len(clr_write) = 4 /\ clr_write[1] = "WRITE" /\ clr_write[2] = "CLEAR_WRITE"
        /\ clr_write[3] = "READ" /\ clr_write[4] = "WRITE"
    BY DEF clr_write
  <2>2. Len(requests) = 4 /\ \A i \in 1 .. 4 : requests[i].ctl = Controls[clr_write[i]]
    BY <1>3, <2>1, OperationsOfTests DEF IsDraw
  <2>3. Controls["CLEAR_WRITE"].FClrN = 0 /\ Controls["CLEAR_WRITE"].FInN = 0
    BY DEF Controls
  <2> QED
    BY <2>1, <2>2, <2>3 DEF ClearsThenReads
<1>4. ASSUME name = "clr_rw"
      PROVE  ClearsThenReads /\ Len(requests) = 4 /\ requests[2].ctl.FInN = 0
  <2>1. /\ Len(clr_rw) = 4 /\ clr_rw[1] = "WRITE" /\ clr_rw[2] = "CLEAR_READ_WRITE"
        /\ clr_rw[3] = "READ" /\ clr_rw[4] = "WRITE"
    BY DEF clr_rw
  <2>2. Len(requests) = 4 /\ \A i \in 1 .. 4 : requests[i].ctl = Controls[clr_rw[i]]
    BY <1>4, <2>1, OperationsOfTests DEF IsDraw
  <2>3. Controls["CLEAR_READ_WRITE"].FClrN = 0 /\ Controls["CLEAR_READ_WRITE"].FInN = 0
    BY DEF Controls
  <2> QED
    BY <2>1, <2>2, <2>3 DEF ClearsThenReads
<1>5. Len(requests) \in 1 .. Len(requests) => requests[Len(requests)].Data_In # X
  <2>1. Len(requests) \in 1 .. Len(requests) => requests[Len(requests)] \in AnyRequest
    BY ScriptTyped, ElementOfSeq DEF requests
  <2> QED
    BY <2>1, RequestTyped, RtlAssumption
<1> QED
  BY <1>1, <1>2, <1>3, <1>4, <1>5 DEF TestsThatClear, TestsOfTheDraw, second_word

LEMMA TheOtherTests ==
  /\ IsDraw(requests, "base_test") => Len(requests) = 0
  /\ IsDraw(requests, "rw_empty") => ReplacesFirst
  /\ IsDraw(requests, "multiple_rw") => Replaces /\ Len(requests) = 8
  /\ IsDraw(requests, "single_rw") => ReplacesTwice
  /\ IsDraw(requests, "read_empty") => OnlyReads
<1>1. IsDraw(requests, "base_test") => Len(requests) = 0
  BY DEF IsDraw, Operations
<1>2. IsDraw(requests, "rw_empty") => ReplacesFirst
  BY DEF IsDraw, Operations, rw_empty, ReplacesFirst
<1>3. IsDraw(requests, "multiple_rw") => Replaces /\ Len(requests) = 8
  BY DEF IsDraw, Operations, multiple_rw, Replaces
<1>4. IsDraw(requests, "single_rw") => ReplacesTwice
  BY DEF IsDraw, Operations, single_rw, ReplacesTwice
<1>5. IsDraw(requests, "read_empty") => OnlyReads
  BY DEF IsDraw, Operations, read_empty, OnlyReads
<1> QED
  BY <1>1, <1>2, <1>3, <1>4, <1>5

VerdictOfRequests ==
  checked = Len(requests) =>
    \A name \in DOMAIN Operations :
      IsDraw(requests, name) => (errors = 0 <=> EndsSilently(requests, name))

LEMMA VerdictHolds ==
  ASSUME FDEPTH <= 5, SerialInv,
         NeverReads, FailsAtOnce, StaysInMemory, StaysClean, StaysEmpty, ShowsSecondWord
  PROVE  VerdictOfRequests
<1> SUFFICES ASSUME checked = Len(requests),
                    NEW name \in DOMAIN Operations, IsDraw(requests, name)
             PROVE  errors = 0 <=> EndsSilently(requests, name)
  BY DEF VerdictOfRequests
<1>1. /\ errors \in 0 .. checked /\ Len(requests) \in Nat /\ checked \in Nat
  BY ScriptTyped DEF SerialInv, requests
<1>2. CASE name \in TestsThatRead
  <2>1. WritesThenReads
    BY <1>2, TestsWriteThenRead
  <2>2. errors # 0
    BY <2>1 DEF NeverReads, WritesThenReads
  <2> QED
    BY <1>2, <2>2 DEF EndsSilently, SilentTests, TestsOfTheDraw, TestsThatRead
<1>3. CASE name \in TestsThatClear
  <2>1. /\ ClearsThenReads /\ requests[Len(requests)].Data_In # X
        /\ name \in TestsOfTheDraw => second_word = requests[2].Data_In /\ Len(requests) = 4
        /\ name \notin TestsOfTheDraw => second_word = X
    BY <1>3, TestsClearThenRead
  <2>2. errors = 0 <=> second_word = requests[Len(requests)].Data_In
    BY <2>1 DEF ShowsSecondWord
  <2> QED
    BY <1>3, <2>1, <2>2 DEF EndsSilently, SilentTests, TestsThatClear
<1>4. CASE name \in {"rw_empty", "multiple_rw"}
  <2>1. name = "rw_empty" => errors # 0
    BY <1>1, TheOtherTests DEF FailsAtOnce, ReplacesFirst
  <2>2. ASSUME name = "multiple_rw" PROVE errors # 0
    <3>1. IsDraw(requests, "multiple_rw")
      BY <2>2
    <3>2. Replaces /\ checked = 8
      BY <3>1, TheOtherTests
    <3>3. errors = 0 => checked <= FDEPTH + 1
      BY <3>2 DEF StaysInMemory
    <3> QED
      BY <3>2, <3>3, RtlAssumption
  <2> QED
    BY <1>4, <2>1, <2>2 DEF EndsSilently, SilentTests, TestsOfTheDraw
<1>5. CASE name \in SilentTests
  <2>1. errors = 0
    BY <1>1, <1>5, TheOtherTests DEF SilentTests, StaysClean, StaysEmpty
  <2> QED
    BY <1>5, <2>1 DEF EndsSilently
<1>6. name \in TestsThatRead \union TestsThatClear \union {"rw_empty", "multiple_rw"} \union SilentTests
  BY DEF Operations, TestsThatRead, TestsThatClear, SilentTests
<1> QED
  BY <1>2, <1>3, <1>4, <1>5, <1>6

(* How every directed test ends, whatever words it draws: an error is       *)
(* counted unless the test is silent or its draw hides the one there is.    *)
THEOREM Verdicts ==
  ASSUME FDEPTH <= 5
  PROVE  SerialSpec => []VerdictOfRequests
<1> DEFINE Inv == NeverReads /\ FailsAtOnce /\ StaysInMemory /\ StaysClean /\ StaysEmpty
                    /\ ShowsSecondWord
<1>1. SerialInit /\ Known => Inv
  <2> SUFFICES ASSUME SerialInit, Known PROVE Inv
    OBVIOUS
  <2>1. checked = 0 /\ errors = 0 /\ model_q = <<>> /\ rd_ptr = 0 /\ wr_ptr = 0 /\ seen = {}
    BY DEF SerialInit, Known, Fresh
  <2>2. NeverReads /\ FailsAtOnce /\ StaysInMemory /\ StaysClean /\ StaysEmpty
    BY <2>1, RtlAssumption
    DEF NeverReads, FailsAtOnce, StaysInMemory, StaysClean, StaysEmpty
  <2>3. ShowsSecondWord
    BY <2>1 DEF ShowsSecondWord, ClearsThenReads
  <2> QED
    BY <2>2, <2>3
<1>2. Known /\ Known' /\ Inv /\ [SerialNext]_serialVars => Inv'
  BY NeverReadsStep, FailsAtOnceStep, StaysInMemoryStep, StaysCleanStep, StaysEmptyStep,
     ShowsSecondWordStep
<1>3. Known /\ Inv => VerdictOfRequests
  BY VerdictHolds DEF Known
<1> HIDE DEF Inv
<1> QED
  BY <1>1, <1>2, <1>3, KnownOfTests, PTL DEF SerialSpec
=============================================================================
