-------------------------- MODULE FifoCheckProofs --------------------------
(***************************************************************************)
(* Proofs about FifoCheck for every depth, every register width, every set *)
(* of words and any traffic.                                               *)
(***************************************************************************)
EXTENDS FifoCheck, SequenceTheorems, TLAPS

(* UpperFlagsShowOccupancy is not inductive: the flags must be right in all *)
(* respects before the first read, and the drained FIFO must not be full.   *)
UpperInv ==
  Avoided({"WriteAfterRead", "ReplaceOnEmpty", "ReplaceOnFull", "UnseenReset"}) =>
    /\ F_SLastN = expected.F_SLastN
    /\ F_LastN  = expected.F_LastN
    /\ F_FullN  = expected.F_FullN
    /\ "Read" \in seen => ~Full

(* DataInOrder follows from where the words of a queue q are: the k-th       *)
(* oldest is k-1 cells after rd, and a word stored next goes after the last. *)
Laid(q, rd, wr, mem) ==
  /\ \A k \in 1 .. Len(q) : rd + k - 1 < FDEPTH /\ mem[rd + k - 1] = q[k]
  /\ wr < FDEPTH => wr = rd + Len(q)
  /\ rd <= wr

DataInv ==
  Avoided({"ReadOnEmpty", "PastEnd", "PointerWrap", "UnseenReset"}) =>
    Laid(model_q, rd_ptr, wr_ptr, FIFO)

-----------------------------------------------------------------------------
(* What the three operations of the reference model do to its queue. *)

(* Pushed appends to a queue that is not full and leaves a full one alone. *)
LEMMA PushedProperties ==
  ASSUME NEW q \in Seq(Data), NEW d \in Data
  PROVE  /\ model!Pushed(q, d) \in Seq(Data)
         /\ Len(q) < FDEPTH =>
              /\ Len(model!Pushed(q, d)) = Len(q) + 1
              /\ \A k \in 1 .. Len(q) : model!Pushed(q, d)[k] = q[k]
              /\ model!Pushed(q, d)[Len(q) + 1] = d
         /\ ~(Len(q) < FDEPTH) => model!Pushed(q, d) = q
BY AppendProperties DEF model!Pushed

(* Popped drops the oldest word and leaves an empty queue alone. *)
LEMMA PoppedProperties ==
  ASSUME NEW q \in Seq(Data)
  PROVE  /\ model!Popped(q) \in Seq(Data)
         /\ q # <<>> =>
              /\ Len(q) \in Nat \ {0}
              /\ Len(model!Popped(q)) = Len(q) - 1
              /\ \A k \in 1 .. Len(q) - 1 : model!Popped(q)[k] = q[k + 1]
         /\ q = <<>> => model!Popped(q) = q
BY HeadTailProperties, EmptySeq DEF model!Popped

(* Replaced drops the oldest word and appends the new one. *)
LEMMA ReplacedProperties ==
  ASSUME NEW q \in Seq(Data), NEW d \in Data
  PROVE  /\ model!Replaced(q, d) \in Seq(Data)
         /\ q # <<>> =>
              /\ Len(q) \in Nat \ {0}
              /\ Len(model!Replaced(q, d)) = Len(q)
              /\ \A k \in 1 .. Len(q) - 1 : model!Replaced(q, d)[k] = q[k + 1]
              /\ model!Replaced(q, d)[Len(q)] = d
         /\ q = <<>> => model!Replaced(q, d) = q
<1>1. CASE q = <<>>
  BY <1>1 DEF model!Replaced
<1>2. CASE q # <<>>
  <2>1. /\ Tail(q) \in Seq(Data)
        /\ Len(Tail(q)) = Len(q) - 1
        /\ \A k \in 1 .. Len(Tail(q)) : Tail(q)[k] = q[k + 1]
        /\ Len(q) \in Nat \ {0}
    BY <1>2, HeadTailProperties, EmptySeq
  <2>2. /\ Append(Tail(q), d) \in Seq(Data)
        /\ Len(Append(Tail(q), d)) = Len(Tail(q)) + 1
        /\ \A k \in 1 .. Len(Tail(q)) : Append(Tail(q), d)[k] = Tail(q)[k]
        /\ Append(Tail(q), d)[Len(Tail(q)) + 1] = d
    BY <2>1, AppendProperties
  <2>3. model!Replaced(q, d) = Append(Tail(q), d)
    BY <1>2 DEF model!Replaced
  <2>4. Len(q) - 1 + 1 = Len(q)
    BY <2>1
  <2> QED
    BY <1>2, <2>1, <2>2, <2>3, <2>4
<1> QED
  BY <1>1, <1>2

-----------------------------------------------------------------------------
(* Type correctness. *)

(* FWIDTH-bit arithmetic stays within FWIDTH bits. *)
LEMMA CountClosed ==
  ASSUME NEW r \in Count
  PROVE  Inc(r) \in Count /\ Dec(r) \in Count
BY RtlAssumption DEF Count, Inc, Dec

(* The blocks of the RTL keep their registers in their types. *)
LEMMA RegistersTyped ==
  ASSUME TypeOK, NEW clear \in BOOLEAN, NEW WriteN \in Bit, NEW ReadN \in Bit,
         Registers(clear, WriteN, ReadN)
  PROVE  /\ fcounter' \in Count /\ rd_ptr' \in Count /\ wr_ptr' \in Count
         /\ F_EmptyN' \in Bit /\ F_FirstN' \in Bit /\ F_SLastN' \in Bit
         /\ F_LastN' \in Bit /\ F_FullN' \in Bit
<1> USE DEF TypeOK, Registers
<1>1. 0 \in Count
  BY RtlAssumption DEF Count
<1>2. fcounter' \in Count /\ rd_ptr' \in Count /\ wr_ptr' \in Count
  BY <1>1, CountClosed DEF Control, CountAfter
<1>3. F_EmptyN' \in Bit /\ F_FirstN' \in Bit
  BY DEF EmptyFlag, FirstFlag, Bit
<1>4. F_SLastN' \in Bit /\ F_LastN' \in Bit /\ F_FullN' \in Bit
  BY DEF SLastFlag, LastFlag, FullFlag, Bit
<1> QED
  BY <1>2, <1>3, <1>4

(* predict keeps the queue within its type and its depth. *)
LEMMA PredictTyped ==
  ASSUME TypeOK, NEW Rst_N \in Bit, NEW FClrN \in Bit, NEW FInN \in Bit,
         NEW FOutN \in Bit, NEW Data_In \in Data,
         model!Predict(Rst_N, FClrN, FInN, FOutN, Data_In)
  PROVE  model!ModelTypeOK'
<1> USE DEF TypeOK, model!ModelTypeOK
<1>1. <<>> \in Seq(Data) /\ Len(<<>>) = 0
  BY EmptySeq
<1>2. /\ model!Pushed(model_q, Data_In) \in Seq(Data)
      /\ Len(model!Pushed(model_q, Data_In)) <= FDEPTH
  <2>1. Len(model_q) \in Nat /\ Len(model_q) <= FDEPTH
    BY LenProperties
  <2>2. CASE Len(model_q) < FDEPTH
    BY <2>1, <2>2, PushedProperties, RtlAssumption
  <2>3. CASE ~(Len(model_q) < FDEPTH)
    BY <2>1, <2>3, PushedProperties
  <2> QED
    BY <2>2, <2>3
<1>3. /\ model!Popped(model_q) \in Seq(Data)
      /\ Len(model!Popped(model_q)) <= FDEPTH
  BY PoppedProperties, RtlAssumption
<1>4. /\ model!Replaced(model_q, Data_In) \in Seq(Data)
      /\ Len(model!Replaced(model_q, Data_In)) <= FDEPTH
  BY ReplacedProperties, RtlAssumption
<1> QED
  BY <1>1, <1>2, <1>3, <1>4, RtlAssumption DEF model!Predict, model!NextQ

(* A clock edge keeps the memory an array of words. *)
LEMMA MemoryTyped ==
  ASSUME memblk!MemTypeOK, NEW writeN, NEW addr, NEW d \in Data,
         memblk!MemPosedge(writeN, addr, d)
  PROVE  memblk!MemTypeOK'
BY DEF memblk!MemTypeOK, memblk!MemPosedge, memblk!Word

(* The initial states are well typed. *)
LEMMA InitTyped == CheckInit => TypeOK
<1> SUFFICES ASSUME CheckInit PROVE TypeOK
  OBVIOUS
<1>1. 0 \in Count
  BY RtlAssumption DEF Count
<1>2. memblk!MemTypeOK
  BY DEF CheckInit, RtlInit, memblk!MemInit, memblk!MemTypeOK, memblk!Word
<1>3. model!ModelTypeOK
  BY EmptySeq, RtlAssumption DEF CheckInit, model!ModelInit, model!ModelTypeOK
<1> QED
  BY <1>1, <1>2, <1>3 DEF CheckInit, RtlInit, TypeOK, Bit

(* Every step keeps the types. *)
LEMMA NextTyped == TypeOK /\ [CheckNext]_vars => TypeOK'
<1> SUFFICES ASSUME TypeOK, [CheckNext]_vars PROVE TypeOK'
  OBVIOUS
<1>1. ASSUME NEW FClrN \in Bit, NEW FInN \in Bit, NEW FOutN \in Bit,
             NEW Data_In \in Data, Cycle(FClrN, FInN, FOutN, Data_In)
      PROVE  TypeOK'
  <2>1. RstN' \in Bit
    BY <1>1 DEF Cycle, PosedgeClk, TypeOK
  <2>2. Registers(RstN = 0 \/ FClrN = 0, FInN, FOutN)
    BY <1>1 DEF Cycle, PosedgeClk
  <2>3. memblk!MemTypeOK'
    BY <1>1, MemoryTyped DEF Cycle, PosedgeClk, TypeOK
  <2>4. model!ModelTypeOK'
    BY <1>1, PredictTyped DEF Cycle, TypeOK
  <2>5. matched' \in BOOLEAN
    BY <1>1 DEF Cycle, compare
  <2>6. seen' \subseteq Kinds
    BY <1>1 DEF Cycle, KindsOf, TypeOK
  <2> QED
    BY <2>1, <2>2, <2>3, <2>4, <2>5, <2>6, RegistersTyped DEF TypeOK
<1>2. CASE AssertReset
  <2>1. Registers(TRUE, 1, 1) /\ 1 \in Bit
    BY <1>2 DEF AssertReset, NegedgeRstN, Bit
  <2> QED
    BY <1>2, <2>1, RegistersTyped
    DEF AssertReset, NegedgeRstN, TypeOK, Bit, Kinds,
        memblk!MemTypeOK, model!ModelTypeOK
<1>3. CASE ReleaseReset
  BY <1>3 DEF ReleaseReset, PosedgeRstN, TypeOK, Bit, pointers, flags,
              memblk!MemTypeOK, model!ModelTypeOK
<1>4. CASE UNCHANGED vars
  BY <1>4 DEF vars, rtlVars, TypeOK, memblk!MemTypeOK, model!ModelTypeOK
<1> QED
  BY <1>1, <1>2, <1>3, <1>4 DEF CheckNext

(* The registers hold FWIDTH-bit values, the memory words, the reference    *)
(* queue at most FDEPTH words, in every reachable state.                    *)
THEOREM Typing == CheckSpec => []TypeOK
BY InitTyped, NextTyped, PTL DEF CheckSpec

-----------------------------------------------------------------------------
(* Facts about one clock edge, used by all the proofs below. *)

(* The flags that predict expects, field by field. *)
LEMMA ExpectedFields ==
  ASSUME NEW q
  PROVE  /\ model!Expected(q).F_EmptyN = IF Len(q) = 0 THEN 0 ELSE 1
         /\ model!Expected(q).F_FirstN = IF Len(q) >= 1 THEN 0 ELSE 1
         /\ model!Expected(q).F_SLastN = IF Len(q) = FDEPTH - 2 THEN 0 ELSE 1
         /\ model!Expected(q).F_LastN  = IF Len(q) = FDEPTH - 1 THEN 0 ELSE 1
         /\ model!Expected(q).F_FullN  = IF Len(q) = FDEPTH THEN 0 ELSE 1
         /\ model!Expected(q).F_Data   = IF Len(q) > 0 THEN Head(q) ELSE X
BY DEF model!Expected, model!ActiveLow, model!data_valid

(* The queue is empty exactly when its length is 0. *)
LEMMA Occupancy ==
  ASSUME TypeOK
  PROVE  /\ model_q \in Seq(Data)
         /\ Len(model_q) \in Nat /\ Len(model_q) <= FDEPTH
         /\ Empty <=> Len(model_q) = 0
         /\ Full <=> Len(model_q) = FDEPTH
BY LenProperties, EmptySeq DEF TypeOK, model!ModelTypeOK, Empty, Full

(* An edge with reset or clear puts everything in its initial state. *)
LEMMA CycleClears ==
  ASSUME NEW FClrN, NEW FInN, NEW FOutN, NEW Data_In,
         Cycle(FClrN, FInN, FOutN, Data_In), RstN = 0 \/ FClrN = 0
  PROVE  /\ fcounter' = 0 /\ rd_ptr' = 0 /\ wr_ptr' = 0
         /\ F_EmptyN' = 0 /\ F_FirstN' = 1 /\ F_SLastN' = 1
         /\ F_LastN' = 1 /\ F_FullN' = 1
         /\ model_q' = <<>> /\ Len(model_q') = 0
         /\ seen' = {}
<1>1. Registers(TRUE, FInN, FOutN)
  BY DEF Cycle, PosedgeClk
<1>2. model_q' = <<>> /\ seen' = {}
  BY DEF Cycle, model!Predict, model!NextQ
<1> QED
  BY <1>1, <1>2, EmptySeq
  DEF Registers, Control, EmptyFlag, FirstFlag, SLastFlag, LastFlag, FullFlag

(* An edge without them runs the request branches and adds its kinds. *)
LEMMA CycleRuns ==
  ASSUME NEW FClrN \in Bit, NEW FInN \in Bit, NEW FOutN \in Bit, NEW Data_In \in Data,
         TypeOK, Cycle(FClrN, FInN, FOutN, Data_In), ~(RstN = 0 \/ FClrN = 0)
  PROVE  /\ Registers(FALSE, FInN, FOutN)
         /\ memblk!MemPosedge(FInN, wr_ptr, Data_In)
         /\ model_q' = IF FInN = 0 /\ FOutN = 1      THEN model!Pushed(model_q, Data_In)
                       ELSE IF FInN = 1 /\ FOutN = 0 THEN model!Popped(model_q)
                       ELSE IF FInN = 0 /\ FOutN = 0 THEN model!Replaced(model_q, Data_In)
                       ELSE model_q
         /\ seen' = seen \union KindsOf(FInN, FOutN)
BY DEF Cycle, PosedgeClk, model!Predict, model!NextQ, Bit, TypeOK

(* The occupancy after an edge without reset or clear. *)
LEMMA CycleOccupancy ==
  ASSUME NEW FClrN \in Bit, NEW FInN \in Bit, NEW FOutN \in Bit, NEW Data_In \in Data,
         TypeOK, Cycle(FClrN, FInN, FOutN, Data_In), ~(RstN = 0 \/ FClrN = 0)
  PROVE  Len(model_q') = IF FInN = 0 /\ FOutN = 1 /\ ~Full       THEN Len(model_q) + 1
                         ELSE IF FInN = 1 /\ FOutN = 0 /\ ~Empty THEN Len(model_q) - 1
                         ELSE Len(model_q)
<1>1. model_q' = IF FInN = 0 /\ FOutN = 1      THEN model!Pushed(model_q, Data_In)
                  ELSE IF FInN = 1 /\ FOutN = 0 THEN model!Popped(model_q)
                  ELSE IF FInN = 0 /\ FOutN = 0 THEN model!Replaced(model_q, Data_In)
                  ELSE model_q
  BY CycleRuns
<1>2. /\ model_q \in Seq(Data)
      /\ Len(model_q) \in Nat /\ Len(model_q) <= FDEPTH
      /\ Empty <=> Len(model_q) = 0
      /\ Full <=> Len(model_q) = FDEPTH
  BY Occupancy
<1>3. CASE FInN = 0 /\ FOutN = 1
  <2>1. model_q' = model!Pushed(model_q, Data_In)
    BY <1>1, <1>3
  <2>2. /\ Len(model_q) < FDEPTH => Len(model_q') = Len(model_q) + 1
        /\ ~(Len(model_q) < FDEPTH) => Len(model_q') = Len(model_q)
    BY <1>2, <2>1, PushedProperties
  <2>3. Full <=> ~(Len(model_q) < FDEPTH)
    BY <1>2, RtlAssumption
  <2> QED
    BY <1>3, <2>2, <2>3
<1>4. CASE FInN = 1 /\ FOutN = 0
  BY <1>1, <1>2, <1>4, PoppedProperties DEF Empty
<1>5. CASE FInN = 0 /\ FOutN = 0
  BY <1>1, <1>2, <1>5, ReplacedProperties DEF Empty
<1>6. CASE FInN = 1 /\ FOutN = 1
  BY <1>1, <1>6
<1> QED
  BY <1>3, <1>4, <1>5, <1>6 DEF Bit

(* If a kind is not in `seen' afterwards, the requests were not of it. *)
LEMMA KindsRecorded ==
  ASSUME NEW FInN \in Bit, NEW FOutN \in Bit, seen' = seen \union KindsOf(FInN, FOutN)
  PROVE  /\ seen \subseteq seen'
         /\ "Read" \notin seen' => ~(FInN = 1 /\ FOutN = 0 /\ ~Empty)
         /\ "ReadOnEmpty" \notin seen' => ~(FInN = 1 /\ FOutN = 0 /\ Empty)
         /\ "WriteAfterRead" \notin seen' => ~(Stores(FInN, FOutN) /\ "Read" \in seen)
         /\ "ReplaceOnEmpty" \notin seen' => ~(FInN = 0 /\ FOutN = 0 /\ Empty)
         /\ "ReplaceOnFull" \notin seen' => ~(FInN = 0 /\ FOutN = 0 /\ Full)
         /\ "PastEnd" \notin seen' => ~(Stores(FInN, FOutN) /\ wr_ptr >= FDEPTH)
         /\ "PointerWrap" \notin seen' => ~(FInN = 0 /\ wr_ptr = FMOD - 1)
BY DEF KindsOf, Kinds
-----------------------------------------------------------------------------
(* The flags exclude each other under any traffic. *)

(* FlagsConsistent is inductive: a block asserts its flag only when F_EmptyN *)
(* or F_FirstN change along with it.                                         *)
LEMMA FlagsConsistentStep == TypeOK /\ FlagsConsistent /\ [CheckNext]_vars => FlagsConsistent'
<1> SUFFICES ASSUME TypeOK, FlagsConsistent, [CheckNext]_vars PROVE FlagsConsistent'
  OBVIOUS
<1>1. ASSUME NEW FClrN \in Bit, NEW FInN \in Bit, NEW FOutN \in Bit,
             NEW Data_In \in Data, Cycle(FClrN, FInN, FOutN, Data_In)
      PROVE  FlagsConsistent'
  <2>1. CASE RstN = 0 \/ FClrN = 0
    BY <1>1, <2>1, CycleClears DEF FlagsConsistent
  <2>2. CASE ~(RstN = 0 \/ FClrN = 0)
    <3>1. Registers(FALSE, FInN, FOutN)
      BY <1>1, <2>2, CycleRuns
    <3>2. F_FullN' = 0 => F_EmptyN' = 1
      BY <3>1 DEF Registers, EmptyFlag, FullFlag, FullAsserts, FlagsConsistent, TypeOK, Bit
    <3>3. F_EmptyN' = 1 => F_FirstN' = 0
      BY <3>1 DEF Registers, EmptyFlag, FirstFlag, FirstAsserts, FlagsConsistent, TypeOK, Bit
    <3>4. F_SLastN' = 0 => F_FirstN' = 0
      BY <3>1 DEF Registers, FirstFlag, FirstAsserts, SLastFlag, SLastAsserts,
                  FlagsConsistent, TypeOK, Bit
    <3>5. F_LastN' = 0 => F_FirstN' = 0
      BY <3>1 DEF Registers, FirstFlag, FirstAsserts, LastFlag, LastAsserts,
                  FlagsConsistent, TypeOK, Bit
    <3>6. F_FullN' = 0 => F_FirstN' = 0
      BY <3>2, <3>3
    <3> QED
      BY <3>2, <3>3, <3>4, <3>5, <3>6 DEF FlagsConsistent
  <2> QED
    BY <2>1, <2>2
<1>2. CASE AssertReset
  BY <1>2 DEF AssertReset, NegedgeRstN, Registers, EmptyFlag, FirstFlag, SLastFlag,
              LastFlag, FullFlag, FlagsConsistent
<1>3. CASE ReleaseReset
  BY <1>3 DEF ReleaseReset, PosedgeRstN, flags, FlagsConsistent
<1>4. CASE UNCHANGED vars
  BY <1>4 DEF vars, rtlVars, FlagsConsistent
<1> QED
  BY <1>1, <1>2, <1>3, <1>4 DEF CheckNext

(* Full is never empty and any flag of a filled FIFO implies F_FirstN. *)
THEOREM FlagsExclude == CheckSpec => []FlagsConsistent
<1>1. CheckInit => FlagsConsistent
  BY DEF CheckInit, RtlInit, FlagsConsistent
<1> QED
  BY <1>1, Typing, FlagsConsistentStep, PTL DEF CheckSpec

-----------------------------------------------------------------------------
(* Until a word is read the counter and the flags show the occupancy. *)

(* FlagsShowOccupancy is inductive: every block is right about the next      *)
(* occupancy when all of the registers it reads are right about this one.    *)
LEMMA FlagsShowOccupancyStep ==
  TypeOK /\ FlagsShowOccupancy /\ [CheckNext]_vars => FlagsShowOccupancy'
<1> SUFFICES ASSUME TypeOK, FlagsShowOccupancy, [CheckNext]_vars PROVE FlagsShowOccupancy'
  OBVIOUS
<1> DEFINE Right(n) ==
      /\ fcounter = n
      /\ F_EmptyN = IF n = 0 THEN 0 ELSE 1
      /\ F_FirstN = IF n >= 1 THEN 0 ELSE 1
      /\ F_SLastN = IF n = FDEPTH - 2 THEN 0 ELSE 1
      /\ F_LastN  = IF n = FDEPTH - 1 THEN 0 ELSE 1
      /\ F_FullN  = IF n = FDEPTH THEN 0 ELSE 1
<1> DEFINE K == {"Read", "ReplaceOnEmpty", "ReplaceOnFull", "UnseenReset"}
<1>1. Avoided(K) => Right(Len(model_q))
  BY ExpectedFields DEF FlagsShowOccupancy, expected
<1>2. (Avoided(K)' => Right(Len(model_q))') => FlagsShowOccupancy'
  BY ExpectedFields DEF FlagsShowOccupancy, expected
<1>3. ASSUME NEW FClrN \in Bit, NEW FInN \in Bit, NEW FOutN \in Bit,
             NEW Data_In \in Data, Cycle(FClrN, FInN, FOutN, Data_In)
      PROVE  Avoided(K)' => Right(Len(model_q))'
  <2>1. CASE RstN = 0 \/ FClrN = 0
    BY <1>3, <2>1, CycleClears, RtlAssumption
  <2>2. CASE ~(RstN = 0 \/ FClrN = 0)
    <3> SUFFICES ASSUME Avoided(K)' PROVE Right(Len(model_q))'
      OBVIOUS
    <3>1. Registers(FALSE, FInN, FOutN) /\ seen' = seen \union KindsOf(FInN, FOutN)
      BY <1>3, <2>2, CycleRuns
    <3>2. /\ Len(model_q) \in Nat /\ Len(model_q) <= FDEPTH
          /\ Empty <=> Len(model_q) = 0
          /\ Full <=> Len(model_q) = FDEPTH
      BY Occupancy
    <3>3. Right(Len(model_q))
      BY <1>1, <3>1, KindsRecorded DEF Avoided
    <3>4. /\ ~(FInN = 1 /\ FOutN = 0 /\ ~Empty)
          /\ ~(FInN = 0 /\ FOutN = 0 /\ Empty)
          /\ ~(FInN = 0 /\ FOutN = 0 /\ Full)
      BY <3>1, KindsRecorded DEF Avoided
    <3>5. Len(model_q') = IF FInN = 0 /\ FOutN = 1 /\ ~Full THEN Len(model_q) + 1
                          ELSE Len(model_q)
      BY <1>3, <2>2, <3>4, CycleOccupancy
    <3>6. FDEPTH < FMOD /\ FDEPTH \in Nat /\ FDEPTH >= 3 /\ FMOD \in Nat
      BY RtlAssumption
    <3>7. CASE FInN = 0 /\ FOutN = 1
      BY <3>1, <3>2, <3>3, <3>5, <3>6, <3>7
      DEF Registers, Control, CountAfter, Inc, EmptyFlag, FirstFlag, FirstAsserts,
          SLastFlag, SLastAsserts, LastFlag, LastAsserts, FullFlag, FullAsserts
    <3>8. CASE FOutN = 0
      BY <3>1, <3>2, <3>3, <3>4, <3>5, <3>6, <3>8
      DEF Registers, Control, CountAfter, EmptyFlag, FirstFlag, FirstAsserts,
          SLastFlag, SLastAsserts, LastFlag, LastAsserts, FullFlag, FullAsserts, Bit
    <3>9. CASE FInN = 1 /\ FOutN = 1
      BY <3>1, <3>2, <3>3, <3>5, <3>6, <3>9
      DEF Registers, Control, CountAfter, EmptyFlag, FirstFlag, FirstAsserts,
          SLastFlag, SLastAsserts, LastFlag, LastAsserts, FullFlag, FullAsserts
    <3> QED
      BY <3>7, <3>8, <3>9 DEF Bit
  <2> QED
    BY <2>1, <2>2
<1>4. CASE AssertReset
  BY <1>4 DEF AssertReset, FlagsShowOccupancy, Avoided
<1>5. CASE ReleaseReset
  BY <1>5 DEF ReleaseReset, PosedgeRstN, pointers, flags, FlagsShowOccupancy, Avoided, expected
<1>6. CASE UNCHANGED vars
  BY <1>6 DEF vars, rtlVars, FlagsShowOccupancy, Avoided, expected
<1> QED
  BY <1>2, <1>3, <1>4, <1>5, <1>6 DEF CheckNext

(* The counter and all the flags agree with the reference model's occupancy  *)
(* until a word is read or a simultaneous read and write meets an end.       *)
THEOREM FlagsShow == CheckSpec => []FlagsShowOccupancy
<1>1. CheckInit => FlagsShowOccupancy
  <2> SUFFICES ASSUME CheckInit PROVE FlagsShowOccupancy
    OBVIOUS
  <2>1. Len(model_q) = 0
    BY EmptySeq DEF CheckInit, model!ModelInit
  <2>2. /\ expected.F_EmptyN = 0 /\ expected.F_FirstN = 1 /\ expected.F_SLastN = 1
        /\ expected.F_LastN = 1 /\ expected.F_FullN = 1
    <3>1. FDEPTH - 2 # 0 /\ FDEPTH - 1 # 0 /\ FDEPTH # 0 /\ ~(0 >= 1)
      BY RtlAssumption
    <3> QED
      BY <2>1, <3>1 DEF expected, model!Expected, model!ActiveLow
  <2> QED
    BY <2>1, <2>2 DEF CheckInit, RtlInit, FlagsShowOccupancy
<1> QED
  BY <1>1, Typing, FlagsShowOccupancyStep, PTL DEF CheckSpec

-----------------------------------------------------------------------------
(* Words come out in order. *)

(* Storing a word at wr and appending it keeps the words laid out. *)
LEMMA StoreLaid ==
  ASSUME NEW q \in Seq(Data), NEW rd \in Nat, NEW wr \in Nat, wr < FDEPTH,
         NEW mem \in [0 .. FDEPTH - 1 -> Data \union {X}], NEW d \in Data,
         Laid(q, rd, wr, mem),
         NEW p \in Seq(Data), Len(p) = Len(q) + 1,
         \A k \in 1 .. Len(q) : p[k] = q[k], p[Len(q) + 1] = d
  PROVE  Laid(p, rd, wr + 1, [mem EXCEPT ![wr] = d])
<1>1. Len(q) \in Nat /\ FDEPTH \in Nat
  BY LenProperties, RtlAssumption
<1>2. wr = rd + Len(q)
  BY DEF Laid
<1>3. ASSUME NEW k \in 1 .. Len(p)
      PROVE  rd + k - 1 < FDEPTH /\ [mem EXCEPT ![wr] = d][rd + k - 1] = p[k]
  <2>1. CASE k = Len(q) + 1
    BY <1>1, <1>2, <2>1
  <2>2. CASE k # Len(q) + 1
    <3>1. k \in 1 .. Len(q) /\ rd + k - 1 # wr /\ rd + k - 1 \in 0 .. FDEPTH - 1
      BY <1>1, <1>2, <1>3, <2>2 DEF Laid
    <3> QED
      BY <3>1 DEF Laid
  <2> QED
    BY <2>1, <2>2
<1> QED
  BY <1>1, <1>2, <1>3 DEF Laid

(* Moving rd to the next word and dropping the oldest keeps them laid out. *)
LEMMA DropLaid ==
  ASSUME NEW q \in Seq(Data), q # <<>>, NEW rd \in Nat, NEW wr \in Nat, NEW mem,
         Laid(q, rd, wr, mem)
  PROVE  Laid(Tail(q), rd + 1, wr, mem) /\ rd < FDEPTH
<1>1. /\ Len(q) \in Nat \ {0} /\ FDEPTH \in Nat
      /\ Len(Tail(q)) = Len(q) - 1
      /\ \A k \in 1 .. Len(q) - 1 : Tail(q)[k] = q[k + 1]
  BY HeadTailProperties, EmptySeq, RtlAssumption
<1>2. rd + 1 - 1 < FDEPTH
  BY <1>1 DEF Laid
<1>3. ASSUME NEW k \in 1 .. Len(Tail(q))
      PROVE  rd + 1 + k - 1 < FDEPTH /\ mem[rd + 1 + k - 1] = Tail(q)[k]
  <2>1. k + 1 \in 1 .. Len(q) /\ rd + 1 + k - 1 = rd + (k + 1) - 1
    BY <1>1
  <2>2. rd + (k + 1) - 1 < FDEPTH /\ mem[rd + (k + 1) - 1] = q[k + 1]
    BY <2>1 DEF Laid
  <2> QED
    BY <1>1, <2>1, <2>2
<1> QED
  BY <1>1, <1>2, <1>3 DEF Laid

(* DataInv is inductive. *)
LEMMA DataInvStep == TypeOK /\ DataInv /\ [CheckNext]_vars => DataInv'
<1> SUFFICES ASSUME TypeOK, DataInv, [CheckNext]_vars PROVE DataInv'
  OBVIOUS
<1> DEFINE K == {"ReadOnEmpty", "PastEnd", "PointerWrap", "UnseenReset"}
<1>1. ASSUME NEW FClrN \in Bit, NEW FInN \in Bit, NEW FOutN \in Bit,
             NEW Data_In \in Data, Cycle(FClrN, FInN, FOutN, Data_In)
      PROVE  DataInv'
  <2>1. CASE RstN = 0 \/ FClrN = 0
    <3>1. rd_ptr' = 0 /\ wr_ptr' = 0 /\ Len(model_q') = 0
      BY <1>1, <2>1, CycleClears
    <3> QED
      BY <3>1, RtlAssumption DEF DataInv, Laid
  <2>2. CASE ~(RstN = 0 \/ FClrN = 0)
    <3> SUFFICES ASSUME Avoided(K)' PROVE Laid(model_q, rd_ptr, wr_ptr, FIFO)'
      BY DEF DataInv
    <3>1. /\ Control(FALSE, FInN, FOutN)
          /\ memblk!MemPosedge(FInN, wr_ptr, Data_In)
          /\ model_q' = IF FInN = 0 /\ FOutN = 1      THEN model!Pushed(model_q, Data_In)
                        ELSE IF FInN = 1 /\ FOutN = 0 THEN model!Popped(model_q)
                        ELSE IF FInN = 0 /\ FOutN = 0 THEN model!Replaced(model_q, Data_In)
                        ELSE model_q
          /\ seen' = seen \union KindsOf(FInN, FOutN)
      BY <1>1, <2>2, CycleRuns DEF Registers
    <3>2. /\ model_q \in Seq(Data)
          /\ Len(model_q) \in Nat /\ Len(model_q) <= FDEPTH
          /\ Empty <=> Len(model_q) = 0
          /\ Full <=> Len(model_q) = FDEPTH
      BY Occupancy
    <3>3. /\ rd_ptr \in Nat /\ wr_ptr \in Nat /\ rd_ptr < FMOD /\ wr_ptr < FMOD
          /\ FDEPTH \in Nat /\ FMOD \in Nat /\ FDEPTH < FMOD /\ FDEPTH > 0
          /\ FIFO \in [0 .. FDEPTH - 1 -> Data \union {X}]
      BY RtlAssumption DEF TypeOK, Count, memblk!MemTypeOK, memblk!Addresses, memblk!Word
    <3>4. Laid(model_q, rd_ptr, wr_ptr, FIFO)
      BY <3>1, KindsRecorded DEF DataInv, Avoided
    <3>5. /\ ~(FInN = 1 /\ FOutN = 0 /\ Empty)
          /\ Stores(FInN, FOutN) => wr_ptr < FDEPTH
          /\ FInN = 0 => wr_ptr # FMOD - 1
      <4>1. ~(Stores(FInN, FOutN) /\ wr_ptr >= FDEPTH)
        BY <3>1, KindsRecorded DEF Avoided
      <4> QED
        BY <3>1, <3>3, <4>1, KindsRecorded DEF Avoided
    <3>6. ~Empty => Laid(Tail(model_q), rd_ptr + 1, wr_ptr, FIFO) /\ rd_ptr < FDEPTH
      BY <3>2, <3>3, <3>4, DropLaid DEF Empty
    <3>7. /\ FInN = 0 => wr_ptr' = wr_ptr + 1
          /\ FInN = 1 => wr_ptr' = wr_ptr
          /\ FOutN = 1 => rd_ptr' = rd_ptr
          /\ FOutN = 0 => rd_ptr' = IF rd_ptr = FMOD - 1 THEN 0 ELSE rd_ptr + 1
      BY <3>1, <3>5 DEF Control, Inc
    <3>8. /\ FInN = 0 /\ wr_ptr < FDEPTH => FIFO' = [FIFO EXCEPT ![wr_ptr] = Data_In]
          /\ FInN = 1 \/ ~(wr_ptr < FDEPTH) => FIFO' = FIFO
      BY <3>1, <3>3 DEF memblk!MemPosedge, memblk!Addresses
    <3>9. CASE FInN = 0 /\ FOutN = 1 /\ ~Full
      <4>1. /\ model_q' = model!Pushed(model_q, Data_In)
            /\ wr_ptr < FDEPTH
            /\ Len(model_q) < FDEPTH
        BY <3>1, <3>2, <3>3, <3>5, <3>9 DEF Stores
      <4>2. /\ model_q' \in Seq(Data)
            /\ Len(model_q') = Len(model_q) + 1
            /\ \A k \in 1 .. Len(model_q) : model_q'[k] = model_q[k]
            /\ model_q'[Len(model_q) + 1] = Data_In
        BY <3>2, <4>1, PushedProperties
      <4>3. Laid(model_q', rd_ptr, wr_ptr + 1, [FIFO EXCEPT ![wr_ptr] = Data_In])
        BY <3>2, <3>3, <3>4, <4>1, <4>2, StoreLaid
      <4> QED
        BY <3>7, <3>8, <3>9, <4>1, <4>3
    <3>10. CASE FInN = 0 /\ FOutN = 1 /\ Full
      <4>1. model_q' = model_q
        <5>1. model_q' = model!Pushed(model_q, Data_In)
          BY <3>1, <3>10
        <5> QED
          BY <3>2, <3>3, <3>10, <5>1, PushedProperties
      <4>2. ~(wr_ptr < FDEPTH)
        BY <3>2, <3>3, <3>4, <3>10 DEF Laid
      <4> QED
        BY <3>2, <3>3, <3>4, <3>7, <3>8, <3>10, <4>1, <4>2 DEF Laid
    <3>11. CASE FInN = 1 /\ FOutN = 0
      <4>1. model_q' = Tail(model_q)
        BY <3>1, <3>5, <3>11 DEF Empty, model!Popped
      <4> QED
        BY <3>3, <3>5, <3>6, <3>7, <3>8, <3>11, <4>1
    <3>12. CASE FInN = 0 /\ FOutN = 0 /\ Empty
      <4>1. model_q' = model_q
        BY <3>1, <3>12 DEF Empty, model!Replaced
      <4>2. rd_ptr' = rd_ptr + 1
        BY <3>3, <3>4, <3>5, <3>7, <3>12 DEF Laid
      <4> QED
        BY <3>2, <3>3, <3>4, <3>7, <3>12, <4>1, <4>2 DEF Laid
    <3>13. CASE FInN = 0 /\ FOutN = 0 /\ ~Empty
      <4>1. model_q' = Append(Tail(model_q), Data_In) /\ wr_ptr < FDEPTH
        BY <3>1, <3>5, <3>13 DEF Empty, Stores, model!Replaced
      <4>2. Tail(model_q) \in Seq(Data)
        BY <3>2, <3>13, HeadTailProperties DEF Empty
      <4>3. /\ model_q' \in Seq(Data)
            /\ Len(model_q') = Len(Tail(model_q)) + 1
            /\ \A k \in 1 .. Len(Tail(model_q)) : model_q'[k] = Tail(model_q)[k]
            /\ model_q'[Len(Tail(model_q)) + 1] = Data_In
        BY <4>1, <4>2, AppendProperties
      <4>4. rd_ptr + 1 \in Nat /\ Laid(Tail(model_q), rd_ptr + 1, wr_ptr, FIFO)
        BY <3>3, <3>6, <3>13
      <4>5. Laid(model_q', rd_ptr + 1, wr_ptr + 1, [FIFO EXCEPT ![wr_ptr] = Data_In])
        BY <3>3, <4>1, <4>2, <4>3, <4>4, StoreLaid
      <4>6. rd_ptr' = rd_ptr + 1
        BY <3>3, <3>6, <3>7, <3>13
      <4> QED
        BY <3>7, <3>8, <3>13, <4>1, <4>5, <4>6
    <3>14. CASE FInN = 1 /\ FOutN = 1
      BY <3>1, <3>4, <3>7, <3>8, <3>14
    <3> QED
      BY <3>9, <3>10, <3>11, <3>12, <3>13, <3>14 DEF Bit
  <2> QED
    BY <2>1, <2>2
<1>2. CASE AssertReset
  BY <1>2 DEF AssertReset, DataInv, Avoided
<1>3. CASE ReleaseReset
  BY <1>3 DEF ReleaseReset, PosedgeRstN, pointers, DataInv, Avoided
<1>4. CASE UNCHANGED vars
  BY <1>4 DEF vars, rtlVars, DataInv, Avoided
<1> QED
  BY <1>1, <1>2, <1>3, <1>4 DEF CheckNext

(* Words come out whole and in order until a read meets an empty FIFO or a   *)
(* word is stored past the end of the memory.                                *)
THEOREM InOrder == CheckSpec => []DataInOrder
<1>1. CheckInit => DataInv
  <2> SUFFICES ASSUME CheckInit PROVE DataInv
    OBVIOUS
  <2>1. Len(model_q) = 0 /\ rd_ptr = 0 /\ wr_ptr = 0
    BY EmptySeq DEF CheckInit, RtlInit, model!ModelInit
  <2> QED
    BY <2>1, RtlAssumption DEF DataInv, Laid
<1>2. TypeOK /\ DataInv => DataInOrder
  <2> SUFFICES ASSUME TypeOK, DataInv, ~Empty,
                      Avoided({"ReadOnEmpty", "PastEnd", "PointerWrap", "UnseenReset"})
               PROVE  F_Data = expected.F_Data
    BY DEF DataInOrder
  <2>1. Len(model_q) \in Nat \ {0} /\ Head(model_q) = model_q[1]
    BY Occupancy, HeadTailProperties DEF Empty
  <2>2. rd_ptr \in Nat /\ FDEPTH \in Nat
    BY RtlAssumption DEF TypeOK, Count
  <2>3. rd_ptr + 1 - 1 < FDEPTH /\ FIFO[rd_ptr + 1 - 1] = model_q[1]
    BY <2>1 DEF DataInv, Laid
  <2>4. F_Data = model_q[1]
    BY <2>2, <2>3 DEF F_Data, memblk!data_out, memblk!Addresses
  <2>5. expected.F_Data = Head(model_q)
    BY <2>1, ExpectedFields DEF expected
  <2> QED
    BY <2>1, <2>4, <2>5
<1> QED
  BY <1>1, <1>2, Typing, DataInvStep, PTL DEF CheckSpec

-----------------------------------------------------------------------------
(* The scoreboard never reports an error on clean traffic. *)

(* The comparison of an edge is right about the state after the edge. *)
LEMMA CleanStep ==
  TypeOK' /\ FlagsShowOccupancy' /\ DataInOrder' /\ CleanTrafficMatches /\ [CheckNext]_vars
    => CleanTrafficMatches'
<1> SUFFICES ASSUME TypeOK', FlagsShowOccupancy', DataInOrder', CleanTrafficMatches,
                    [CheckNext]_vars, seen' = {}
             PROVE  matched'
  BY DEF CleanTrafficMatches
<1>1. ASSUME NEW FClrN \in Bit, NEW FInN \in Bit, NEW FOutN \in Bit,
             NEW Data_In \in Data, Cycle(FClrN, FInN, FOutN, Data_In)
      PROVE  matched'
  <2>1. matched' = compare(flags', F_Data', model_q')
    BY <1>1 DEF Cycle
  <2>2. flags' = <<expected'.F_EmptyN, expected'.F_FirstN, expected'.F_SLastN,
                   expected'.F_LastN, expected'.F_FullN>>
    BY DEF FlagsShowOccupancy, Avoided, flags
  <2>3. ~Empty' => F_Data' = expected'.F_Data
    BY DEF DataInOrder, Avoided
  <2>4. model!data_valid(model_q') => ~Empty'
    BY EmptySeq DEF model!data_valid, Empty
  <2> QED
    BY <2>1, <2>2, <2>3, <2>4 DEF compare, expected
<1>2. CASE AssertReset
  BY <1>2 DEF AssertReset
<1>3. CASE ReleaseReset
  BY <1>3 DEF ReleaseReset, CleanTrafficMatches
<1>4. CASE UNCHANGED vars
  BY <1>4 DEF vars, CleanTrafficMatches
<1> QED
  BY <1>1, <1>2, <1>3, <1>4 DEF CheckNext

(* Fill, idle, overfill, replace and clear never make the scoreboard fail. *)
THEOREM CleanMatches == CheckSpec => []CleanTrafficMatches
<1>1. CheckInit => CleanTrafficMatches
  BY DEF CheckInit, CleanTrafficMatches
<1> QED
  BY <1>1, Typing, FlagsShow, InOrder, CleanStep, PTL DEF CheckSpec
-----------------------------------------------------------------------------
(* The scoreboard reports the first request that upsets the flags. *)

(* A read leaves F_EmptyN and F_FirstN both asserted, a replacement at an    *)
(* end deasserts the flag of that end: no occupancy agrees with either.      *)
LEMMA UpsetStep ==
  ASSUME TypeOK, TypeOK', FlagsShowOccupancy, [CheckNext]_vars,
         Avoided(Upsetting \union {"UnseenReset"}), ~Avoided(Upsetting)'
  PROVE  ~matched'
<1>1. PICK FClrN \in Bit, FInN \in Bit, FOutN \in Bit, Data_In \in Data :
        Cycle(FClrN, FInN, FOutN, Data_In)
  BY DEF CheckNext, AssertReset, ReleaseReset, vars, Avoided, Upsetting
<1>2. ~(RstN = 0 \/ FClrN = 0)
  BY <1>1, CycleClears DEF Avoided
<1>3. Registers(FALSE, FInN, FOutN) /\ seen' = seen \union KindsOf(FInN, FOutN)
  BY <1>1, <1>2, CycleRuns
<1>4. \/ FInN = 1 /\ FOutN = 0 /\ ~Empty
      \/ FInN = 0 /\ FOutN = 0 /\ (Empty \/ Full)
  BY <1>3 DEF KindsOf, Avoided, Upsetting
<1>5. /\ Len(model_q) \in Nat /\ Len(model_q') \in Nat
      /\ Empty <=> Len(model_q) = 0
      /\ Full <=> Len(model_q) = FDEPTH
  <2>1. Len(model_q') \in Nat
    BY LenProperties DEF TypeOK, model!ModelTypeOK
  <2> QED
    BY <2>1, Occupancy
<1>6. Len(model_q') = IF FInN = 1 THEN Len(model_q) - 1 ELSE Len(model_q)
  BY <1>1, <1>2, <1>4, CycleOccupancy
<1>7. /\ F_EmptyN = IF Len(model_q) = 0 THEN 0 ELSE 1
      /\ F_FirstN = IF Len(model_q) >= 1 THEN 0 ELSE 1
      /\ F_FullN  = IF Len(model_q) = FDEPTH THEN 0 ELSE 1
  BY ExpectedFields DEF FlagsShowOccupancy, Avoided, Upsetting, expected
<1>8. matched' =>
        /\ F_EmptyN' = IF Len(model_q') = 0 THEN 0 ELSE 1
        /\ F_FirstN' = IF Len(model_q') >= 1 THEN 0 ELSE 1
        /\ F_FullN'  = IF Len(model_q') = FDEPTH THEN 0 ELSE 1
  <2>1. matched' = compare(flags', F_Data', model_q')
    BY <1>1 DEF Cycle
  <2> QED
    BY <2>1, ExpectedFields DEF compare, flags
<1>9. CASE FInN = 1
  <2>1. F_EmptyN' = 0 /\ F_FirstN' = 0
    BY <1>3, <1>4, <1>5, <1>7, <1>9 DEF Registers, EmptyFlag, FirstFlag, FirstAsserts
  <2> QED
    BY <1>5, <1>8, <2>1
<1>10. CASE FInN = 0 /\ Empty
  <2>1. F_EmptyN' = 1 /\ Len(model_q') = 0
    BY <1>3, <1>5, <1>6, <1>7, <1>10 DEF Registers, EmptyFlag
  <2> QED
    BY <1>8, <2>1
<1>11. CASE FInN = 0 /\ Full
  <2>1. F_FullN' = 1 /\ Len(model_q') = FDEPTH
    BY <1>3, <1>4, <1>5, <1>6, <1>7, <1>11 DEF Registers, FullFlag, FullAsserts
  <2> QED
    BY <1>8, <2>1
<1> QED
  BY <1>4, <1>9, <1>10, <1>11

(* The scoreboard misses no first read of a stored word and no first         *)
(* replacement at an end, for every depth and any traffic before it.         *)
THEOREM UpsetsAreReported == CheckSpec => UpsetIsReported
<1>1. TypeOK /\ TypeOK' /\ FlagsShowOccupancy /\ [CheckNext]_vars
        => [Avoided(Upsetting \union {"UnseenReset"}) /\ ~Avoided(Upsetting)' => ~matched']_vars
  BY UpsetStep
<1> QED
  BY <1>1, Typing, FlagsShow, PTL DEF CheckSpec, UpsetIsReported

-----------------------------------------------------------------------------
(* The flags of the upper end stay right while the FIFO drains. *)

(* UpperInv is inductive given FlagsShowOccupancy, which settles every state *)
(* before the first read; after it only reads and idle cycles are left.      *)
LEMMA UpperInvStep ==
  TypeOK /\ UpperInv /\ TypeOK' /\ FlagsShowOccupancy' /\ [CheckNext]_vars => UpperInv'
<1> SUFFICES ASSUME TypeOK, UpperInv, TypeOK', FlagsShowOccupancy', [CheckNext]_vars
             PROVE  UpperInv'
  OBVIOUS
<1> DEFINE K == {"WriteAfterRead", "ReplaceOnEmpty", "ReplaceOnFull", "UnseenReset"}
<1> DEFINE Right(n) ==
      /\ F_SLastN = IF n = FDEPTH - 2 THEN 0 ELSE 1
      /\ F_LastN  = IF n = FDEPTH - 1 THEN 0 ELSE 1
      /\ F_FullN  = IF n = FDEPTH THEN 0 ELSE 1
      /\ "Read" \in seen => n # FDEPTH
<1>1. Avoided(K) => Right(Len(model_q))
  BY ExpectedFields DEF UpperInv, expected, Full
<1>2. (Avoided(K)' => Right(Len(model_q))') => UpperInv'
  BY ExpectedFields DEF UpperInv, expected, Full
<1>3. ASSUME NEW FClrN \in Bit, NEW FInN \in Bit, NEW FOutN \in Bit,
             NEW Data_In \in Data, Cycle(FClrN, FInN, FOutN, Data_In)
      PROVE  UpperInv'
  <2>1. CASE "Read" \notin seen'
    BY <2>1 DEF FlagsShowOccupancy, UpperInv, Avoided
  <2>2. CASE "Read" \in seen'
    <3> SUFFICES ASSUME Avoided(K)' PROVE Right(Len(model_q))'
      BY <1>2
    <3>1. ~(RstN = 0 \/ FClrN = 0)
      BY <1>3, <2>2, CycleClears
    <3>2. Registers(FALSE, FInN, FOutN) /\ seen' = seen \union KindsOf(FInN, FOutN)
      BY <1>3, <3>1, CycleRuns
    <3>3. /\ Len(model_q) \in Nat /\ Len(model_q) <= FDEPTH
          /\ Empty <=> Len(model_q) = 0
          /\ Full <=> Len(model_q) = FDEPTH
      BY Occupancy
    <3>4. Right(Len(model_q))
      BY <1>1, <3>2, KindsRecorded DEF Avoided
    <3>5. FInN = 1
      <4>1. /\ ~(Stores(FInN, FOutN) /\ "Read" \in seen)
            /\ ~(FInN = 0 /\ FOutN = 0 /\ Empty)
        BY <3>2, KindsRecorded DEF Avoided
      <4>2. FInN = 0 => "Read" \in seen
        BY <2>2, <3>2 DEF KindsOf
      <4> QED
        BY <3>3, <3>4, <4>1, <4>2 DEF Stores, Bit
    <3>6. Len(model_q') = IF FOutN = 0 /\ ~Empty THEN Len(model_q) - 1 ELSE Len(model_q)
      BY <1>3, <3>1, <3>5, CycleOccupancy
    <3>7. FDEPTH \in Nat /\ FDEPTH >= 3
      BY RtlAssumption
    <3>8. CASE FOutN = 0
      BY <3>2, <3>3, <3>4, <3>5, <3>6, <3>7, <3>8
      DEF Registers, SLastFlag, SLastAsserts, LastFlag, LastAsserts, FullFlag, FullAsserts
    <3>9. CASE FOutN = 1
      <4>1. "Read" \in seen
        BY <2>2, <3>2, <3>9 DEF KindsOf
      <4> QED
        BY <3>2, <3>4, <3>5, <3>6, <3>9, <4>1
        DEF Registers, SLastFlag, SLastAsserts, LastFlag, LastAsserts, FullFlag, FullAsserts
    <3> QED
      BY <3>8, <3>9 DEF Bit
  <2> QED
    BY <2>1, <2>2
<1>4. CASE AssertReset
  BY <1>4 DEF AssertReset, UpperInv, Avoided
<1>5. CASE ReleaseReset
  BY <1>5 DEF ReleaseReset, PosedgeRstN, flags, UpperInv, Avoided, expected, Full
<1>6. CASE UNCHANGED vars
  BY <1>6 DEF vars, rtlVars, UpperInv, Avoided, expected, Full
<1> QED
  BY <1>3, <1>4, <1>5, <1>6 DEF CheckNext

(* F_SLastN, F_LastN and F_FullN agree with the reference model while the    *)
(* FIFO fills and then drains.                                               *)
THEOREM UpperFlagsShow == CheckSpec => []UpperFlagsShowOccupancy
<1>1. CheckInit /\ FlagsShowOccupancy => UpperInv
  BY DEF CheckInit, FlagsShowOccupancy, UpperInv, Avoided
<1>2. UpperInv => UpperFlagsShowOccupancy
  BY DEF UpperInv, UpperFlagsShowOccupancy
<1> QED
  BY <1>1, <1>2, Typing, FlagsShow, UpperInvStep, PTL DEF CheckSpec

-----------------------------------------------------------------------------
(* A FIFO that reports full has its write pointer outside the memory. *)

(* What FullIsPastEnd rests on: fcounter is at most wr_ptr or has passed 0   *)
(* downwards, once for each time F_EmptyN was deasserted, which takes a      *)
(* write each time.                                                          *)
PastEndInv ==
  "PointerWrap" \notin seen =>
    /\ F_EmptyN <= wr_ptr
    /\ fcounter <= wr_ptr \/ FMOD - fcounter + F_EmptyN <= wr_ptr
    /\ F_LastN = 0 => wr_ptr >= FDEPTH - 1
    /\ F_FullN = 0 => wr_ptr >= FDEPTH

(* PastEndInv is inductive given that F_EmptyN = 1 implies F_FirstN = 0. *)
LEMMA PastEndInvStep ==
  ASSUME FMOD >= 2 * FDEPTH - 4
  PROVE  TypeOK /\ FlagsConsistent /\ PastEndInv /\ [CheckNext]_vars => PastEndInv'
<1> SUFFICES ASSUME TypeOK, FlagsConsistent, PastEndInv, [CheckNext]_vars PROVE PastEndInv'
  OBVIOUS
<1>0. FDEPTH \in Nat /\ FDEPTH >= 3 /\ FMOD \in Nat /\ FMOD > FDEPTH
  BY RtlAssumption
<1>1. ASSUME NEW FClrN \in Bit, NEW FInN \in Bit, NEW FOutN \in Bit,
             NEW Data_In \in Data, Cycle(FClrN, FInN, FOutN, Data_In)
      PROVE  PastEndInv'
  <2>1. CASE RstN = 0 \/ FClrN = 0
    BY <1>1, <2>1, CycleClears DEF PastEndInv
  <2>2. CASE ~(RstN = 0 \/ FClrN = 0)
    <3> SUFFICES ASSUME "PointerWrap" \notin seen'
                 PROVE  PastEndInv'
      BY DEF PastEndInv
    <3>1. Registers(FALSE, FInN, FOutN) /\ seen' = seen \union KindsOf(FInN, FOutN)
      BY <1>1, <2>2, CycleRuns
    <3>2. "PointerWrap" \notin seen /\ (FInN = 0 => wr_ptr # FMOD - 1)
      BY <3>1, KindsRecorded
    <3>3. wr_ptr' = IF FInN = 0 THEN wr_ptr + 1 ELSE wr_ptr
      BY <3>1, <3>2 DEF Registers, Control, Inc
    <3>4. /\ fcounter \in Nat /\ wr_ptr \in Nat /\ fcounter < FMOD /\ wr_ptr < FMOD
          /\ F_EmptyN \in Bit /\ F_LastN \in Bit /\ F_FullN \in Bit
      BY <1>0 DEF TypeOK, Count
    <3>5. F_EmptyN' = IF F_EmptyN = 0 /\ FInN = 0 THEN 1
                      ELSE IF F_EmptyN = 1 /\ FOutN = 0 /\ FInN = 1 THEN 0
                      ELSE F_EmptyN
      BY <3>1, <3>4 DEF Registers, EmptyFlag, FlagsConsistent, Bit
    <3>6. F_EmptyN' <= wr_ptr'
      BY <3>2, <3>3, <3>4, <3>5 DEF PastEndInv, Bit
    <3>7. fcounter' <= wr_ptr' \/ FMOD - fcounter' + F_EmptyN' <= wr_ptr'
      <4>1. fcounter' = CountAfter(FInN, FOutN)
        BY <3>1 DEF Registers, Control
      <4> QED
        BY <1>0, <3>2, <3>3, <3>4, <3>5, <4>1 DEF PastEndInv, CountAfter, Inc, Dec, Bit
    <3>8. F_LastN' = 0 => wr_ptr' >= FDEPTH - 1
      <4>1. CASE fcounter = FDEPTH - 2
        <5>1. wr_ptr >= FDEPTH - 2
          BY <1>0, <3>2, <3>4, <4>1 DEF PastEndInv, Bit
        <5> QED
          BY <1>0, <3>1, <3>2, <3>3, <3>4, <4>1, <5>1
          DEF Registers, LastFlag, LastAsserts, PastEndInv, Bit
      <4>2. CASE fcounter # FDEPTH - 2
        BY <1>0, <3>1, <3>2, <3>3, <3>4, <4>2
        DEF Registers, LastFlag, LastAsserts, PastEndInv, Bit
      <4> QED
        BY <4>1, <4>2
    <3>9. F_FullN' = 0 => wr_ptr' >= FDEPTH
      BY <1>0, <3>1, <3>2, <3>3, <3>4 DEF Registers, FullFlag, FullAsserts, PastEndInv, Bit
    <3> QED
      BY <3>6, <3>7, <3>8, <3>9 DEF PastEndInv
  <2> QED
    BY <2>1, <2>2
<1>2. CASE AssertReset
  BY <1>2 DEF AssertReset, NegedgeRstN, Registers, Control, EmptyFlag, LastFlag, FullFlag,
              PastEndInv
<1>3. CASE ReleaseReset
  BY <1>3 DEF ReleaseReset, PosedgeRstN, pointers, flags, PastEndInv
<1>4. CASE UNCHANGED vars
  BY <1>4 DEF vars, rtlVars, PastEndInv
<1> QED
  BY <1>1, <1>2, <1>3, <1>4 DEF CheckNext

(* Under any traffic an overfilling write lies outside the memory, provided  *)
(* the registers are about twice as wide as the depth needs.                 *)
THEOREM FullPastEnd ==
  ASSUME FMOD >= 2 * FDEPTH - 4
  PROVE  CheckSpec => []FullIsPastEnd
<1>1. CheckInit => PastEndInv
  BY RtlAssumption DEF CheckInit, RtlInit, PastEndInv
<1>2. PastEndInv => FullIsPastEnd
  BY DEF PastEndInv, FullIsPastEnd
<1> QED
  BY <1>1, <1>2, Typing, FlagsExclude, PastEndInvStep, PTL DEF CheckSpec
=============================================================================
