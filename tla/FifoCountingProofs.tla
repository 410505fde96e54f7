------------------------- MODULE FifoCountingProofs -------------------------
(***************************************************************************)
(* Proofs about FifoCounting for every depth, register width and set of    *)
(* words.                                                                  *)
(***************************************************************************)
EXTENDS FifoCounting, SequenceTheorems, TLAPS

-----------------------------------------------------------------------------
(* The words in the memory. *)

(* The cells from rd up to wr, those inside the memory, hold words. *)
Stored(rd, wr, mem) ==
  /\ rd \in Nat /\ wr \in Nat /\ rd <= wr
  /\ mem \in [memblk!Addresses -> memblk!Word]
  /\ \A a \in memblk!Addresses : rd <= a /\ a < wr => mem[a] \in Data

(* The number of the words, and that they are words. *)
LEMMA WordsShape ==
  ASSUME NEW rd, NEW wr, NEW mem, Stored(rd, wr, mem)
  PROVE  /\ End(wr) - rd \in Int /\ End(wr) - rd <= FDEPTH
         /\ Words(rd, wr, mem) \in Seq(Data)
         /\ Len(Words(rd, wr, mem)) = IF End(wr) - rd > 0 THEN End(wr) - rd ELSE 0
         /\ \A i \in 1 .. End(wr) - rd : Words(rd, wr, mem)[i] = mem[rd + i - 1]
         /\ Words(rd, wr, mem) = <<>> <=> End(wr) - rd <= 0
<1> DEFINE h == End(wr) - rd
           n == IF h > 0 THEN h ELSE 0
           w == Words(rd, wr, mem)
<1>1. FDEPTH \in Nat /\ rd \in Nat /\ wr \in Nat /\ rd <= wr
  BY RtlAssumption DEF Stored
<1>2. h \in Int /\ h <= FDEPTH /\ rd + h <= FDEPTH /\ rd + h <= wr
  BY <1>1 DEF End
<1>3. n \in Nat /\ 1 .. h = 1 .. n
  BY <1>2
<1>4. w = [i \in 1 .. n |-> mem[rd + i - 1]]
  BY <1>3 DEF Words
<1>5. \A i \in 1 .. n : mem[rd + i - 1] \in Data
  <2>1. ASSUME NEW i \in 1 .. n
        PROVE  rd + i - 1 \in memblk!Addresses /\ rd <= rd + i - 1 /\ rd + i - 1 < wr
    <3> HIDE DEF h
    <3> QED
      BY <1>1, <1>2 DEF memblk!Addresses
  <2> QED
    BY <2>1 DEF Stored
<1>6. w \in Seq(Data) /\ Len(w) = n
  <2> HIDE DEF n, w
  <2>1. w \in [1 .. n -> Data]
    BY <1>4, <1>5
  <2>2. w \in Seq(Data)
    BY <1>3, <2>1, SeqDef
  <2>3. DOMAIN w = 1 .. n /\ DOMAIN w = 1 .. Len(w) /\ Len(w) \in Nat
    BY <2>1, <2>2, LenProperties
  <2> QED
    BY <1>3, <2>2, <2>3
<1>7. w = <<>> <=> n = 0
  BY <1>6, EmptySeq
<1> QED
  <2> HIDE DEF h, w
  <2>1. \A i \in 1 .. h : w[i] = mem[rd + i - 1]
    BY <1>3, <1>4
  <2>2. n = 0 <=> h <= 0
    BY <1>2
  <2>3. h \in Int /\ h <= FDEPTH /\ w \in Seq(Data) /\ Len(w) = n /\ (w = <<>> <=> h <= 0)
    BY <1>2, <1>6, <1>7, <2>2
  <2> QED
    BY <2>1, <2>3 DEF h, w

(* Storing a word in the cell of the write pointer appends it to the words. *)
LEMMA StoreAppends ==
  ASSUME NEW rd, NEW wr, NEW mem, Stored(rd, wr, mem), NEW d \in Data, wr < FDEPTH,
         NEW wr2 \in Nat, wr2 - wr = 1,
         NEW mem2 \in [memblk!Addresses -> memblk!Word], mem2[wr] = d,
         \A a \in memblk!Addresses : a # wr => mem2[a] = mem[a]
  PROVE  /\ Stored(rd, wr2, mem2)
         /\ Words(rd, wr2, mem2) = Append(Words(rd, wr, mem), d)
<1> DEFINE w == Words(rd, wr, mem)
           w2 == Words(rd, wr2, mem2)
           h == wr - rd
<1>1. /\ FDEPTH \in Nat /\ rd \in Nat /\ wr \in Nat /\ rd <= wr
      /\ wr \in memblk!Addresses /\ h \in Nat
  BY RtlAssumption DEF Stored, memblk!Addresses
<1>2. mem2[wr] = d /\ \A a \in memblk!Addresses : a # wr => mem2[a] = mem[a]
  OBVIOUS
<1>3. Stored(rd, wr2, mem2)
  <2>1. ASSUME NEW a \in memblk!Addresses, rd <= a, a < wr2 PROVE mem2[a] \in Data
    <3>1. a = wr \/ (a # wr /\ a < wr)
      BY <1>1, <2>1 DEF memblk!Addresses
    <3> QED
      BY <1>2, <2>1, <3>1 DEF Stored
  <2>2. wr2 \in Nat /\ rd <= wr2
    BY <1>1
  <2> QED
    BY <1>1, <1>2, <2>1, <2>2 DEF Stored
<1>4. End(wr) - rd = h /\ End(wr2) - rd = h + 1
  BY <1>1 DEF End
<1>5. w \in Seq(Data) /\ Len(w) = h /\ \A i \in 1 .. h : w[i] = mem[rd + i - 1]
  <2>1. /\ w \in Seq(Data) /\ Len(w) = IF End(wr) - rd > 0 THEN End(wr) - rd ELSE 0
        /\ \A i \in 1 .. End(wr) - rd : w[i] = mem[rd + i - 1]
    BY WordsShape
  <2> HIDE DEF w, h
  <2> QED
    BY <1>1, <1>4, <2>1
<1>6. w2 \in Seq(Data) /\ Len(w2) = h + 1 /\ \A i \in 1 .. h + 1 : w2[i] = mem2[rd + i - 1]
  <2>1. /\ w2 \in Seq(Data)
        /\ Len(w2) = IF End(wr2) - rd > 0 THEN End(wr2) - rd ELSE 0
        /\ \A i \in 1 .. End(wr2) - rd : w2[i] = mem2[rd + i - 1]
    BY <1>3, WordsShape
  <2> HIDE DEF w2, h
  <2> QED
    BY <1>1, <1>4, <2>1
<1>7. /\ Append(w, d) \in Seq(Data) /\ Len(Append(w, d)) = h + 1
      /\ \A i \in 1 .. h : Append(w, d)[i] = w[i]
      /\ Append(w, d)[h + 1] = d
  <2> HIDE DEF w
  <2> QED
    BY <1>5, AppendProperties
<1>8. ASSUME NEW i \in 1 .. h + 1 PROVE w2[i] = Append(w, d)[i]
  <2>1. CASE i = h + 1
    <3>1. rd + i - 1 = wr
      BY <1>1, <2>1
    <3> HIDE DEF w, w2, h
    <3> QED
      BY <1>2, <1>6, <1>7, <2>1, <3>1
  <2>2. CASE i # h + 1
    <3>1. rd + i - 1 # wr /\ rd + i - 1 \in memblk!Addresses /\ i \in 1 .. h
      BY <1>1, <2>2 DEF memblk!Addresses
    <3> HIDE DEF w, w2, h
    <3> QED
      BY <1>2, <1>5, <1>6, <1>7, <3>1
  <2> QED
    BY <2>1, <2>2
<1> QED
  <2>1. w2 = Append(w, d)
    <3> HIDE DEF w, w2, h
    <3> QED
      BY <1>1, <1>6, <1>7, <1>8, SeqEqual
  <2> QED
    BY <1>3, <2>1

(* Moving the read pointer over a stored word drops the oldest word. *)
LEMMA ReadDrops ==
  ASSUME NEW rd, NEW wr, NEW mem, Stored(rd, wr, mem), End(wr) - rd > 0
  PROVE  /\ Stored(rd + 1, wr, mem)
         /\ Words(rd + 1, wr, mem) = Tail(Words(rd, wr, mem))
<1> DEFINE w == Words(rd, wr, mem)
           w2 == Words(rd + 1, wr, mem)
           h == End(wr) - rd
<1>1. FDEPTH \in Nat /\ rd \in Nat /\ wr \in Nat /\ rd + 1 <= wr /\ h \in Nat \ {0}
  BY RtlAssumption DEF Stored, End
<1>2. Stored(rd + 1, wr, mem)
  BY <1>1 DEF Stored, memblk!Addresses
<1>3. End(wr) - (rd + 1) = h - 1
  BY <1>1 DEF End
<1>4. w \in Seq(Data) /\ Len(w) = h /\ w # <<>> /\ \A i \in 1 .. h : w[i] = mem[rd + i - 1]
  BY <1>1, WordsShape
<1>5. w2 \in Seq(Data) /\ Len(w2) = h - 1 /\ \A i \in 1 .. h - 1 : w2[i] = mem[rd + 1 + i - 1]
  <2>1. /\ w2 \in Seq(Data)
        /\ Len(w2) = IF End(wr) - (rd + 1) > 0 THEN End(wr) - (rd + 1) ELSE 0
        /\ \A i \in 1 .. End(wr) - (rd + 1) : w2[i] = mem[rd + 1 + i - 1]
    BY <1>2, WordsShape
  <2> HIDE DEF w2, h
  <2> QED
    BY <1>1, <1>3, <2>1
<1>6. /\ Tail(w) \in Seq(Data) /\ Len(Tail(w)) = h - 1
      /\ \A i \in 1 .. h - 1 : Tail(w)[i] = w[i + 1]
  <2> HIDE DEF w, h
  <2> QED
    BY <1>4, HeadTailProperties
<1>7. ASSUME NEW i \in 1 .. h - 1 PROVE w2[i] = Tail(w)[i]
  <2> HIDE DEF w, w2, h
  <2>1. i + 1 \in 1 .. h /\ rd + (i + 1) - 1 = rd + 1 + i - 1
    BY <1>1
  <2> QED
    BY <1>4, <1>5, <1>6, <2>1
<1>8. w2 = Tail(w)
  <2> HIDE DEF w, w2, h
  <2> QED
    BY <1>1, <1>5, <1>6, <1>7, SeqEqual
<1> QED
  BY <1>2, <1>8

-----------------------------------------------------------------------------
(* A user who counts. *)

(* wr_ptr has not started again at 0, and the cells between the pointers     *)
(* that are inside the memory hold words.                                    *)
InMemory ==
  /\ RstN \in Bit /\ wr_ptr < FMOD
  /\ Stored(rd_ptr, wr_ptr, FIFO)

CountingInv == InMemory /\ queue = model_q

held == End(wr_ptr) - rd_ptr

LEMMA CountingInitInv == CountingInit => CountingInv
<1> SUFFICES ASSUME CountingInit PROVE CountingInv
  OBVIOUS
<1> USE DEF CountingInit
<1>1. FIFO \in [memblk!Addresses -> memblk!Word]
  BY DEF RtlInit, memblk!MemInit, memblk!Word
<1>2. Stored(rd_ptr, wr_ptr, FIFO) /\ wr_ptr < FMOD /\ RstN \in Bit
  BY <1>1, RtlAssumption DEF RtlInit, Stored, Bit, memblk!Addresses
<1>3. End(wr_ptr) - rd_ptr <= 0
  BY RtlAssumption DEF RtlInit, End
<1>4. queue = <<>>
  BY <1>2, <1>3, WordsShape DEF queue
<1> QED
  BY <1>2, <1>4 DEF CountingInv, InMemory, model!ModelInit

(* A clear or a reset, seen or not by a clock edge, empties the queue. *)
LEMMA Cleared ==
  ASSUME rd_ptr' = 0, wr_ptr' = 0, RstN' \in Bit,
         FIFO' \in [memblk!Addresses -> memblk!Word]
  PROVE  InMemory' /\ queue' = <<>>
<1>1. Stored(0, 0, FIFO')
  BY DEF Stored, memblk!Addresses
<1>2. End(0) - 0 <= 0
  BY RtlAssumption DEF End
<1>3. Words(0, 0, FIFO') = <<>>
  BY <1>1, <1>2, WordsShape
<1>4. queue' = Words(rd_ptr', wr_ptr', FIFO')
  BY DEF queue, Words, End
<1>5. InMemory' <=> RstN' \in Bit /\ wr_ptr' < FMOD /\ Stored(rd_ptr', wr_ptr', FIFO')
  BY DEF InMemory, Stored, memblk!Addresses, memblk!Word
<1> QED
  BY <1>1, <1>3, <1>4, <1>5, RtlAssumption

(* The memory keeps its type on a clock edge. *)
LEMMA MemoryKept ==
  ASSUME FIFO \in [memblk!Addresses -> memblk!Word], NEW FInN, NEW Data_In \in Data,
         memblk!MemPosedge(FInN, wr_ptr, Data_In)
  PROVE  FIFO' \in [memblk!Addresses -> memblk!Word]
BY DEF memblk!MemPosedge, memblk!Word

(* A request of a user who counts does to the words what predict does with  *)
(* the same request to its queue.                                           *)
LEMMA CountingRequestStep ==
  ASSUME InMemory, queue = model_q, NEW FInN \in Bit, NEW FOutN \in Bit, NEW Data_In \in Data,
         RstN = 1, Counts(FInN, FOutN), PosedgeClk(1, FInN, FOutN, Data_In)
  PROVE  /\ InMemory'
         /\ queue' = model!NextQ(queue, 1, 1, FInN, FOutN, Data_In)
<1>1. /\ FDEPTH \in Nat /\ FMOD \in Nat /\ FDEPTH < FMOD
      /\ rd_ptr \in Nat /\ wr_ptr \in Nat /\ rd_ptr <= wr_ptr /\ wr_ptr < FMOD
      /\ Stored(rd_ptr, wr_ptr, FIFO)
  BY RtlAssumption DEF InMemory, Stored
<1>2. /\ RstN' = 1
      /\ wr_ptr' = IF FInN = 0 THEN Inc(wr_ptr) ELSE wr_ptr
      /\ rd_ptr' = IF FOutN = 0 THEN Inc(rd_ptr) ELSE rd_ptr
      /\ FIFO' = IF FInN = 0 /\ wr_ptr \in memblk!Addresses
                   THEN [FIFO EXCEPT ![wr_ptr] = Data_In] ELSE FIFO
  BY DEF PosedgeClk, Registers, Control, memblk!MemPosedge
<1>3. /\ held \in Int /\ held <= FDEPTH /\ held = End(wr_ptr) - rd_ptr
      /\ queue \in Seq(Data) /\ Len(queue) = IF held > 0 THEN held ELSE 0
      /\ queue = <<>> <=> held <= 0
  BY <1>1, WordsShape DEF held, queue
<1>4. queue = Words(rd_ptr, wr_ptr, FIFO) /\ queue' = Words(rd_ptr', wr_ptr', FIFO')
  BY DEF queue, Words, End
<1>4a. /\ FInN = 1 /\ FOutN = 0 => held > 0
       /\ FInN = 0 =>
            /\ wr_ptr # FMOD - 1
            /\ \/ wr_ptr < FDEPTH
               \/ FOutN = 1 /\ held = FDEPTH
               \/ FOutN = 0 /\ held <= 0
  <2>1. model_q = <<>> <=> held <= 0
    BY <1>3
  <2>2. Len(model_q) = FDEPTH => held = FDEPTH
    <3>1. Len(model_q) = IF held > 0 THEN held ELSE 0
      BY <1>3
    <3> QED
      BY <1>1, <1>3, <3>1, RtlAssumption
  <2>3. model_q # <<>> <=> held > 0
    BY <1>3, <2>1
  <2> QED
    BY <1>1, <2>1, <2>2, <2>3 DEF Counts
<1>5. wr_ptr' < FMOD /\ Stored(rd_ptr', wr_ptr', FIFO') => InMemory'
  BY <1>2 DEF InMemory, Stored, Bit, memblk!Addresses, memblk!Word
<1>6. wr_ptr < FDEPTH <=> wr_ptr \in memblk!Addresses
  BY <1>1 DEF memblk!Addresses
<1>7. CASE FInN = 1 /\ FOutN = 1
  BY <1>1, <1>2, <1>4, <1>5, <1>7 DEF model!NextQ
<1>8. CASE FInN = 1 /\ FOutN = 0
  <2>1. held > 0 /\ FIFO' = FIFO /\ wr_ptr' = wr_ptr
    BY <1>2, <1>4a, <1>8
  <2>2. rd_ptr' = rd_ptr + 1
    BY <1>1, <1>2, <1>3, <1>8, <2>1 DEF Inc, End
  <2>3. Stored(rd_ptr', wr_ptr', FIFO') /\ queue' = Tail(queue)
    BY <1>1, <1>3, <1>4, <2>1, <2>2, ReadDrops
  <2>4. model!NextQ(queue, 1, 1, FInN, FOutN, Data_In) = Tail(queue)
    BY <1>3, <1>8, <2>1 DEF model!NextQ, model!Popped
  <2> QED
    BY <1>1, <1>5, <2>1, <2>3, <2>4
<1>9. CASE FInN = 0 /\ FOutN = 1
  <2>1. wr_ptr' = wr_ptr + 1 /\ rd_ptr' = rd_ptr /\ wr_ptr' < FMOD
    BY <1>1, <1>2, <1>4a, <1>9 DEF Inc
  <2>2. model!NextQ(queue, 1, 1, FInN, FOutN, Data_In)
          = IF Len(queue) < FDEPTH THEN Append(queue, Data_In) ELSE queue
    BY <1>9 DEF model!NextQ, model!Pushed
  <2>3. CASE wr_ptr < FDEPTH
    <3>1. /\ FIFO' \in [memblk!Addresses -> memblk!Word] /\ FIFO'[wr_ptr] = Data_In
          /\ \A a \in memblk!Addresses : a # wr_ptr => FIFO'[a] = FIFO[a]
      BY <1>1, <1>2, <1>6, <1>9, <2>3 DEF Stored, memblk!Word
    <3>2. wr_ptr' \in Nat /\ wr_ptr' - wr_ptr = 1
      BY <1>1, <2>1
    <3>3. /\ Stored(rd_ptr, wr_ptr', FIFO')
          /\ Words(rd_ptr, wr_ptr', FIFO') = Append(Words(rd_ptr, wr_ptr, FIFO), Data_In)
      <4>1. \A wr2 \in Nat, mem2 \in [memblk!Addresses -> memblk!Word] :
              /\ wr2 - wr_ptr = 1
              /\ mem2[wr_ptr] = Data_In
              /\ \A a \in memblk!Addresses : a # wr_ptr => mem2[a] = FIFO[a]
              => /\ Stored(rd_ptr, wr2, mem2)
                 /\ Words(rd_ptr, wr2, mem2) = Append(Words(rd_ptr, wr_ptr, FIFO), Data_In)
        BY <1>1, <2>3, StoreAppends
      <4> QED
        BY <3>1, <3>2, <4>1
    <3>4. Len(queue) < FDEPTH
      BY <1>1, <1>3, <2>3 DEF End
    <3> QED
      BY <1>4, <1>5, <2>1, <2>2, <3>3, <3>4
  <2>4. CASE ~(wr_ptr < FDEPTH)
    <3>1. FIFO' = FIFO /\ held = FDEPTH
      BY <1>2, <1>4a, <1>6, <1>9, <2>4
    <3>2. Stored(rd_ptr', wr_ptr', FIFO')
      BY <1>1, <2>1, <2>4, <3>1 DEF Stored, memblk!Addresses
    <3>3. End(wr_ptr') = End(wr_ptr)
      BY <1>1, <2>1, <2>4 DEF End
    <3>4. queue' = queue
      BY <1>4, <2>1, <3>1, <3>3 DEF Words
    <3>5. ~(Len(queue) < FDEPTH)
      BY <1>1, <1>3, <3>1, RtlAssumption
    <3> QED
      BY <1>5, <2>1, <2>2, <3>2, <3>4, <3>5
  <2> QED
    BY <2>3, <2>4
<1>10. CASE FInN = 0 /\ FOutN = 0
  <2>1. wr_ptr' = wr_ptr + 1 /\ rd_ptr' = rd_ptr + 1 /\ wr_ptr' < FMOD
    BY <1>1, <1>2, <1>4a, <1>10 DEF Inc
  <2>2. model!NextQ(queue, 1, 1, FInN, FOutN, Data_In)
          = IF queue # <<>> THEN Append(Tail(queue), Data_In) ELSE queue
    BY <1>10 DEF model!NextQ, model!Replaced
  <2>3. CASE held > 0
    <3>1. wr_ptr < FDEPTH
      BY <1>3, <1>4a, <1>10, <2>3
    <3>2. /\ FIFO' \in [memblk!Addresses -> memblk!Word] /\ FIFO'[wr_ptr] = Data_In
          /\ \A a \in memblk!Addresses : a # wr_ptr => FIFO'[a] = FIFO[a]
      BY <1>1, <1>2, <1>6, <1>10, <3>1 DEF Stored, memblk!Word
    <3>3. Stored(rd_ptr', wr_ptr, FIFO) /\ Words(rd_ptr', wr_ptr, FIFO) = Tail(queue)
      BY <1>1, <1>3, <1>4, <2>1, <2>3, ReadDrops
    <3>4. wr_ptr' \in Nat /\ wr_ptr' - wr_ptr = 1
      BY <1>1, <2>1
    <3>5. /\ Stored(rd_ptr', wr_ptr', FIFO')
          /\ Words(rd_ptr', wr_ptr', FIFO') = Append(Words(rd_ptr', wr_ptr, FIFO), Data_In)
      <4>1. \A rd : \A wr2 \in Nat, mem2 \in [memblk!Addresses -> memblk!Word] :
              /\ Stored(rd, wr_ptr, FIFO)
              /\ wr2 - wr_ptr = 1
              /\ mem2[wr_ptr] = Data_In
              /\ \A a \in memblk!Addresses : a # wr_ptr => mem2[a] = FIFO[a]
              => /\ Stored(rd, wr2, mem2)
                 /\ Words(rd, wr2, mem2) = Append(Words(rd, wr_ptr, FIFO), Data_In)
        BY <3>1, StoreAppends
      <4> QED
        BY <3>2, <3>3, <3>4, <4>1
    <3>6. queue # <<>> /\ queue' = Append(Tail(queue), Data_In)
      BY <1>3, <1>4, <2>1, <2>3, <3>3, <3>5
    <3> QED
      BY <1>5, <2>1, <2>2, <3>5, <3>6
  <2>4. CASE ~(held > 0)
    <3>1. End(wr_ptr) <= rd_ptr
      BY <1>1, <1>3, <2>4 DEF End
    <3>2. FIFO' \in [memblk!Addresses -> memblk!Word]
      BY <1>1, <1>2 DEF Stored, memblk!Word
    <3>3. \A a \in memblk!Addresses : ~(rd_ptr' <= a /\ a < wr_ptr')
      BY <1>1, <2>1, <3>1 DEF End, memblk!Addresses
    <3>4. Stored(rd_ptr', wr_ptr', FIFO')
      BY <1>1, <2>1, <3>2, <3>3 DEF Stored
    <3>5. End(wr_ptr') - rd_ptr' <= 0
      BY <1>1, <2>1, <3>1 DEF End
    <3>6. queue' = <<>> /\ queue = <<>>
      BY <1>3, <1>4, <2>4, <3>4, <3>5, WordsShape
    <3> QED
      BY <1>5, <2>1, <2>2, <3>4, <3>6
  <2> QED
    BY <2>3, <2>4
<1> QED
  BY <1>7, <1>8, <1>9, <1>10 DEF Bit

(* The model beside the RTL takes the same step, resets included. *)
LEMMA CountingStep == CountingInv /\ [CountingNext]_vars => CountingInv'
<1> SUFFICES ASSUME CountingInv, [CountingNext]_vars PROVE CountingInv'
  OBVIOUS
<1>1. /\ InMemory /\ queue = model_q
      /\ RstN \in Bit /\ FIFO \in [memblk!Addresses -> memblk!Word]
  BY DEF CountingInv, InMemory, Stored
<1>2. InMemory' /\ queue' = model_q' => CountingInv'
  BY DEF CountingInv, queue, Words, End, InMemory, Stored, memblk!Addresses, memblk!Word
<1>3. ASSUME NEW FClrN \in Bit, NEW FInN \in Bit, NEW FOutN \in Bit,
             NEW Data_In \in Data, Edge(FClrN, FInN, FOutN, Data_In),
             RstN = 0 \/ FClrN = 0
      PROVE  CountingInv'
  <2>1. rd_ptr' = 0 /\ wr_ptr' = 0 /\ RstN' = RstN
    BY <1>3 DEF Edge, PosedgeClk, Registers, Control
  <2>2. FIFO' \in [memblk!Addresses -> memblk!Word]
    BY <1>1, <1>3, MemoryKept DEF Edge, PosedgeClk
  <2>3. InMemory' /\ queue' = <<>>
    BY <1>1, <2>1, <2>2, Cleared
  <2>4. model_q' = <<>>
    BY <1>3 DEF Edge, model!Predict, model!NextQ
  <2> QED
    BY <1>2, <2>3, <2>4
<1>4. CASE CountingRequest
  <2>1. PICK FInN \in Bit, FOutN \in Bit, Data_In \in Data :
          Counts(FInN, FOutN) /\ Edge(1, FInN, FOutN, Data_In)
    BY <1>4 DEF CountingRequest
  <2>2. CASE RstN = 0
    BY <1>3, <2>1, <2>2 DEF Bit
  <2>3. CASE RstN = 1
    <3>1. InMemory' /\ queue' = model!NextQ(queue, 1, 1, FInN, FOutN, Data_In)
      BY <1>1, <2>1, <2>3, CountingRequestStep DEF Edge
    <3>2. model_q' = model!NextQ(model_q, 1, 1, FInN, FOutN, Data_In)
      BY <2>1, <2>3 DEF Edge, model!Predict
    <3> QED
      BY <1>1, <1>2, <3>1, <3>2
  <2> QED
    BY <1>1, <2>2, <2>3 DEF Bit
<1>5. CASE Clear
  BY <1>3, <1>5 DEF Clear, Bit
<1>6. CASE Reset /\ NegedgeRstN
  <2>1. rd_ptr' = 0 /\ wr_ptr' = 0 /\ RstN' = 0 /\ FIFO' = FIFO
    BY <1>6 DEF NegedgeRstN, Registers, Control
  <2>2. InMemory' /\ queue' = <<>>
    BY <1>1, <2>1, Cleared DEF Bit
  <2>3. model_q' = <<>>
    BY <1>6, <2>1 DEF Reset, model!Predict, model!NextQ
  <2> QED
    BY <1>2, <2>2, <2>3
<1>7. CASE Reset /\ PosedgeRstN
  <2>1. UNCHANGED <<rd_ptr, wr_ptr, FIFO>> /\ RstN' = 1
    BY <1>7 DEF PosedgeRstN, pointers
  <2>2. model_q' = model_q
    BY <1>7, <2>1 DEF Reset, model!Predict, model!NextQ
  <2>3. InMemory' /\ queue' = queue
    BY <1>1, <2>1
    DEF InMemory, Stored, queue, Words, End, Bit, memblk!Addresses, memblk!Word
  <2> QED
    BY <1>1, <1>2, <2>2, <2>3
<1>8. CASE UNCHANGED vars
  BY <1>8
  DEF vars, rtlVars, CountingInv, InMemory, Stored, queue, Words, End,
      memblk!Addresses, memblk!Word
<1> QED
  BY <1>4, <1>5, <1>6, <1>7, <1>8 DEF CountingNext, Reset

(* In the hands of a user who counts, the pointers and the memory hold the   *)
(* words of the reference model that is given the same requests, and F_Data  *)
(* shows the oldest.                                                         *)
THEOREM CountingImplements == CountingSpec => []ImplementsModel
<1>1. CountingInv => ImplementsModel
  <2> SUFFICES ASSUME InMemory, queue = model_q, queue # <<>> PROVE F_Data = Head(queue)
    BY DEF CountingInv, ImplementsModel
  <2>1. /\ rd_ptr \in Nat /\ wr_ptr \in Nat /\ FDEPTH \in Nat
        /\ Stored(rd_ptr, wr_ptr, FIFO)
    BY RtlAssumption DEF InMemory, Stored
  <2>2. held > 0 /\ queue[1] = FIFO[rd_ptr + 1 - 1]
    BY <2>1, WordsShape DEF held, queue
  <2>3. rd_ptr + 1 - 1 = rd_ptr /\ rd_ptr \in memblk!Addresses
    BY <2>1, <2>2 DEF held, End, memblk!Addresses
  <2>4. Head(queue) = queue[1]
    BY DEF queue, Words
  <2> QED
    BY <2>2, <2>3, <2>4 DEF F_Data, memblk!data_out
<1> QED
  BY <1>1, CountingInitInv, CountingStep, PTL DEF CountingSpec
=============================================================================
