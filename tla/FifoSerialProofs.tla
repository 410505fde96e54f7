-------------------------- MODULE FifoSerialProofs --------------------------
(***************************************************************************)
(* Proofs about FifoSerial for every set of tests, every depth, register   *)
(* width and set of words.                                                 *)
(***************************************************************************)
EXTENDS FifoSerial, FifoCheckProofs

(* A reset is only ever released, so the monitor sees the one there is. *)
SerialInv ==
  /\ checked \in 0 .. Len(Script(test))
  /\ errors \in 0 .. checked
  /\ "UnseenReset" \notin seen

(* The request that is taken next *)
next_tx == Script(test)[checked + 1]

-----------------------------------------------------------------------------
LEMMA RequestTyped ==
  ASSUME NEW r \in AnyRequest
  PROVE  /\ r.ctl.FClrN \in Bit /\ r.ctl.FInN \in Bit /\ r.ctl.FOutN \in Bit
         /\ r.Data_In \in Data
<1>1. PICK op \in DOMAIN Controls, d \in Data : r = Request(op, d)
  BY DEF AnyRequest
<1>2. \A o \in DOMAIN Controls :
        Controls[o].FClrN \in Bit /\ Controls[o].FInN \in Bit /\ Controls[o].FOutN \in Bit
  BY DEF Controls, Bit
<1> QED
  BY <1>1, <1>2 DEF Request

LEMMA ScriptTyped ==
  Script(test) \in Seq(AnyRequest) /\ Len(Script(test)) \in Nat
<1>1. Script(test) \in Seq(AnyRequest)
  BY TestsAssumption, EmptySeq DEF Script
<1> QED
  BY <1>1, LenProperties

(* A request of a test is one of those that FifoCheck takes. *)
LEMMA RequestOfTest ==
  ASSUME SerialInv, checked < Len(Script(test))
  PROVE  /\ next_tx.ctl.FClrN \in Bit /\ next_tx.ctl.FInN \in Bit /\ next_tx.ctl.FOutN \in Bit
         /\ next_tx.Data_In \in Data
<1>1. next_tx \in AnyRequest
  BY ScriptTyped, ElementOfSeq DEF next_tx, SerialInv
<1> QED
  BY <1>1, RequestTyped

LEMMA SerialStepIsCheckStep ==
  ASSUME SerialInv, [SerialNext]_serialVars
  PROVE  [CheckNext]_vars
<1>1. CASE CheckRequest
  <2>1. /\ checked < Len(Script(test))
        /\ Cycle(next_tx.ctl.FClrN, next_tx.ctl.FInN, next_tx.ctl.FOutN, next_tx.Data_In)
    BY <1>1 DEF CheckRequest, next_tx
  <2> QED
    BY <2>1, RequestOfTest DEF CheckNext
<1> QED
  BY <1>1 DEF SerialNext, StartTest, serialVars, CheckNext

LEMMA SerialInvInit == SerialInit => SerialInv
BY ScriptTyped DEF SerialInit, CheckInit, SerialInv

LEMMA SerialInvStep ==
  ASSUME SerialInv, [SerialNext]_serialVars
  PROVE  SerialInv'
<1>1. test' = test
  BY DEF SerialNext, StartTest, CheckRequest, serialVars
<1>2. Script(test)' = Script(test)
  BY <1>1 DEF Script
<1>3. CASE CheckRequest
  <2>1. /\ checked < Len(Script(test)) /\ checked' = checked + 1
        /\ errors' = IF matched' THEN errors ELSE errors + 1
        /\ seen' = {} \/ \E FInN, FOutN : seen' = seen \union KindsOf(FInN, FOutN)
    BY <1>3 DEF CheckRequest, Cycle
  <2>2. "UnseenReset" \notin seen'
    BY <2>1 DEF SerialInv, KindsOf
  <2> QED
    BY <1>2, <2>1, <2>2, ScriptTyped DEF SerialInv
<1>4. CASE StartTest \/ UNCHANGED serialVars
  BY <1>2, <1>4 DEF StartTest, ReleaseReset, serialVars, vars, SerialInv
<1> QED
  BY <1>3, <1>4 DEF SerialNext

(* The requests of a test are traffic of FifoCheck: all that is proved of   *)
(* any traffic holds while a test runs.                                     *)
THEOREM SerialImplementsCheck == SerialSpec => CheckSpec
<1>1. SerialInit => CheckInit
  BY DEF SerialInit
<1>2. SerialInv /\ [SerialNext]_serialVars => SerialInv' /\ [CheckNext]_vars
  BY SerialInvStep, SerialStepIsCheckStep
<1> QED
  BY <1>1, <1>2, SerialInvInit, PTL DEF SerialSpec, CheckSpec

THEOREM SerialTyping == SerialSpec => []SerialInv
BY SerialInvInit, SerialInvStep, PTL DEF SerialSpec

-----------------------------------------------------------------------------
(* What a test without an error has not done *)

Gentle == errors = 0 => Avoided(Upsetting)

LEMMA ErrorsOnlyGrow ==
  ASSUME SerialInv, [SerialNext]_serialVars, errors' = 0
  PROVE  errors = 0 /\ (CheckRequest => matched')
BY DEF SerialInv, SerialNext, StartTest, CheckRequest, serialVars

LEMMA GentleStep ==
  ASSUME SerialInv, TypeOK, TypeOK', FlagsShowOccupancy, Gentle, [SerialNext]_serialVars
  PROVE  Gentle'
<1> SUFFICES ASSUME errors' = 0 PROVE Avoided(Upsetting)'
  BY DEF Gentle
<1>1. errors = 0 /\ (CheckRequest => matched')
  BY ErrorsOnlyGrow
<1>2. Avoided(Upsetting \union {"UnseenReset"})
  BY <1>1 DEF Gentle, Avoided, SerialInv, Upsetting
<1>3. CASE CheckRequest
  BY <1>1, <1>2, <1>3, SerialStepIsCheckStep, UpsetStep
<1>4. CASE StartTest \/ UNCHANGED serialVars
  <2>1. seen' = seen
    BY <1>4 DEF StartTest, ReleaseReset, serialVars, vars
  <2> QED
    BY <1>2, <2>1 DEF Avoided, Upsetting
<1> QED
  BY <1>3, <1>4 DEF SerialNext

(* A test that has reported no error has read no stored word and replaced   *)
(* none at an end since the last clear, whatever it is and whatever the     *)
(* depth.                                                                   *)
THEOREM PassingTestsAreGentle == SerialSpec => []Gentle
<1>1. SerialInit => Gentle
  BY DEF SerialInit, CheckInit, Gentle, Avoided
<1>2. SerialInv /\ TypeOK /\ TypeOK' /\ FlagsShowOccupancy /\ Gentle /\ [SerialNext]_serialVars
        => Gentle'
  BY GentleStep
<1>3. SerialSpec => []TypeOK /\ []FlagsShowOccupancy
  BY SerialImplementsCheck, Typing, FlagsShow, PTL
<1> QED
  BY <1>1, <1>2, <1>3, SerialTyping, PTL DEF SerialSpec
=============================================================================
