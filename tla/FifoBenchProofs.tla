-------------------------- MODULE FifoBenchProofs --------------------------
(***************************************************************************)
(* Proofs about FifoBench for every set of tests, every order in which the *)
(* processes run, every depth, register width and set of words.            *)
(***************************************************************************)
EXTENDS FifoBench, SequenceTheorems, TLAPS

(* What is proved of the tests whose requests are taken one after the other *)
CheckProofs == INSTANCE FifoTestsProofs WITH
  model_q <- model_q_after, matched <- matched_after,
  checked <- check_count_after, errors <- error_count_after

-----------------------------------------------------------------------------
(* Where each process is in the test.  All of them are counts of requests,  *)
(* but for `edges', which counts clock edges since the test started.        *)

put    == Len(sent) - Len(gen_q)       (* the generator has put            *)
gotten == put - Len(gen2drv_mbx)       (* the driver has taken             *)
driven == IF drv \in {"clock", "drive"} THEN gotten - 1 ELSE gotten
sampled == IF mon \in {"off", "clock0", "count"} THEN 0 ELSE Len(sent) - mon_left
edges == IF mon \in {"off", "clock0"} THEN 0
         ELSE IF mon = "sample" THEN sampled + 2
         ELSE sampled + 1

(* Before the test starts the processes do not exist. *)
NotStarted ==
  /\ gen = "off" /\ drv = "off" /\ mon = "off" /\ scb = "off"
  /\ gen_q = <<>> /\ gen2drv_mbx = <<>> /\ mon2scb_mbx = <<>> /\ count_mbx = <<>>
  /\ mon_left = 0 /\ check_count = 0
  /\ pins = IdlePins /\ drv_tx = IdlePins /\ scheduled = <<>>

(* What is left in the generator and in its mailbox are the last requests   *)
(* of the test.                                                             *)
GenInv ==
  /\ gen \in {"put", "done"}
  /\ gen_q \in Seq(AnyRequest) /\ Len(gen_q) <= Len(sent)
  /\ \A i \in 1 .. Len(gen_q) : gen_q[i] = sent[put + i]
  /\ gen = "done" => gen_q = <<>>
  /\ gen = "put" => mon = "clock0"
  /\ count_mbx = IF gen = "done" /\ mon \in {"clock0", "count"} THEN <<Len(sent)>> ELSE <<>>

(* The driver holds the request after those it has driven, and has driven   *)
(* one at every edge.                                                       *)
DrvInv ==
  /\ drv \in {"initial", "get", "clock", "drive"}
  /\ gen2drv_mbx \in Seq(AnyRequest) /\ Len(gen2drv_mbx) <= put
  /\ \A i \in 1 .. Len(gen2drv_mbx) : gen2drv_mbx[i] = sent[gotten + i]
  /\ drv \in {"clock", "drive"} => gotten >= 1 /\ drv_tx = sent[gotten]
  /\ drv = "initial" => phase = "rest" /\ mon = "clock0"
  /\ drv = "drive" => phase = "edge" /\ edges = driven + 1
  /\ drv # "drive" => driven = IF edges <= Len(sent) THEN edges ELSE Len(sent)

(* The pins are one request behind the driver from an edge until the skew   *)
(* has elapsed.                                                             *)
PinsInv ==
  /\ phase = "rest" => pins = IF edges = 0 THEN IdlePins ELSE sent[edges]
  /\ phase = "edge" => pins = IF edges = 1 THEN IdlePins ELSE sent[edges - 1]
  /\ phase = "edge" /\ drv # "drive" /\ edges <= Len(sent) => scheduled = <<sent[edges]>>
  /\ drv_tx \in AnyRequest \union {IdlePins}
  /\ scheduled = <<>> \/ \E r \in AnyRequest \union {IdlePins} : scheduled = <<r>>

MonInv ==
  /\ mon \in {"clock0", "count", "clock", "sample", "end", "done"}
  /\ mon_left \in 0 .. Len(sent)
  /\ mon \in {"clock", "sample"} <=> mon_left > 0
  /\ phase = "rest" => mon \in {"clock0", "clock"}
  /\ phase = "edge" => mon # "clock0"

(* The scoreboard has checked all samples but the one in its mailbox. *)
ScbInv ==
  /\ scb \in {"get", "completed"}
  /\ \/ /\ scb = "get" /\ mon # "done"
        /\ \/ mon2scb_mbx = <<>> /\ check_count = sampled
           \/ /\ mon2scb_mbx = <<observed>> /\ check_count = sampled - 1
              /\ phase = "edge" /\ mon \in {"clock", "end"}
     \/ /\ scb = "get" /\ mon = "done"
        /\ \/ mon2scb_mbx = <<Null>> /\ check_count = sampled
           \/ mon2scb_mbx = <<observed, Null>> /\ check_count = sampled - 1
     \/ scb = "completed" /\ mon = "done" /\ mon2scb_mbx = <<>> /\ check_count = sampled

(* The state of the whole simulation *)
StageInv ==
  /\ top \in {"reset", "delay", "wait", "finish", "fatal"}
  /\ test \in TESTNAMES \union {NoName}
  /\ phase \in {"edge", "rest"}
  /\ RstN = IF top = "reset" THEN 0 ELSE 1
  /\ top = "fatal" => test = NoName
  /\ top = "finish" => scb = "completed"
  /\ top = "reset" =>
       /\ <<fcounter, rd_ptr, wr_ptr>> = <<0, 0, 0>>
       /\ flags = <<0, 1, 1, 1, 1>>
       /\ seen = {}

CountsInv ==
  /\ check_count \in Nat /\ pass_count \in Nat /\ error_count \in Nat
  /\ pass_count + error_count = check_count
  /\ model_q \in Seq(Data) /\ Len(model_q) <= FDEPTH
  /\ matched \in BOOLEAN

BenchInv ==
  /\ StageInv
  /\ CountsInv
  /\ top \in {"reset", "delay", "fatal"} => NotStarted
  /\ top \in {"wait", "finish"} => GenInv /\ DrvInv /\ PinsInv /\ MonInv /\ ScbInv

-----------------------------------------------------------------------------
(* Sequences *)

LEMMA HeadAndTail ==
  ASSUME NEW S, NEW s \in Seq(S), s # <<>>
  PROVE  /\ Len(s) \in Nat \ {0} /\ Head(s) = s[1] /\ Head(s) \in S
         /\ Tail(s) \in Seq(S) /\ Len(Tail(s)) = Len(s) - 1
         /\ \A i \in 1 .. Len(s) - 1 : Tail(s)[i] = s[i + 1]
<1>1. Len(s) \in Nat \ {0}
  BY EmptySeq, LenProperties
<1>2. /\ Head(s) \in S /\ Tail(s) \in Seq(S) /\ Len(Tail(s)) = Len(s) - 1
      /\ \A i \in 1 .. Len(Tail(s)) : Tail(s)[i] = s[i + 1]
  BY HeadTailProperties
<1> QED
  BY <1>1, <1>2

LEMMA AppendToOne ==
  ASSUME NEW x, NEW y PROVE Append(<<x>>, y) = <<x, y>>
<1> DEFINE s == Append(<<x>>, y)
           t == <<x, y>>
<1>1. <<x>> \in Seq({x, y}) /\ Len(<<x>>) = 1 /\ <<x>>[1] = x
  OBVIOUS
<1>2. t \in Seq({x, y}) /\ Len(t) = 2 /\ t[1] = x /\ t[2] = y
  OBVIOUS
<1>3. s \in Seq({x, y}) /\ Len(s) = 2 /\ s[1] = x /\ s[2] = y
  BY <1>1, AppendProperties
<1>4. s = t
  <2> HIDE DEF s, t
  <2>1. \A i \in 1 .. Len(s) : s[i] = t[i]
    BY <1>2, <1>3
  <2> QED
    BY <1>2, <1>3, <2>1, SeqEqual
<1> QED
  BY <1>4

LEMMA ShortSequences ==
  ASSUME NEW x, NEW y
  PROVE  /\ <<x>> # <<>> /\ Head(<<x>>) = x /\ Tail(<<x>>) = <<>>
         /\ <<x, y>> # <<>> /\ Head(<<x, y>>) = x /\ Tail(<<x, y>>) = <<y>>
         /\ Append(<<>>, x) = <<x>> /\ Append(<<x>>, y) = <<x, y>>
<1>1. <<x>> # <<>> /\ Head(<<x>>) = x
  OBVIOUS
<1>2. Tail(<<x>>) = <<>>
  OBVIOUS
<1>3. <<x, y>> # <<>> /\ Head(<<x, y>>) = x
  OBVIOUS
<1>4. Tail(<<x, y>>) = <<y>>
  OBVIOUS
<1>5. Append(<<>>, x) = <<x>>
  OBVIOUS
<1>6. Append(<<x>>, y) = <<x, y>>
  BY AppendToOne
<1> QED
  BY <1>1, <1>2, <1>3, <1>4, <1>5, <1>6

LEMMA SentIsSeq == sent \in Seq(AnyRequest) /\ Len(sent) \in Nat
<1>1. sent \in Seq(AnyRequest)
  BY TestsAssumption, EmptySeq DEF sent, Script
<1> QED
  BY <1>1, LenProperties

LEMMA SentKept ==
  ASSUME UNCHANGED test PROVE sent' = sent
BY DEF sent, Script

-----------------------------------------------------------------------------
(* The counts are numbers. *)
LEMMA CountsAreInts ==
  ASSUME GenInv, DrvInv, MonInv
  PROVE  /\ put \in 0 .. Len(sent) /\ gotten \in 0 .. put
         /\ driven \in Int /\ driven <= gotten
         /\ sampled \in 0 .. Len(sent) /\ edges \in 0 .. Len(sent) + 2
<1>1. /\ Len(sent) \in Nat /\ Len(gen_q) \in Nat /\ Len(gen_q) <= Len(sent)
      /\ Len(gen2drv_mbx) \in Nat /\ Len(gen2drv_mbx) <= put
  BY SentIsSeq, LenProperties DEF GenInv, DrvInv
<1>2. put \in 0 .. Len(sent)
  BY <1>1 DEF put
<1>3. gotten \in 0 .. put
  BY <1>1, <1>2 DEF gotten
<1>4. driven \in Int /\ driven <= gotten
  BY <1>2, <1>3 DEF driven
<1>5. sampled \in 0 .. Len(sent)
  BY <1>1 DEF sampled, MonInv
<1> QED
  BY <1>1, <1>2, <1>3, <1>4, <1>5 DEF edges

(* Frames: what the parts of the invariant depend on. *)

LEMMA GenKept ==
  ASSUME GenInv, UNCHANGED <<gen, gen_q, count_mbx, test>>,
         mon \in {"clock0", "count"} <=> mon' \in {"clock0", "count"},
         gen = "put" => mon' = "clock0"
  PROVE  GenInv'
<1>1. sent' = sent
  BY SentKept
<1>2. put' = put
  BY <1>1 DEF put
<1> QED
  BY <1>1, <1>2 DEF GenInv

LEMMA DrvKept ==
  ASSUME DrvInv, UNCHANGED <<drv, drv_tx, gen2drv_mbx, phase, test>>,
         put' = put, edges' = edges, mon = "clock0" => mon' = "clock0"
  PROVE  DrvInv'
<1>1. sent' = sent
  BY SentKept
<1>2. gotten' = gotten /\ driven' = driven
  BY DEF gotten, driven
<1> QED
  BY <1>1, <1>2 DEF DrvInv

LEMMA PinsKept ==
  ASSUME PinsInv, UNCHANGED <<phase, pins, scheduled, drv_tx, test>>,
         drv' # "drive" => drv # "drive", edges' = edges
  PROVE  PinsInv'
<1>1. sent' = sent
  BY SentKept
<1>2. IdlePins' = IdlePins /\ AnyRequest' = AnyRequest
  BY DEF IdlePins, AnyRequest, Request, Controls
<1> QED
  BY <1>1, <1>2 DEF PinsInv

LEMMA MonKept ==
  ASSUME MonInv, UNCHANGED <<phase, mon, mon_left, test>>
  PROVE  MonInv'
<1>1. sent' = sent
  BY SentKept
<1> QED
  BY <1>1 DEF MonInv

LEMMA ObservedKept ==
  ASSUME UNCHANGED <<rtlVars, pins>>
  PROVE  observed' = observed
BY DEF observed, rtlVars, flags, F_Data, memblk!data_out, memblk!Addresses

LEMMA ScbKept ==
  ASSUME ScbInv, UNCHANGED <<rtlVars, pins, phase, mon, mon_left, scb, mon2scb_mbx,
                             check_count, test>>
  PROVE  ScbInv'
<1>1. observed' = observed /\ sent' = sent
  BY ObservedKept, SentKept
<1>2. sampled' = sampled
  BY <1>1 DEF sampled
<1> QED
  BY <1>1, <1>2 DEF ScbInv

LEMMA StageKept ==
  ASSUME StageInv, UNCHANGED <<rtlVars, seen, top, test, phase>>,
         scb = "completed" => scb' = "completed"
  PROVE  StageInv'
BY DEF StageInv, rtlVars, flags

LEMMA CountsKept ==
  ASSUME CountsInv, UNCHANGED <<check_count, pass_count, error_count, model_q, matched>>
  PROVE  CountsInv'
BY DEF CountsInv

-----------------------------------------------------------------------------
(* The generator *)

LEMMA Running ==
  ASSUME BenchInv,
         gen # "off" \/ drv # "off" \/ mon # "off" \/ scb # "off" \/ top = "wait"
  PROVE  /\ top \in {"wait", "finish"}
         /\ StageInv /\ CountsInv /\ GenInv /\ DrvInv /\ PinsInv /\ MonInv /\ ScbInv
BY DEF BenchInv, StageInv, NotStarted

LEMMA GenPutStep == ASSUME BenchInv, GenPut PROVE BenchInv'
<1>1. /\ gen = "put" /\ gen_q # <<>> /\ gen_q' = Tail(gen_q)
      /\ gen2drv_mbx' = Append(gen2drv_mbx, Head(gen_q))
      /\ UNCHANGED <<rtlVars, phase, pins, seen, top, test, gen, drv, drv_tx, scheduled,
                     mon, mon_left, scb, model_q, matched, check_count, pass_count,
                     error_count, mon2scb_mbx, count_mbx>>
  BY DEF GenPut, dutVars, topVars, drvVars, monVars, scbVars
<1>2. /\ top \in {"wait", "finish"}
      /\ StageInv /\ CountsInv /\ GenInv /\ DrvInv /\ PinsInv /\ MonInv /\ ScbInv
  BY <1>1, Running
<1>3. sent' = sent /\ Len(sent) \in Nat
  BY <1>1, SentKept, SentIsSeq
<1>4. /\ Len(gen_q) \in Nat \ {0} /\ Head(gen_q) = gen_q[1] /\ Head(gen_q) \in AnyRequest
      /\ gen_q' \in Seq(AnyRequest) /\ Len(gen_q') = Len(gen_q) - 1
      /\ \A i \in 1 .. Len(gen_q) - 1 : gen_q'[i] = gen_q[i + 1]
  BY <1>1, <1>2, HeadAndTail DEF GenInv
<1>5. /\ gen2drv_mbx' \in Seq(AnyRequest) /\ Len(gen2drv_mbx) \in Nat
      /\ Len(gen2drv_mbx') = Len(gen2drv_mbx) + 1
      /\ \A i \in 1 .. Len(gen2drv_mbx) : gen2drv_mbx'[i] = gen2drv_mbx[i]
      /\ gen2drv_mbx'[Len(gen2drv_mbx) + 1] = Head(gen_q)
  BY <1>1, <1>2, <1>4, AppendProperties, LenProperties DEF DrvInv
<1>6. put \in Nat /\ put' = put + 1 /\ put' \in Nat
  BY <1>2, <1>3, <1>4, CountsAreInts DEF put
<1>7. gotten' = gotten /\ driven' = driven /\ edges' = edges /\ gotten \in Nat
  <2>1. gotten' = gotten /\ gotten \in Nat
    BY <1>2, <1>3, <1>5, <1>6, CountsAreInts DEF gotten
  <2> QED
    BY <1>1, <1>3, <2>1 DEF driven, edges, sampled
<1>8. GenInv'
  <2>1. ASSUME NEW i \in 1 .. Len(gen_q') PROVE gen_q'[i] = sent'[put' + i]
    <3>1. i + 1 \in 1 .. Len(gen_q) /\ put + (i + 1) = put' + i
      BY <1>4, <1>6
    <3> QED
      BY <1>2, <1>3, <1>4, <3>1 DEF GenInv
  <2> QED
    BY <1>1, <1>2, <1>3, <1>4, <2>1 DEF GenInv, AnyRequest, Request, Controls
<1>9. DrvInv'
  <2>1. ASSUME NEW i \in 1 .. Len(gen2drv_mbx')
        PROVE  gen2drv_mbx'[i] = sent'[gotten' + i]
    <3>1. CASE i \in 1 .. Len(gen2drv_mbx)
      BY <1>2, <1>3, <1>5, <1>7, <3>1 DEF DrvInv
    <3>2. CASE i = Len(gen2drv_mbx) + 1
      <4>1. gotten + i = put + 1
        BY <1>5, <1>6, <3>2 DEF gotten
      <4> QED
        BY <1>2, <1>3, <1>4, <1>5, <1>7, <3>2, <4>1 DEF GenInv
    <3> QED
      BY <1>5, <3>1, <3>2
  <2>2. Len(gen2drv_mbx') <= put'
    BY <1>2, <1>5, <1>6 DEF DrvInv
  <2> QED
    BY <1>1, <1>2, <1>3, <1>5, <1>7, <2>1, <2>2 DEF DrvInv, AnyRequest, Request, Controls
<1>10. PinsInv' /\ MonInv'
  BY <1>1, <1>2, <1>7, PinsKept, MonKept
<1>11. ScbInv' /\ StageInv' /\ CountsInv'
  BY <1>1, <1>2, ScbKept, StageKept, CountsKept
<1> QED
  BY <1>1, <1>2, <1>8, <1>9, <1>10, <1>11 DEF BenchInv

LEMMA GenCountStep == ASSUME BenchInv, GenCount PROVE BenchInv'
<1>1. /\ gen = "put" /\ gen_q = <<>> /\ gen' = "done"
      /\ count_mbx' = Append(count_mbx, Len(sent))
      /\ UNCHANGED <<rtlVars, phase, pins, seen, top, test, gen_q, drv, drv_tx, scheduled,
                     mon, mon_left, scb, model_q, matched, check_count, pass_count,
                     error_count, mon2scb_mbx, gen2drv_mbx>>
  BY DEF GenCount, dutVars, topVars, drvVars, monVars, scbVars
<1>2. /\ top \in {"wait", "finish"}
      /\ StageInv /\ CountsInv /\ GenInv /\ DrvInv /\ PinsInv /\ MonInv /\ ScbInv
  BY <1>1, Running
<1>3. sent' = sent
  BY <1>1, SentKept
<1>4. put' = put /\ edges' = edges
  BY <1>1, <1>3 DEF put, edges, sampled
<1>5. GenInv'
  <2>1. count_mbx' = <<Len(sent)>> /\ mon = "clock0"
    BY <1>1, <1>2, ShortSequences DEF GenInv
  <2>2. \A i \in 1 .. Len(gen_q') : gen_q'[i] = sent'[put' + i]
    BY <1>1, <1>2, <1>3, <1>4 DEF GenInv
  <2> QED
    BY <1>1, <1>2, <1>3, <2>1, <2>2 DEF GenInv, AnyRequest, Request, Controls
<1>6. DrvInv' /\ PinsInv' /\ MonInv'
  BY <1>1, <1>2, <1>4, DrvKept, PinsKept, MonKept
<1>7. ScbInv' /\ StageInv' /\ CountsInv'
  BY <1>1, <1>2, ScbKept, StageKept, CountsKept
<1> QED
  BY <1>1, <1>2, <1>5, <1>6, <1>7 DEF BenchInv

-----------------------------------------------------------------------------
(* The driver *)

LEMMA DrvInitialStep == ASSUME BenchInv, DrvInitial PROVE BenchInv'
<1>1. /\ drv = "initial" /\ drv' = "get" /\ scheduled' = <<IdlePins>>
      /\ UNCHANGED <<rtlVars, phase, pins, seen, top, test, gen, gen_q, drv_tx, mon, mon_left,
                     scb, model_q, matched, check_count, pass_count, error_count,
                     gen2drv_mbx, mon2scb_mbx, count_mbx>>
  BY DEF DrvInitial, dutVars, topVars, genVars, monVars, scbVars, mailboxes
<1>2. /\ top \in {"wait", "finish"}
      /\ StageInv /\ CountsInv /\ GenInv /\ DrvInv /\ PinsInv /\ MonInv /\ ScbInv
  BY <1>1, Running
<1>3. sent' = sent
  BY <1>1, SentKept
<1>4. put' = put /\ edges' = edges /\ gotten' = gotten /\ driven' = driven
  BY <1>1, <1>3 DEF put, edges, sampled, gotten, driven
<1>5. DrvInv'
  BY <1>1, <1>2, <1>3, <1>4 DEF DrvInv, AnyRequest, Request, Controls
<1>6. PinsInv'
  BY <1>1, <1>2, <1>3, <1>4 DEF PinsInv, DrvInv, IdlePins, AnyRequest, Request, Controls
<1>7. GenInv' /\ MonInv'
  BY <1>1, <1>2, GenKept, MonKept DEF GenInv
<1>8. ScbInv' /\ StageInv' /\ CountsInv'
  BY <1>1, <1>2, ScbKept, StageKept, CountsKept
<1> QED
  BY <1>1, <1>2, <1>5, <1>6, <1>7, <1>8 DEF BenchInv

LEMMA DrvGetStep == ASSUME BenchInv, DrvGet PROVE BenchInv'
<1>1. /\ drv = "get" /\ gen2drv_mbx # <<>> /\ drv' = "clock"
      /\ drv_tx' = Head(gen2drv_mbx) /\ gen2drv_mbx' = Tail(gen2drv_mbx)
      /\ UNCHANGED <<rtlVars, phase, pins, seen, top, test, gen, gen_q, scheduled, mon, mon_left,
                     scb, model_q, matched, check_count, pass_count, error_count,
                     mon2scb_mbx, count_mbx>>
  BY DEF DrvGet, dutVars, topVars, genVars, monVars, scbVars
<1>2. /\ top \in {"wait", "finish"}
      /\ StageInv /\ CountsInv /\ GenInv /\ DrvInv /\ PinsInv /\ MonInv /\ ScbInv
  BY <1>1, Running
<1>3. sent' = sent
  BY <1>1, SentKept
<1>4. /\ Len(gen2drv_mbx) \in Nat \ {0} /\ drv_tx' = gen2drv_mbx[1] /\ drv_tx' \in AnyRequest
      /\ gen2drv_mbx' \in Seq(AnyRequest) /\ Len(gen2drv_mbx') = Len(gen2drv_mbx) - 1
      /\ \A i \in 1 .. Len(gen2drv_mbx) - 1 : gen2drv_mbx'[i] = gen2drv_mbx[i + 1]
  BY <1>1, <1>2, HeadAndTail DEF DrvInv
<1>5. put' = put /\ edges' = edges /\ put \in Nat /\ gotten \in Nat
  BY <1>1, <1>2, <1>3, CountsAreInts DEF put, edges, sampled
<1>6. gotten' = gotten + 1 /\ driven' = driven
  <2>1. gotten' = gotten + 1
    BY <1>4, <1>5 DEF gotten
  <2> QED
    BY <1>1, <1>5, <2>1 DEF driven
<1>7. DrvInv'
  <2>1. ASSUME NEW i \in 1 .. Len(gen2drv_mbx')
        PROVE  gen2drv_mbx'[i] = sent'[gotten' + i]
    <3>1. i + 1 \in 1 .. Len(gen2drv_mbx) /\ gotten + (i + 1) = gotten' + i
      BY <1>4, <1>5, <1>6
    <3> QED
      BY <1>2, <1>3, <1>4, <3>1 DEF DrvInv
  <2>2. drv_tx' = sent'[gotten'] /\ gotten' >= 1
    BY <1>2, <1>3, <1>4, <1>5, <1>6 DEF DrvInv
  <2>3. Len(gen2drv_mbx') <= put'
    BY <1>2, <1>4, <1>5 DEF DrvInv
  <2> QED
    BY <1>1, <1>2, <1>3, <1>4, <1>5, <1>6, <2>1, <2>2, <2>3
    DEF DrvInv, AnyRequest, Request, Controls
<1>8. PinsInv'
  BY <1>1, <1>2, <1>3, <1>4, <1>5 DEF PinsInv, IdlePins, AnyRequest, Request, Controls
<1>9. GenInv' /\ MonInv'
  BY <1>1, <1>2, GenKept, MonKept DEF GenInv
<1>10. ScbInv' /\ StageInv' /\ CountsInv'
  BY <1>1, <1>2, ScbKept, StageKept, CountsKept
<1> QED
  BY <1>1, <1>2, <1>7, <1>8, <1>9, <1>10 DEF BenchInv

LEMMA DrvDriveStep == ASSUME BenchInv, DrvDrive PROVE BenchInv'
<1>1. /\ drv = "drive" /\ drv' = "get" /\ scheduled' = <<drv_tx>>
      /\ UNCHANGED <<rtlVars, phase, pins, seen, top, test, gen, gen_q, drv_tx, mon, mon_left,
                     scb, model_q, matched, check_count, pass_count, error_count,
                     gen2drv_mbx, mon2scb_mbx, count_mbx>>
  BY DEF DrvDrive, dutVars, topVars, genVars, monVars, scbVars, mailboxes
<1>2. /\ top \in {"wait", "finish"}
      /\ StageInv /\ CountsInv /\ GenInv /\ DrvInv /\ PinsInv /\ MonInv /\ ScbInv
  BY <1>1, Running
<1>3. sent' = sent /\ Len(sent) \in Nat
  BY <1>1, SentKept, SentIsSeq
<1>4. put' = put /\ edges' = edges /\ gotten' = gotten
  BY <1>1, <1>3 DEF put, edges, sampled, gotten
<1>5. driven' = edges /\ gotten = edges /\ edges <= Len(sent)
  BY <1>1, <1>2, <1>3, <1>4, CountsAreInts DEF driven, DrvInv
<1>6. DrvInv'
  BY <1>1, <1>2, <1>3, <1>4, <1>5 DEF DrvInv, AnyRequest, Request, Controls
<1>7. PinsInv'
  BY <1>1, <1>2, <1>3, <1>4, <1>5
  DEF PinsInv, DrvInv, IdlePins, AnyRequest, Request, Controls
<1>8. GenInv' /\ MonInv'
  BY <1>1, <1>2, GenKept, MonKept DEF GenInv
<1>9. ScbInv' /\ StageInv' /\ CountsInv'
  BY <1>1, <1>2, ScbKept, StageKept, CountsKept
<1> QED
  BY <1>1, <1>2, <1>6, <1>7, <1>8, <1>9 DEF BenchInv

-----------------------------------------------------------------------------
(* The monitor *)

LEMMA MonGetCountStep == ASSUME BenchInv, MonGetCount PROVE BenchInv'
<1>1. /\ mon = "count" /\ count_mbx # <<>>
      /\ mon_left' = Head(count_mbx) /\ count_mbx' = Tail(count_mbx)
      /\ mon' = IF mon_left' > 0 THEN "clock" ELSE "end"
      /\ UNCHANGED <<rtlVars, phase, pins, seen, top, test, gen, gen_q, drv, drv_tx, scheduled,
                     scb, model_q, matched, check_count, pass_count, error_count,
                     gen2drv_mbx, mon2scb_mbx>>
  BY DEF MonGetCount, dutVars, topVars, genVars, drvVars, scbVars
<1>2. /\ top \in {"wait", "finish"}
      /\ StageInv /\ CountsInv /\ GenInv /\ DrvInv /\ PinsInv /\ MonInv /\ ScbInv
  BY <1>1, Running
<1>3. sent' = sent /\ Len(sent) \in Nat
  BY <1>1, SentKept, SentIsSeq
<1>4. gen = "done" /\ mon_left' = Len(sent) /\ count_mbx' = <<>>
  BY <1>1, <1>2, ShortSequences DEF GenInv
<1>5. put' = put /\ sampled = 0 /\ sampled' = 0 /\ edges' = edges
  BY <1>1, <1>3, <1>4 DEF put, sampled, edges
<1>6. GenInv'
  BY <1>1, <1>2, <1>3, <1>4, <1>5 DEF GenInv, AnyRequest, Request, Controls
<1>7. DrvInv' /\ PinsInv'
  BY <1>1, <1>2, <1>5, DrvKept, PinsKept
<1>8. MonInv'
  BY <1>1, <1>2, <1>3, <1>4 DEF MonInv
<1>9. ScbInv'
  BY <1>1, <1>2, <1>5 DEF ScbInv
<1>10. StageInv' /\ CountsInv'
  BY <1>1, <1>2, StageKept, CountsKept
<1> QED
  BY <1>1, <1>2, <1>6, <1>7, <1>8, <1>9, <1>10 DEF BenchInv

LEMMA MonSampleStep == ASSUME BenchInv, MonSample PROVE BenchInv'
<1>1. /\ mon = "sample" /\ mon2scb_mbx' = Append(mon2scb_mbx, observed)
      /\ mon_left' = mon_left - 1
      /\ mon' = IF mon_left' > 0 THEN "clock" ELSE "end"
      /\ UNCHANGED <<rtlVars, phase, pins, seen, top, test, gen, gen_q, drv, drv_tx, scheduled,
                     scb, model_q, matched, check_count, pass_count, error_count,
                     gen2drv_mbx, count_mbx>>
  BY DEF MonSample, dutVars, topVars, genVars, drvVars, scbVars
<1>2. /\ top \in {"wait", "finish"}
      /\ StageInv /\ CountsInv /\ GenInv /\ DrvInv /\ PinsInv /\ MonInv /\ ScbInv
  BY <1>1, Running
<1>3. sent' = sent /\ Len(sent) \in Nat /\ observed' = observed
  BY <1>1, SentKept, SentIsSeq, ObservedKept
<1>4. mon_left \in 1 .. Len(sent) /\ phase = "edge"
  BY <1>1, <1>2, <1>3 DEF MonInv, StageInv
<1>5. put' = put /\ sampled' = sampled + 1 /\ sampled \in Nat /\ edges' = edges
  <2>1. mon' \in {"clock", "end"} /\ mon = "sample" /\ mon_left' = mon_left - 1
    BY <1>1
  <2>2. sampled = Len(sent) - mon_left /\ sampled' = Len(sent) - mon_left'
    BY <1>3, <2>1 DEF sampled
  <2>3. sampled' = sampled + 1 /\ sampled \in Nat
    BY <1>3, <1>4, <2>1, <2>2
  <2>4. edges = sampled + 2 /\ edges' = sampled' + 1
    BY <2>1 DEF edges
  <2>5. edges' = edges
    BY <2>3, <2>4
  <2> QED
    BY <1>1, <1>3, <2>3, <2>5 DEF put
<1>6. GenInv' /\ DrvInv' /\ PinsInv'
  BY <1>1, <1>2, <1>5, GenKept, DrvKept, PinsKept DEF GenInv
<1>7. MonInv'
  BY <1>1, <1>2, <1>3, <1>4 DEF MonInv
<1>8. ScbInv'
  <2>1. mon2scb_mbx = <<>> /\ check_count = sampled /\ scb = "get"
    BY <1>1, <1>2 DEF ScbInv
  <2>2. mon2scb_mbx' = <<observed'>>
    BY <1>1, <1>3, <2>1, ShortSequences
  <2> QED
    BY <1>1, <1>4, <1>5, <2>1, <2>2 DEF ScbInv
<1>9. StageInv' /\ CountsInv'
  BY <1>1, <1>2, StageKept, CountsKept
<1> QED
  BY <1>1, <1>2, <1>6, <1>7, <1>8, <1>9 DEF BenchInv

LEMMA MonEndStep == ASSUME BenchInv, MonEnd PROVE BenchInv'
<1>1. /\ mon = "end" /\ mon' = "done" /\ mon2scb_mbx' = Append(mon2scb_mbx, Null)
      /\ UNCHANGED <<rtlVars, phase, pins, seen, top, test, gen, gen_q, drv, drv_tx, scheduled,
                     mon_left, scb, model_q, matched, check_count, pass_count, error_count,
                     gen2drv_mbx, count_mbx>>
  BY DEF MonEnd, dutVars, topVars, genVars, drvVars, scbVars
<1>2. /\ top \in {"wait", "finish"}
      /\ StageInv /\ CountsInv /\ GenInv /\ DrvInv /\ PinsInv /\ MonInv /\ ScbInv
  BY <1>1, Running
<1>3. sent' = sent /\ observed' = observed
  BY <1>1, SentKept, ObservedKept
<1>4. put' = put /\ sampled' = sampled /\ edges' = edges
  BY <1>1, <1>3 DEF put, sampled, edges
<1>5. GenInv' /\ DrvInv' /\ PinsInv'
  BY <1>1, <1>2, <1>4, GenKept, DrvKept, PinsKept DEF GenInv
<1>6. MonInv'
  BY <1>1, <1>2, <1>3 DEF MonInv
<1>7. ScbInv'
  <2>1. CASE mon2scb_mbx = <<>> /\ check_count = sampled
    <3>1. mon2scb_mbx' = <<Null>>
      BY <1>1, <2>1, ShortSequences
    <3> QED
      BY <1>1, <1>2, <1>4, <2>1, <3>1 DEF ScbInv
  <2>2. CASE mon2scb_mbx = <<observed>> /\ check_count = sampled - 1
    <3>1. mon2scb_mbx' = <<observed', Null>>
      BY <1>1, <1>3, <2>2, ShortSequences
    <3> QED
      BY <1>1, <1>2, <1>4, <2>2, <3>1 DEF ScbInv
  <2> QED
    BY <1>1, <1>2, <2>1, <2>2 DEF ScbInv
<1>8. StageInv' /\ CountsInv'
  BY <1>1, <1>2, StageKept, CountsKept
<1> QED
  BY <1>1, <1>2, <1>5, <1>6, <1>7, <1>8 DEF BenchInv

-----------------------------------------------------------------------------
(* The scoreboard *)

(* The pins are those of a request or idle, so an observation is no marker. *)
LEMMA PinsTyped ==
  ASSUME BenchInv PROVE pins \in AnyRequest \union {IdlePins}
<1>1. CASE top \in {"reset", "delay", "fatal"}
  BY <1>1 DEF BenchInv, NotStarted
<1>2. CASE top \in {"wait", "finish"}
  <2>1. GenInv /\ DrvInv /\ PinsInv /\ MonInv /\ phase \in {"edge", "rest"}
    BY <1>2 DEF BenchInv, StageInv
  <2>2. Len(sent) \in Nat /\ \A i \in 1 .. Len(sent) : sent[i] \in AnyRequest
    BY SentIsSeq, ElementOfSeq
  <2>3. sampled \in 0 .. Len(sent) /\ mon_left \in 0 .. Len(sent)
    BY <2>1, CountsAreInts DEF MonInv
  <2>4. CASE phase = "edge"
    <3>1. edges \in 1 .. Len(sent) + 1
      BY <2>1, <2>2, <2>3, <2>4 DEF edges, sampled, MonInv
    <3> QED
      BY <2>1, <2>2, <2>4, <3>1 DEF PinsInv
  <2>5. CASE phase = "rest"
    <3>1. edges \in 0 .. Len(sent)
      BY <2>1, <2>2, <2>3, <2>5 DEF edges, sampled, MonInv
    <3> QED
      BY <2>1, <2>2, <2>5, <3>1 DEF PinsInv
  <2> QED
    BY <2>1, <2>4, <2>5
<1> QED
  BY <1>1, <1>2 DEF BenchInv, StageInv

(* The types of FifoCheck, in the terms of this module *)
LEMMA CheckTypes ==
  ASSUME CheckProofs!TypeOK
  PROVE  /\ RstN \in Bit /\ F_EmptyN \in Bit /\ F_FirstN \in Bit /\ F_SLastN \in Bit
         /\ F_LastN \in Bit /\ F_FullN \in Bit
         /\ FIFO \in [memblk!Addresses -> memblk!Word]
         /\ model_q_after \in Seq(Data) /\ Len(model_q_after) <= FDEPTH
         /\ matched_after \in BOOLEAN
BY DEF CheckProofs!TypeOK, CheckProofs!Bit, Bit, CheckProofs!memblk!MemTypeOK,
       CheckProofs!memblk!Addresses, CheckProofs!memblk!Word, memblk!Addresses, memblk!Word,
       CheckProofs!model!ModelTypeOK

LEMMA ObservedTyped ==
  ASSUME BenchInv, CheckProofs!TypeOK
  PROVE  observed \in Observation /\ observed # Null
<1>1. F_Data \in memblk!Word
  BY CheckTypes DEF F_Data, memblk!data_out, memblk!Word
<1>2. flags \in Bit \X Bit \X Bit \X Bit \X Bit
  BY CheckTypes DEF flags
<1>3. observed \in Observation
  BY <1>1, <1>2, CheckTypes, PinsTyped DEF observed, Observation
<1> QED
  BY <1>3, BenchAssumption

LEMMA ScbCheckStep == ASSUME BenchInv, CheckProofs!TypeOK, ScbCheck PROVE BenchInv'
<1>1. /\ scb = "get" /\ mon2scb_mbx # <<>> /\ Head(mon2scb_mbx) # Null
      /\ mon2scb_mbx' = Tail(mon2scb_mbx)
      /\ model_q' = QueueAfter(Head(mon2scb_mbx)) /\ matched' = VerdictOn(Head(mon2scb_mbx))
      /\ check_count' = check_count + 1
      /\ pass_count' = IF matched' THEN pass_count + 1 ELSE pass_count
      /\ error_count' = IF matched' THEN error_count ELSE error_count + 1
      /\ UNCHANGED <<rtlVars, phase, pins, seen, top, test, gen, gen_q, drv, drv_tx, scheduled,
                     mon, mon_left, scb, gen2drv_mbx, count_mbx>>
  BY DEF ScbCheck, dutVars, topVars, genVars, drvVars, monVars
<1>2. /\ top \in {"wait", "finish"}
      /\ StageInv /\ CountsInv /\ GenInv /\ DrvInv /\ PinsInv /\ MonInv /\ ScbInv
  BY <1>1, Running
<1>3. sent' = sent /\ observed' = observed
  BY <1>1, SentKept, ObservedKept
<1>4. put' = put /\ sampled' = sampled /\ edges' = edges /\ sampled \in Nat
  BY <1>1, <1>2, <1>3, CountsAreInts DEF put, sampled, edges
<1>5. GenInv' /\ DrvInv' /\ PinsInv' /\ MonInv'
  BY <1>1, <1>2, <1>4, GenKept, DrvKept, PinsKept, MonKept DEF GenInv
<1>6. ScbInv'
  <2>1. CASE mon2scb_mbx = <<observed>> /\ check_count = sampled - 1
    <3>1. mon2scb_mbx' = <<>>
      BY <1>1, <2>1, ShortSequences
    <3> QED
      BY <1>1, <1>2, <1>4, <2>1, <3>1 DEF ScbInv
  <2>2. CASE mon = "done" /\ mon2scb_mbx = <<observed, Null>> /\ check_count = sampled - 1
    <3>1. mon2scb_mbx' = <<Null>>
      BY <1>1, <2>2, ShortSequences
    <3> QED
      BY <1>1, <1>2, <1>4, <2>2, <3>1 DEF ScbInv
  <2>3. mon2scb_mbx # <<Null>>
    BY <1>1, ShortSequences
  <2> QED
    BY <1>1, <1>2, <2>1, <2>2, <2>3 DEF ScbInv
<1>7. StageInv'
  BY <1>1, <1>2, StageKept
<1>8. CountsInv'
  <2>1. model_q' = model_q_after /\ matched' = matched_after
    <3>1. unchecked = Head(mon2scb_mbx)
      <4>1. mon # "sample"
        BY <1>1, <1>2 DEF ScbInv
      <4> QED
        BY <1>1, <4>1 DEF unchecked, incoming
    <3> QED
      BY <1>1, <3>1 DEF model_q_after, matched_after
  <2>2. matched' \in BOOLEAN /\ model_q' \in Seq(Data) /\ Len(model_q') <= FDEPTH
    BY <2>1, CheckTypes
  <2>3. CASE matched'
    BY <1>1, <1>2, <2>2, <2>3 DEF CountsInv
  <2>4. CASE ~matched'
    BY <1>1, <1>2, <2>2, <2>4 DEF CountsInv
  <2> QED
    BY <2>3, <2>4
<1> QED
  BY <1>1, <1>2, <1>5, <1>6, <1>7, <1>8 DEF BenchInv

LEMMA ScbCompleteStep == ASSUME BenchInv, CheckProofs!TypeOK, ScbComplete PROVE BenchInv'
<1>1. /\ scb = "get" /\ mon2scb_mbx # <<>> /\ Head(mon2scb_mbx) = Null
      /\ mon2scb_mbx' = Tail(mon2scb_mbx) /\ scb' = "completed"
      /\ UNCHANGED <<rtlVars, phase, pins, seen, top, test, gen, gen_q, drv, drv_tx, scheduled,
                     mon, mon_left, model_q, matched, check_count, pass_count, error_count,
                     gen2drv_mbx, count_mbx>>
  BY DEF ScbComplete, dutVars, topVars, genVars, drvVars, monVars
<1>2. /\ top \in {"wait", "finish"}
      /\ StageInv /\ CountsInv /\ GenInv /\ DrvInv /\ PinsInv /\ MonInv /\ ScbInv
  BY <1>1, Running
<1>3. sent' = sent
  BY <1>1, SentKept
<1>4. put' = put /\ sampled' = sampled /\ edges' = edges
  BY <1>1, <1>3 DEF put, sampled, edges
<1>5. GenInv' /\ DrvInv' /\ PinsInv' /\ MonInv'
  BY <1>1, <1>2, <1>4, GenKept, DrvKept, PinsKept, MonKept DEF GenInv
<1>6. ScbInv'
  <2>1. mon2scb_mbx # <<observed>> /\ mon2scb_mbx # <<observed, Null>>
    BY <1>1, ObservedTyped, ShortSequences
  <2>2. mon = "done" /\ mon2scb_mbx = <<Null>> /\ check_count = sampled
    BY <1>1, <1>2, <2>1 DEF ScbInv
  <2>3. mon2scb_mbx' = <<>>
    BY <1>1, <2>2, ShortSequences
  <2> QED
    BY <1>1, <1>4, <2>2, <2>3 DEF ScbInv
<1>7. StageInv' /\ CountsInv'
  BY <1>1, <1>2, StageKept, CountsKept
<1> QED
  BY <1>1, <1>2, <1>5, <1>6, <1>7 DEF BenchInv

-----------------------------------------------------------------------------
(* The top level *)

(* An idle cycle changes nothing, and one in reset nothing but the flags    *)
(* and registers that are not at their reset values.                        *)
LEMMA IdleCycle ==
  ASSUME NEW clear \in BOOLEAN, Registers(clear, 1, 1),
         clear => <<fcounter, rd_ptr, wr_ptr>> = <<0, 0, 0>> /\ flags = <<0, 1, 1, 1, 1>>
  PROVE  UNCHANGED <<pointers, flags>>
BY DEF Registers, Control, CountAfter, EmptyFlag, FirstFlag, FirstAsserts, SLastFlag,
       SLastAsserts, LastFlag, LastAsserts, FullFlag, FullAsserts, pointers, flags

LEMMA ReleaseResetStep == ASSUME BenchInv, ReleaseReset PROVE BenchInv'
<1>1. /\ top = "reset" /\ top' = "delay" /\ RstN' = 1
      /\ UNCHANGED <<pins, phase, test, gen, gen_q, drv, drv_tx, scheduled, mon, mon_left, scb,
                     model_q, matched, check_count, pass_count, error_count,
                     gen2drv_mbx, mon2scb_mbx, count_mbx>>
  BY DEF ReleaseReset, PosedgeRstN, genVars, drvVars, monVars, scbVars, mailboxes
<1>2. NotStarted'
  BY <1>1 DEF BenchInv, NotStarted, IdlePins, Request, Controls
<1>3. StageInv'
  BY <1>1 DEF BenchInv, StageInv
<1>4. CountsInv'
  BY <1>1, CountsKept DEF BenchInv
<1> QED
  BY <1>1, <1>2, <1>3, <1>4 DEF BenchInv

LEMMA NullTestStep == ASSUME BenchInv, NullTest PROVE BenchInv'
<1>1. /\ top = "delay" /\ top' = "fatal" /\ test = NoName
      /\ UNCHANGED <<rtlVars, pins, phase, test, seen, gen, gen_q, drv, drv_tx, scheduled, mon,
                     mon_left, scb, model_q, matched, check_count, pass_count, error_count,
                     gen2drv_mbx, mon2scb_mbx, count_mbx>>
  BY DEF NullTest, dutVars, genVars, drvVars, monVars, scbVars, mailboxes
<1>2. NotStarted'
  BY <1>1 DEF BenchInv, NotStarted, IdlePins, Request, Controls
<1>3. StageInv'
  BY <1>1 DEF BenchInv, StageInv, rtlVars
<1>4. CountsInv'
  BY <1>1, CountsKept DEF BenchInv
<1> QED
  BY <1>1, <1>2, <1>3, <1>4 DEF BenchInv

LEMMA StartTestStep == ASSUME BenchInv, StartTest PROVE BenchInv'
<1>1. /\ top = "delay" /\ phase = "rest" /\ top' = "wait"
      /\ gen' = "put" /\ gen_q' = sent /\ drv' = "initial" /\ mon' = "clock0" /\ scb' = "get"
      /\ UNCHANGED <<rtlVars, pins, phase, test, seen, drv_tx, scheduled, mon_left,
                     model_q, matched, check_count, pass_count, error_count,
                     gen2drv_mbx, mon2scb_mbx, count_mbx>>
  BY DEF StartTest, dutVars, mailboxes
<1>2. StageInv /\ CountsInv /\ NotStarted
  BY <1>1 DEF BenchInv
<1>3. sent' = sent /\ sent \in Seq(AnyRequest) /\ Len(sent) \in Nat
  BY <1>1, SentKept, SentIsSeq
<1>4. /\ put' = 0 /\ gotten' = 0 /\ driven' = 0 /\ sampled' = 0 /\ edges' = 0
      /\ gen2drv_mbx' = <<>> /\ Len(gen2drv_mbx') = 0
  <2>1. put' = 0
    BY <1>1, <1>3 DEF put
  <2>2. gen2drv_mbx' = <<>>
    BY <1>1, <1>2 DEF NotStarted
  <2>3. Len(gen2drv_mbx') = 0
    BY <2>2, EmptySeq
  <2>4. gotten' = 0
    BY <2>1, <2>3 DEF gotten
  <2> QED
    BY <1>1, <2>1, <2>2, <2>3, <2>4 DEF driven, sampled, edges
<1>5. GenInv'
  BY <1>1, <1>2, <1>3, <1>4 DEF GenInv, NotStarted, AnyRequest, Request, Controls
<1>6. DrvInv'
  <2>1. gen2drv_mbx' \in Seq(AnyRequest')
    BY <1>4, EmptySeq
  <2> QED
    BY <1>1, <1>3, <1>4, <2>1 DEF DrvInv
<1>7. PinsInv'
  BY <1>1, <1>2, <1>4 DEF PinsInv, NotStarted, IdlePins, Request, Controls
<1>8. MonInv'
  BY <1>1, <1>2, <1>3 DEF MonInv, NotStarted
<1>9. ScbInv'
  BY <1>1, <1>2, <1>4 DEF ScbInv, NotStarted
<1>10. StageInv'
  BY <1>1, <1>2 DEF StageInv, rtlVars
<1>11. CountsInv'
  BY <1>1, <1>2, CountsKept
<1> QED
  BY <1>1, <1>5, <1>6, <1>7, <1>8, <1>9, <1>10, <1>11 DEF BenchInv

LEMMA FinishStep == ASSUME BenchInv, Finish PROVE BenchInv'
<1>1. /\ top = "wait" /\ scb = "completed" /\ top' = "finish"
      /\ UNCHANGED <<rtlVars, pins, phase, test, seen, gen, gen_q, drv, drv_tx, scheduled, mon,
                     mon_left, scb, model_q, matched, check_count, pass_count, error_count,
                     gen2drv_mbx, mon2scb_mbx, count_mbx>>
  BY DEF Finish, dutVars, genVars, drvVars, monVars, scbVars, mailboxes
<1>2. /\ StageInv /\ CountsInv /\ GenInv /\ DrvInv /\ PinsInv /\ MonInv /\ ScbInv
  BY <1>1, Running
<1>3. put' = put /\ edges' = edges
  BY <1>1, SentKept DEF put, edges, sampled
<1>4. GenInv' /\ DrvInv' /\ PinsInv' /\ MonInv' /\ ScbInv'
  BY <1>1, <1>2, <1>3, GenKept, DrvKept, PinsKept, MonKept, ScbKept DEF GenInv
<1>5. StageInv' /\ CountsInv'
  BY <1>1, <1>2, CountsKept DEF StageInv, rtlVars
<1> QED
  BY <1>1, <1>4, <1>5 DEF BenchInv

(* What a quiet simulation looks like: the generator is done, and only the  *)
(* clock can move the others.                                               *)
LEMMA QuietFacts ==
  ASSUME BenchInv, Quiet, top \in {"wait", "finish"}
  PROVE  /\ top = "wait" /\ gen = "done" /\ scb = "get" /\ mon2scb_mbx = <<>>
         /\ check_count = sampled /\ mon \in {"clock0", "clock"}
         /\ drv = "clock" \/ (drv = "get" /\ driven = Len(sent))
<1>1. /\ StageInv /\ CountsInv /\ GenInv /\ DrvInv /\ PinsInv /\ MonInv /\ ScbInv
  BY DEF BenchInv
<1>2. scb = "get" /\ mon2scb_mbx = <<>>
  BY <1>1 DEF Quiet, ScbInv
<1>3. top = "wait" /\ gen = "done"
  BY <1>1, <1>2 DEF Quiet, StageInv, GenInv
<1>4. mon # "done" /\ check_count = sampled
  BY <1>1, <1>2, ShortSequences DEF ScbInv
<1>5. mon \in {"clock0", "clock"}
  BY <1>1, <1>3, <1>4, ShortSequences DEF Quiet, MonInv, GenInv
<1>6. CASE drv = "get"
  <2>1. gen2drv_mbx = <<>> /\ gen_q = <<>>
    BY <1>1, <1>3, <1>6 DEF Quiet, GenInv
  <2>2. Len(gen2drv_mbx) = 0 /\ Len(gen_q) = 0 /\ Len(sent) \in Nat
    BY <2>1, EmptySeq, SentIsSeq
  <2>3. driven = Len(sent)
    BY <1>6, <2>2 DEF driven, gotten, put
  <2> QED
    BY <1>2, <1>3, <1>4, <1>5, <1>6, <2>3
<1> QED
  BY <1>1, <1>2, <1>3, <1>4, <1>5, <1>6 DEF Quiet, DrvInv

LEMMA EdgeStep == ASSUME BenchInv, Edge PROVE BenchInv'
<1>1. /\ Quiet /\ phase = "rest" /\ phase' = "edge"
      /\ drv' = IF drv = "clock" THEN "drive" ELSE drv
      /\ mon' = IF mon = "clock0" THEN "count" ELSE IF mon = "clock" THEN "sample" ELSE mon
      /\ RstN' = RstN
      /\ Registers(RstN = 0 \/ pins.ctl.FClrN = 0, pins.ctl.FInN, pins.ctl.FOutN)
      /\ seen' = IF RstN = 0 \/ pins.ctl.FClrN = 0 THEN {}
                 ELSE seen \union lockstep!KindsOf(pins.ctl.FInN, pins.ctl.FOutN)
      /\ UNCHANGED <<top, test, pins, gen, gen_q, drv_tx, scheduled, mon_left, scb, model_q,
                     matched, check_count, pass_count, error_count, gen2drv_mbx, mon2scb_mbx,
                     count_mbx>>
  BY DEF Edge, PosedgeClk, topVars, genVars, scbVars, mailboxes
<1>2. StageInv /\ CountsInv /\ CountsInv' /\ top # "fatal"
  BY <1>1, CountsKept DEF BenchInv, Quiet
<1>3. StageInv'
  <2>1. CASE top = "reset"
    <3>1. pins = IdlePins /\ RstN = 0
      BY <1>2, <2>1 DEF BenchInv, StageInv, NotStarted
    <3>2. pins.ctl.FInN = 1 /\ pins.ctl.FOutN = 1
      BY <3>1 DEF IdlePins, Request, Controls
    <3>3. Registers(TRUE, 1, 1)
      BY <1>1, <3>1, <3>2
    <3>4. UNCHANGED <<pointers, flags>>
      BY <1>2, <2>1, <3>3, IdleCycle DEF StageInv
    <3> QED
      BY <1>1, <1>2, <2>1, <3>1, <3>4 DEF StageInv, pointers, flags
  <2>2. CASE top # "reset"
    BY <1>1, <1>2, <2>2 DEF StageInv
  <2> QED
    BY <2>1, <2>2
<1>4. CASE top \in {"reset", "delay"}
  <2>1. NotStarted'
    BY <1>1, <1>4 DEF BenchInv, NotStarted, IdlePins, Request, Controls
  <2> QED
    BY <1>1, <1>2, <1>3, <1>4, <2>1 DEF BenchInv
<1>5. CASE top \in {"wait", "finish"}
  <2>1. GenInv /\ DrvInv /\ PinsInv /\ MonInv /\ ScbInv
    BY <1>5 DEF BenchInv
  <2>2. /\ top = "wait" /\ gen = "done" /\ scb = "get" /\ mon2scb_mbx = <<>>
        /\ check_count = sampled /\ mon \in {"clock0", "clock"}
        /\ drv = "clock" \/ (drv = "get" /\ driven = Len(sent))
    BY <1>1, <1>5, QuietFacts
  <2>3. sent' = sent /\ Len(sent) \in Nat
    BY <1>1, SentKept, SentIsSeq
  <2>4. /\ put \in 0 .. Len(sent) /\ gotten \in 0 .. put /\ edges \in Nat
        /\ sampled \in Nat
    BY <2>1, <2>3, CountsAreInts
  <2>5. put' = put /\ gotten' = gotten /\ driven' = driven
    BY <1>1, <2>2, <2>3 DEF put, gotten, driven
  <2>6. sampled' = sampled /\ edges' = edges + 1
    <3>1. sampled' = sampled
      BY <1>1, <2>2, <2>3 DEF sampled
    <3> QED
      BY <1>1, <2>2, <2>4, <3>1 DEF edges, sampled
  <2>7. GenInv'
    BY <1>1, <2>1, <2>2, <2>3, <2>5 DEF GenInv, AnyRequest, Request, Controls
  <2>8. DrvInv'
    <3>1. CASE drv = "clock"
      <4>1. drv' = "drive" /\ driven = gotten - 1
        BY <1>1, <3>1 DEF driven
      <4>2. edges' = driven' + 1
        BY <2>1, <2>3, <2>4, <2>5, <2>6, <3>1, <4>1 DEF DrvInv
      <4> QED
        BY <1>1, <2>1, <2>3, <2>5, <3>1, <4>1, <4>2
        DEF DrvInv, AnyRequest, Request, Controls
    <3>2. CASE drv = "get" /\ driven = Len(sent)
      <4>1. drv' = "get" /\ edges >= Len(sent)
        BY <1>1, <2>1, <2>3, <2>4, <3>2 DEF DrvInv
      <4>2. driven' = IF edges' <= Len(sent) THEN edges' ELSE Len(sent)
        BY <2>3, <2>4, <2>5, <2>6, <3>2, <4>1
      <4> QED
        BY <1>1, <2>1, <2>3, <2>5, <3>2, <4>1, <4>2
        DEF DrvInv, AnyRequest, Request, Controls
    <3> QED
      BY <2>2, <3>1, <3>2
  <2>9. PinsInv'
    <3>1. pins' = IF edges' = 1 THEN IdlePins ELSE sent[edges' - 1]
      BY <1>1, <2>1, <2>4, <2>6 DEF PinsInv
    <3>2. drv' = "drive" \/ ~(edges' <= Len(sent))
      BY <1>1, <2>1, <2>2, <2>3, <2>4, <2>6 DEF DrvInv
    <3> QED
      BY <1>1, <2>1, <2>3, <3>1, <3>2 DEF PinsInv, IdlePins, AnyRequest, Request, Controls
  <2>10. MonInv'
    BY <1>1, <2>1, <2>2, <2>3 DEF MonInv
  <2>11. ScbInv'
    BY <1>1, <2>2, <2>6 DEF ScbInv
  <2> QED
    BY <1>1, <1>2, <1>3, <2>2, <2>7, <2>8, <2>9, <2>10, <2>11 DEF BenchInv
<1> QED
  BY <1>2, <1>4, <1>5 DEF StageInv

LEMMA SkewElapsedStep == ASSUME BenchInv, SkewElapsed PROVE BenchInv'
<1>1. /\ Quiet /\ phase = "edge" /\ phase' = "rest"
      /\ pins' = IF scheduled = <<>> THEN pins ELSE Head(scheduled)
      /\ scheduled' = <<>>
      /\ UNCHANGED <<rtlVars, seen, top, test, gen, gen_q, drv, drv_tx, mon, mon_left, scb,
                     model_q, matched, check_count, pass_count, error_count, gen2drv_mbx,
                     mon2scb_mbx, count_mbx>>
  BY DEF SkewElapsed, topVars, genVars, monVars, scbVars, mailboxes
<1>2. StageInv /\ StageInv' /\ CountsInv' /\ top # "fatal"
  <2>1. StageInv /\ CountsInv /\ top # "fatal"
    BY <1>1 DEF BenchInv, Quiet
  <2>2. StageInv'
    BY <1>1, <2>1 DEF StageInv, rtlVars, flags
  <2>3. CountsInv'
    BY <1>1, <2>1, CountsKept
  <2> QED
    BY <2>1, <2>2, <2>3
<1>3. CASE top \in {"reset", "delay"}
  <2>1. NotStarted'
    BY <1>1, <1>3 DEF BenchInv, NotStarted, IdlePins, Request, Controls
  <2> QED
    BY <1>1, <1>2, <1>3, <2>1 DEF BenchInv
<1>4. CASE top \in {"wait", "finish"}
  <2>1. GenInv /\ DrvInv /\ PinsInv /\ MonInv /\ ScbInv
    BY <1>4 DEF BenchInv
  <2>2. /\ top = "wait" /\ scb = "get" /\ mon2scb_mbx = <<>> /\ check_count = sampled
        /\ drv \in {"clock", "get"} /\ mon = "clock"
    BY <1>1, <1>4, <2>1, QuietFacts DEF MonInv
  <2>3. sent' = sent /\ Len(sent) \in Nat
    BY <1>1, SentKept, SentIsSeq
  <2>4. put' = put /\ gotten' = gotten /\ driven' = driven /\ sampled' = sampled /\ edges' = edges
    BY <1>1, <2>3 DEF put, gotten, driven, sampled, edges
  <2>5. edges \in 1 .. Len(sent)
    <3>1. mon_left \in 1 .. Len(sent)
      BY <2>1, <2>2, <2>3 DEF MonInv
    <3>2. edges = Len(sent) - mon_left + 1
      BY <2>2 DEF edges, sampled
    <3> QED
      BY <2>3, <3>1, <3>2
  <2>6. pins' = sent[edges]
    BY <1>1, <2>1, <2>2, <2>3, <2>5, ShortSequences DEF PinsInv
  <2>7. GenInv' /\ MonInv'
    BY <1>1, <2>1, <2>2, <2>3, GenKept DEF GenInv, MonInv
  <2>8. DrvInv'
    BY <1>1, <2>1, <2>2, <2>3, <2>4 DEF DrvInv, AnyRequest, Request, Controls
  <2>9. PinsInv'
    BY <1>1, <2>1, <2>3, <2>4, <2>5, <2>6 DEF PinsInv, IdlePins, AnyRequest, Request, Controls
  <2>10. ScbInv'
    BY <1>1, <2>2, <2>4 DEF ScbInv
  <2> QED
    BY <1>1, <1>2, <2>2, <2>7, <2>8, <2>9, <2>10 DEF BenchInv
<1> QED
  BY <1>2, <1>3, <1>4 DEF StageInv

-----------------------------------------------------------------------------
(* The specification implements FifoCheck *)

(* The definitions of FifoRtl and of its two instances are the same. *)
LEMMA SameRegisters ==
  ASSUME NEW clear, NEW WriteN, NEW ReadN
  PROVE  Registers(clear, WriteN, ReadN) <=> CheckProofs!Registers(clear, WriteN, ReadN)
BY DEF Registers, Control, CountAfter, Inc, Dec, EmptyFlag, FirstFlag, FirstAsserts,
       SLastFlag, SLastAsserts, LastFlag, LastAsserts, FullFlag, FullAsserts,
       CheckProofs!Registers, CheckProofs!Control, CheckProofs!CountAfter,
       CheckProofs!Inc, CheckProofs!Dec, CheckProofs!EmptyFlag,
       CheckProofs!FirstFlag, CheckProofs!FirstAsserts,
       CheckProofs!SLastFlag, CheckProofs!SLastAsserts,
       CheckProofs!LastFlag, CheckProofs!LastAsserts,
       CheckProofs!FullFlag, CheckProofs!FullAsserts

LEMMA SameMemory ==
  ASSUME NEW writeN, NEW wr_addr, NEW data_in
  PROVE  memblk!MemPosedge(writeN, wr_addr, data_in)
           <=> CheckProofs!memblk!MemPosedge(writeN, wr_addr, data_in)
BY DEF memblk!MemPosedge, memblk!Addresses,
       CheckProofs!memblk!MemPosedge, CheckProofs!memblk!Addresses

LEMMA SamePosedgeClk ==
  ASSUME NEW FClrN, NEW FInN, NEW FOutN, NEW Data_In
  PROVE  PosedgeClk(FClrN, FInN, FOutN, Data_In)
           <=> CheckProofs!PosedgeClk(FClrN, FInN, FOutN, Data_In)
<1>1. Registers(RstN = 0 \/ FClrN = 0, FInN, FOutN)
        <=> CheckProofs!Registers(RstN = 0 \/ FClrN = 0, FInN, FOutN)
  BY SameRegisters
<1>2. memblk!MemPosedge(FInN, wr_ptr, Data_In)
        <=> CheckProofs!memblk!MemPosedge(FInN, wr_ptr, Data_In)
  BY SameMemory
<1> QED
  BY <1>1, <1>2 DEF PosedgeClk, CheckProofs!PosedgeClk

(* What is unchecked depends on the registers and the pins only while the   *)
(* monitor samples them.                                                    *)
LEMMA UncheckedKept ==
  ASSUME UNCHANGED mon2scb_mbx, mon = "sample" <=> mon' = "sample",
         mon = "sample" => UNCHANGED <<rtlVars, pins>>
  PROVE  unchecked' = unchecked
<1>1. mon = "sample" => observed' = observed
  BY ObservedKept
<1> QED
  BY <1>1 DEF unchecked, incoming

LEMMA AfterKept ==
  ASSUME UNCHANGED <<model_q, matched, check_count, error_count>>, unchecked' = unchecked
  PROVE  UNCHANGED <<model_q_after, matched_after, check_count_after, error_count_after>>
<1>1. UNCHANGED <<model_q_after, matched_after, check_count_after>>
  BY DEF model_q_after, matched_after, check_count_after, QueueAfter, VerdictOn,
         lockstep!model!NextQ, lockstep!compare
<1>2. VerdictOn(unchecked)' <=> VerdictOn(unchecked)
  BY DEF VerdictOn, QueueAfter, lockstep!model!NextQ, lockstep!compare
<1>3. UNCHANGED error_count_after
  BY <1>2 DEF error_count_after
<1> QED
  BY <1>1, <1>3

LEMMA SerialStutters ==
  ASSUME UNCHANGED <<rtlVars, seen, test, model_q_after, matched_after, check_count_after,
                     error_count_after>>
  PROVE  UNCHANGED CheckProofs!serialVars
BY DEF rtlVars, CheckProofs!serialVars, CheckProofs!vars, CheckProofs!rtlVars

LEMMA NothingUnchecked ==
  ASSUME mon # "sample", mon2scb_mbx = <<>>
  PROVE  /\ unchecked = Null /\ model_q_after = model_q /\ matched_after = matched
         /\ check_count_after = check_count /\ error_count_after = error_count
BY DEF unchecked, incoming, model_q_after, matched_after, check_count_after, error_count_after

(* The tests of FifoSerial are the same as those of this module. *)
LEMMA SameScript == CheckProofs!Script(test) = sent
BY DEF CheckProofs!Script, sent, Script

LEMMA SameTests ==
  /\ \A name \in DOMAIN Tests : Tests[name] \in Seq(CheckProofs!AnyRequest)
  /\ NoName \notin DOMAIN Tests
BY TestsAssumption DEF AnyRequest, Request, Controls,
                       CheckProofs!AnyRequest, CheckProofs!Request, CheckProofs!Controls

LEMMA SerialInitHolds == BenchInit => CheckProofs!SerialInit
<1> SUFFICES ASSUME BenchInit PROVE CheckProofs!SerialInit
  OBVIOUS
<1>1. /\ model_q_after = <<>> /\ matched_after = TRUE
      /\ check_count_after = 0 /\ error_count_after = 0
  BY NothingUnchecked DEF BenchInit
<1>2. CheckProofs!RtlInit
  BY DEF BenchInit, RtlInit, memblk!MemInit, memblk!Addresses,
         CheckProofs!RtlInit, CheckProofs!memblk!MemInit, CheckProofs!memblk!Addresses
<1> QED
  BY <1>1, <1>2
  DEF BenchInit, CheckProofs!SerialInit, CheckProofs!CheckInit, CheckProofs!model!ModelInit

(* The request on the pins when the monitor is to sample them. *)
LEMMA RequestOnPins ==
  ASSUME BenchInv, mon = "clock", phase = "rest"
  PROVE  /\ pins \in AnyRequest /\ RstN = 1
         /\ pins.ctl.FClrN \in Bit /\ pins.ctl.FInN \in Bit /\ pins.ctl.FOutN \in Bit
         /\ pins.Data_In \in Data
         /\ mon2scb_mbx = <<>> => check_count < Len(sent) /\ pins = sent[check_count + 1]
<1>1. /\ top \in {"wait", "finish"}
      /\ StageInv /\ CountsInv /\ GenInv /\ DrvInv /\ PinsInv /\ MonInv /\ ScbInv
  BY Running
<1>2. Len(sent) \in Nat /\ \A i \in 1 .. Len(sent) : sent[i] \in AnyRequest
  BY SentIsSeq, ElementOfSeq
<1>3. edges \in 1 .. Len(sent) /\ edges = sampled + 1 /\ sampled \in Nat
  <2>1. mon_left \in 1 .. Len(sent)
    BY <1>1, <1>2 DEF MonInv
  <2>2. edges = sampled + 1 /\ sampled = Len(sent) - mon_left
    BY DEF edges, sampled
  <2> QED
    BY <1>2, <2>1, <2>2
<1>4. pins \in AnyRequest
  BY <1>1, <1>2, <1>3 DEF PinsInv
<1>5. PICK op \in DOMAIN Controls, d \in Data : pins = Request(op, d)
  BY <1>4 DEF AnyRequest
<1>6. pins.ctl = Controls[op] /\ pins.Data_In = d
  BY <1>5 DEF Request
<1>7. \A o \in DOMAIN Controls :
        Controls[o].FClrN \in Bit /\ Controls[o].FInN \in Bit /\ Controls[o].FOutN \in Bit
  BY DEF Controls, Bit
<1>8. mon2scb_mbx = <<>> => check_count < Len(sent) /\ pins = sent[check_count + 1]
  <2>1. mon2scb_mbx = <<>> => check_count = sampled
    BY <1>1, ShortSequences DEF ScbInv
  <2> QED
    BY <1>1, <1>2, <1>3, <2>1 DEF PinsInv
<1> QED
  BY <1>1, <1>4, <1>6, <1>7, <1>8 DEF StageInv

(* An edge at which the monitor samples is the cycle that takes the next    *)
(* request of the test.                                                     *)
LEMMA SampledEdge ==
  ASSUME BenchInv, CheckProofs!TypeOK, Edge, mon = "clock"
  PROVE  CheckProofs!CheckRequest
<1>1. /\ Quiet /\ phase = "rest" /\ mon' = "sample"
      /\ PosedgeClk(pins.ctl.FClrN, pins.ctl.FInN, pins.ctl.FOutN, pins.Data_In)
      /\ seen' = IF RstN = 0 \/ pins.ctl.FClrN = 0 THEN {}
                 ELSE seen \union lockstep!KindsOf(pins.ctl.FInN, pins.ctl.FOutN)
      /\ pins' = pins /\ model_q' = model_q /\ mon2scb_mbx' = mon2scb_mbx /\ RstN' = RstN
      /\ check_count' = check_count /\ error_count' = error_count /\ test' = test
  BY DEF Edge, PosedgeClk, scbVars, mailboxes, topVars
<1>2. top \in {"wait", "finish"}
  BY Running
<1>3. mon2scb_mbx = <<>>
  BY <1>1, <1>2, QuietFacts
<1>4. /\ unchecked = Null /\ model_q_after = model_q
      /\ check_count_after = check_count /\ error_count_after = error_count
  BY <1>3, NothingUnchecked
<1>5. /\ pins \in AnyRequest /\ pins.ctl.FClrN \in Bit /\ pins.ctl.FInN \in Bit
      /\ pins.ctl.FOutN \in Bit /\ pins.Data_In \in Data
  BY <1>1, RequestOnPins
<1>6. CheckProofs!PosedgeClk(pins.ctl.FClrN, pins.ctl.FInN, pins.ctl.FOutN, pins.Data_In)
  BY <1>1, SamePosedgeClk
<1>7. observed' # Null
  <2>1. /\ F_EmptyN' \in Bit /\ F_FirstN' \in Bit /\ F_SLastN' \in Bit
        /\ F_LastN' \in Bit /\ F_FullN' \in Bit
    <3>1. CheckProofs!Registers(RstN = 0 \/ pins.ctl.FClrN = 0, pins.ctl.FInN, pins.ctl.FOutN)
      BY <1>6 DEF CheckProofs!PosedgeClk
    <3> QED
      BY <1>5, <3>1, RtlAssumption, SameTests, CheckProofs!RegistersTyped DEF Bit, CheckProofs!Bit
  <2>2. FIFO' \in [memblk!Addresses -> memblk!Word]
    <3>1. CheckProofs!memblk!MemTypeOK /\ CheckProofs!memblk!MemPosedge(pins.ctl.FInN, wr_ptr, pins.Data_In)
      BY <1>6 DEF CheckProofs!PosedgeClk, CheckProofs!TypeOK
    <3>2. CheckProofs!memblk!MemTypeOK'
      BY <1>5, <3>1, RtlAssumption, SameTests, CheckProofs!MemoryTyped
    <3> QED
      BY <3>2 DEF CheckProofs!memblk!MemTypeOK, CheckProofs!memblk!Addresses,
                  CheckProofs!memblk!Word, memblk!Addresses, memblk!Word
  <2>3. F_Data' \in memblk!Word /\ flags' \in Bit \X Bit \X Bit \X Bit \X Bit
    BY <2>1, <2>2 DEF F_Data, memblk!data_out, memblk!Word, memblk!Addresses, flags
  <2>4. RstN' \in Bit
    BY <1>1, CheckTypes
  <2>5. observed' \in Observation
    BY <1>1, <1>5, <2>3, <2>4
    DEF observed, Observation, AnyRequest, Request, Controls, Bit, memblk!Word
  <2> QED
    BY <2>5, BenchAssumption
<1>8. unchecked' = observed'
  <2>1. incoming' = <<observed'>>
    BY <1>1, <1>3, ShortSequences DEF incoming
  <2> QED
    BY <2>1, ShortSequences DEF unchecked
<1>9. model_q_after' = CheckProofs!model!NextQ(model_q_after, RstN, pins.ctl.FClrN,
                         pins.ctl.FInN, pins.ctl.FOutN, pins.Data_In)
  <2>1. model_q_after' = QueueAfter(observed)'
    BY <1>7, <1>8 DEF model_q_after, QueueAfter, lockstep!model!NextQ
  <2>2. QueueAfter(observed)' = lockstep!model!NextQ(model_q, RstN, pins.ctl.FClrN,
                         pins.ctl.FInN, pins.ctl.FOutN, pins.Data_In)
    BY <1>1 DEF QueueAfter, observed
  <2> QED
    BY <1>4, <2>1, <2>2
    DEF lockstep!model!NextQ, lockstep!model!Pushed, lockstep!model!Popped,
        lockstep!model!Replaced, CheckProofs!model!NextQ, CheckProofs!model!Pushed,
        CheckProofs!model!Popped, CheckProofs!model!Replaced
<1>10. matched_after' = CheckProofs!compare(flags', F_Data', model_q_after')
  <2>1. model_q_after' = QueueAfter(observed)' /\ matched_after' = VerdictOn(observed)'
    BY <1>7, <1>8 DEF model_q_after, matched_after, QueueAfter, VerdictOn,
                      lockstep!model!NextQ, lockstep!compare
  <2>2. VerdictOn(observed)' = lockstep!compare(flags', F_Data', QueueAfter(observed)')
    BY DEF VerdictOn, observed
  <2> QED
    BY <2>1, <2>2
    DEF lockstep!compare, lockstep!model!Expected, lockstep!model!ActiveLow,
        lockstep!model!data_valid, CheckProofs!compare, CheckProofs!model!Expected,
        CheckProofs!model!ActiveLow, CheckProofs!model!data_valid
<1>11. flags' = CheckProofs!flags' /\ F_Data' = CheckProofs!F_Data'
  BY DEF flags, F_Data, memblk!data_out, memblk!Addresses, CheckProofs!flags,
         CheckProofs!F_Data, CheckProofs!memblk!data_out, CheckProofs!memblk!Addresses
<1>12. lockstep!KindsOf(pins.ctl.FInN, pins.ctl.FOutN)
         = CheckProofs!KindsOf(pins.ctl.FInN, pins.ctl.FOutN)
  BY <1>4 DEF lockstep!KindsOf, lockstep!Stores, lockstep!Empty, lockstep!Full, lockstep!Kinds,
              CheckProofs!KindsOf, CheckProofs!Stores, CheckProofs!Empty, CheckProofs!Full,
              CheckProofs!Kinds
<1>13. CheckProofs!Cycle(pins.ctl.FClrN, pins.ctl.FInN, pins.ctl.FOutN, pins.Data_In)
  BY <1>1, <1>6, <1>9, <1>10, <1>11, <1>12
  DEF CheckProofs!Cycle, CheckProofs!model!Predict
<1>14. check_count_after' = check_count_after + 1
  BY <1>1, <1>4, <1>7, <1>8 DEF check_count_after
<1>15. error_count_after' = IF matched_after' THEN error_count_after ELSE error_count_after + 1
  BY <1>1, <1>4, <1>7, <1>8 DEF error_count_after, matched_after
<1>16. RstN = 1 /\ check_count < Len(sent) /\ pins = sent[check_count + 1]
  BY <1>1, <1>3, RequestOnPins
<1> QED
  BY <1>1, <1>4, <1>13, <1>14, <1>15, <1>16, SameScript DEF CheckProofs!CheckRequest

(* At any other edge the FIFO is idle and neither side changes. *)
LEMMA IdleEdge ==
  ASSUME BenchInv, Edge, mon # "clock"
  PROVE  UNCHANGED CheckProofs!serialVars
<1>1. /\ Quiet /\ phase = "rest"
      /\ mon' = IF mon = "clock0" THEN "count" ELSE IF mon = "clock" THEN "sample" ELSE mon
      /\ Registers(RstN = 0 \/ pins.ctl.FClrN = 0, pins.ctl.FInN, pins.ctl.FOutN)
      /\ memblk!MemPosedge(pins.ctl.FInN, wr_ptr, pins.Data_In)
      /\ RstN' = RstN
      /\ seen' = IF RstN = 0 \/ pins.ctl.FClrN = 0 THEN {}
                 ELSE seen \union lockstep!KindsOf(pins.ctl.FInN, pins.ctl.FOutN)
      /\ UNCHANGED <<model_q, matched, check_count, error_count, mon2scb_mbx, test>>
  BY DEF Edge, PosedgeClk, scbVars, mailboxes, topVars
<1>2. StageInv /\ top # "fatal"
  BY <1>1 DEF BenchInv, Quiet
<1>3. pins = IdlePins /\ mon # "sample" /\ mon2scb_mbx = <<>>
  <2>1. CASE top \in {"reset", "delay"}
    BY <2>1 DEF BenchInv, NotStarted
  <2>2. CASE top \in {"wait", "finish"}
    <3>1. mon = "clock0" /\ mon2scb_mbx = <<>>
      BY <1>1, <2>2, QuietFacts
    <3>2. edges = 0
      BY <3>1 DEF edges
    <3> QED
      BY <1>1, <2>2, <3>1, <3>2 DEF BenchInv, PinsInv
  <2> QED
    BY <1>2, <2>1, <2>2 DEF StageInv
<1>4. pins.ctl.FClrN = 1 /\ pins.ctl.FInN = 1 /\ pins.ctl.FOutN = 1
  BY <1>3 DEF IdlePins, Request, Controls
<1>5. UNCHANGED <<pointers, flags>>
  <2>1. Registers(RstN = 0, 1, 1)
    BY <1>1, <1>4
  <2>2. RstN = 0 => <<fcounter, rd_ptr, wr_ptr>> = <<0, 0, 0>> /\ flags = <<0, 1, 1, 1, 1>>
    BY <1>2 DEF StageInv
  <2> QED
    BY <2>1, <2>2, IdleCycle
<1>6. FIFO' = FIFO
  BY <1>1, <1>4 DEF memblk!MemPosedge
<1>7. seen' = seen
  <2>1. lockstep!KindsOf(1, 1) = {}
    BY DEF lockstep!KindsOf, lockstep!Stores
  <2> QED
    BY <1>1, <1>2, <1>4, <2>1 DEF StageInv
<1>8. UNCHANGED rtlVars
  BY <1>1, <1>5, <1>6 DEF rtlVars, pointers, flags
<1>9. mon' # "sample"
  BY <1>1, <1>3
<1>10. UNCHANGED <<model_q_after, matched_after, check_count_after, error_count_after>>
  BY <1>1, <1>3, <1>9, UncheckedKept, AfterKept
<1> QED
  BY <1>1, <1>7, <1>8, <1>10, SerialStutters

(* The steps of the processes only move an observation from one place to    *)
(* the next, or check the one that counts as checked already.               *)
LEMMA SerialStepHolds ==
  ASSUME BenchInv, CheckProofs!TypeOK, [BenchNext]_benchVars
  PROVE  [CheckProofs!SerialNext]_CheckProofs!serialVars
<1> USE DEF dutVars, topVars, genVars, drvVars, monVars, scbVars, mailboxes
<1>1. ASSUME UNCHANGED <<rtlVars, pins, seen, test, model_q, matched, check_count, error_count,
                         mon2scb_mbx>>,
             mon = "sample" <=> mon' = "sample"
      PROVE  UNCHANGED CheckProofs!serialVars
  BY <1>1, UncheckedKept, AfterKept, SerialStutters
<1>2. CASE GenPut
  BY <1>1, <1>2 DEF GenPut
<1>3. CASE GenCount
  BY <1>1, <1>3 DEF GenCount
<1>4. CASE DrvInitial
  BY <1>1, <1>4 DEF DrvInitial
<1>5. CASE DrvGet
  BY <1>1, <1>5 DEF DrvGet
<1>6. CASE DrvDrive
  BY <1>1, <1>6 DEF DrvDrive
<1>7. CASE MonGetCount
  <2>1. /\ mon = "count" /\ mon' \in {"clock", "end"}
        /\ UNCHANGED <<rtlVars, pins, seen, test, model_q, matched, check_count,
                        error_count, mon2scb_mbx>>
    BY <1>7 DEF MonGetCount
  <2> QED
    BY <1>1, <2>1
<1>8. CASE MonSample
  <2>1. /\ mon = "sample" /\ mon' \in {"clock", "end"}
        /\ mon2scb_mbx' = Append(mon2scb_mbx, observed)
        /\ UNCHANGED <<rtlVars, pins, seen, test, model_q, matched, check_count, error_count>>
    BY <1>8 DEF MonSample
  <2>2. incoming' = incoming
    BY <2>1 DEF incoming
  <2>3. unchecked' = unchecked
    BY <2>2 DEF unchecked
  <2> QED
    BY <2>1, <2>3, AfterKept, SerialStutters
<1>9. CASE MonEnd
  <2>1. /\ mon = "end" /\ mon' = "done" /\ mon2scb_mbx' = Append(mon2scb_mbx, Null)
        /\ UNCHANGED <<rtlVars, pins, seen, test, model_q, matched, check_count, error_count>>
    BY <1>9 DEF MonEnd
  <2>2. mon2scb_mbx = <<>> \/ mon2scb_mbx = <<observed>>
    BY <2>1, Running DEF ScbInv
  <2>3. unchecked' = unchecked
    <3>1. incoming = mon2scb_mbx /\ incoming' = mon2scb_mbx'
      BY <2>1 DEF incoming
    <3>2. CASE mon2scb_mbx = <<>>
      BY <2>1, <3>1, <3>2, ShortSequences DEF unchecked
    <3>3. CASE mon2scb_mbx = <<observed>>
      BY <2>1, <3>1, <3>3, ShortSequences DEF unchecked
    <3> QED
      BY <2>2, <3>2, <3>3
  <2> QED
    BY <2>1, <2>3, AfterKept, SerialStutters
<1>10. CASE ScbCheck
  <2>1. /\ scb = "get" /\ mon2scb_mbx # <<>> /\ Head(mon2scb_mbx) # Null
        /\ mon2scb_mbx' = Tail(mon2scb_mbx) /\ mon' = mon
        /\ model_q' = QueueAfter(Head(mon2scb_mbx)) /\ matched' = VerdictOn(Head(mon2scb_mbx))
        /\ check_count' = check_count + 1
        /\ error_count' = IF matched' THEN error_count ELSE error_count + 1
        /\ UNCHANGED <<rtlVars, seen, test>>
    BY <1>10 DEF ScbCheck
  <2>2. ScbInv
    BY <2>1, Running
  <2>3. mon # "sample" /\ (mon2scb_mbx' = <<>> \/ mon2scb_mbx' = <<Null>>)
    <3>1. mon2scb_mbx # <<Null>>
      BY <2>1, ShortSequences
    <3>2. mon # "sample" /\ (mon2scb_mbx = <<observed>> \/ mon2scb_mbx = <<observed, Null>>)
      BY <2>1, <2>2, <3>1 DEF ScbInv
    <3>3. CASE mon2scb_mbx = <<observed>>
      BY <2>1, <3>2, <3>3, ShortSequences
    <3>4. CASE mon2scb_mbx = <<observed, Null>>
      BY <2>1, <3>2, <3>4, ShortSequences
    <3> QED
      BY <3>2, <3>3, <3>4
  <2>4. /\ model_q_after = model_q' /\ matched_after = matched'
        /\ check_count_after = check_count' /\ error_count_after = error_count'
    <3>1. unchecked = Head(mon2scb_mbx)
      BY <2>1, <2>3 DEF unchecked, incoming
    <3> QED
      BY <2>1, <3>1 DEF model_q_after, matched_after, check_count_after, error_count_after
  <2>5. incoming' = mon2scb_mbx'
    BY <2>1, <2>3 DEF incoming
  <2>6. unchecked' = Null
    BY <2>3, <2>5, ShortSequences DEF unchecked
  <2>7. /\ model_q_after' = model_q' /\ matched_after' = matched'
        /\ check_count_after' = check_count' /\ error_count_after' = error_count'
    BY <2>6 DEF model_q_after, matched_after, check_count_after, error_count_after
  <2> QED
    BY <2>1, <2>4, <2>7, SerialStutters
<1>11. CASE ScbComplete
  <2>1. /\ scb = "get" /\ mon2scb_mbx # <<>> /\ Head(mon2scb_mbx) = Null
        /\ mon2scb_mbx' = Tail(mon2scb_mbx) /\ mon' = mon
        /\ UNCHANGED <<rtlVars, seen, test, model_q, matched, check_count, error_count>>
    BY <1>11 DEF ScbComplete
  <2>2. mon2scb_mbx # <<observed>> /\ mon2scb_mbx # <<observed, Null>>
    BY <2>1, ObservedTyped, ShortSequences
  <2>3. mon = "done" /\ mon2scb_mbx = <<Null>>
    BY <2>1, <2>2, Running DEF ScbInv
  <2>4. mon2scb_mbx' = <<>>
    BY <2>1, <2>3, ShortSequences
  <2>5. unchecked = Null
    BY <2>1, <2>3 DEF unchecked, incoming
  <2>6. unchecked' = Null
    BY <2>1, <2>3, <2>4 DEF unchecked, incoming
  <2> QED
    BY <2>1, <2>5, <2>6, AfterKept, SerialStutters
<1>12. CASE ReleaseReset
  <2>1. /\ top = "reset" /\ RstN = 0 /\ RstN' = 1 /\ UNCHANGED <<pointers, flags, FIFO>>
        /\ UNCHANGED <<pins, seen, test, mon, model_q, matched, check_count, error_count,
                       mon2scb_mbx>>
    BY <1>12 DEF ReleaseReset, PosedgeRstN
  <2>2. mon # "sample"
    BY <2>1 DEF BenchInv, NotStarted
  <2>3. UNCHANGED <<model_q_after, matched_after, check_count_after, error_count_after>>
    BY <2>1, <2>2, UncheckedKept, AfterKept
  <2>4. CheckProofs!ReleaseReset
    BY <2>1, <2>3 DEF CheckProofs!ReleaseReset, CheckProofs!PosedgeRstN, pointers, flags,
                      CheckProofs!pointers, CheckProofs!flags
  <2> QED
    BY <2>1, <2>3, <2>4 DEF CheckProofs!SerialNext, CheckProofs!StartTest
<1>13. CASE NullTest
  BY <1>1, <1>13 DEF NullTest
<1>14. CASE StartTest
  <2>1. /\ top = "delay" /\ mon' = "clock0"
        /\ UNCHANGED <<rtlVars, pins, seen, test, model_q, matched, check_count,
                        error_count, mon2scb_mbx>>
    BY <1>14 DEF StartTest
  <2>2. mon = "off"
    BY <2>1 DEF BenchInv, NotStarted
  <2> QED
    BY <1>1, <2>1, <2>2
<1>15. CASE Finish
  BY <1>1, <1>15 DEF Finish
<1>16. CASE Edge
  <2>1. CASE mon = "clock"
    BY <1>16, <2>1, SampledEdge DEF CheckProofs!SerialNext
  <2>2. CASE mon # "clock"
    BY <1>16, <2>2, IdleEdge
  <2> QED
    BY <2>1, <2>2
<1>17. CASE SkewElapsed
  <2>1. /\ Quiet /\ UNCHANGED <<rtlVars, seen, test, mon, model_q, matched, check_count,
                                  error_count, mon2scb_mbx>>
    BY <1>17 DEF SkewElapsed
  <2>2. mon # "sample"
    BY <2>1 DEF Quiet
  <2> QED
    BY <2>1, <2>2, UncheckedKept, AfterKept, SerialStutters
<1>18. CASE UNCHANGED benchVars
  BY <1>1, <1>18 DEF benchVars
<1> QED
  BY <1>2, <1>3, <1>4, <1>5, <1>6, <1>7, <1>8, <1>9, <1>10, <1>11, <1>12, <1>13, <1>14,
     <1>15, <1>16, <1>17, <1>18 DEF BenchNext

-----------------------------------------------------------------------------
(* The inductive invariant *)

LEMMA BenchInvInit == BenchInit => BenchInv
<1> SUFFICES ASSUME BenchInit PROVE BenchInv
  OBVIOUS
<1>1. StageInv
  BY DEF BenchInit, RtlInit, StageInv, flags
<1>2. CountsInv
  BY RtlAssumption, EmptySeq DEF BenchInit, CountsInv
<1>3. top = "reset" /\ NotStarted
  BY DEF BenchInit, NotStarted
<1> QED
  BY <1>1, <1>2, <1>3 DEF BenchInv

LEMMA BenchInvStutters == ASSUME BenchInv, UNCHANGED benchVars PROVE BenchInv'
<1> USE DEF dutVars, topVars, genVars, drvVars, monVars, scbVars, mailboxes
<1>1. UNCHANGED <<rtlVars, phase, pins, seen, top, test, gen, gen_q, drv, drv_tx, scheduled,
                  mon, mon_left, scb, model_q, matched, check_count, pass_count, error_count,
                  gen2drv_mbx, mon2scb_mbx, count_mbx>>
  BY DEF benchVars
<1>2. StageInv' /\ CountsInv'
  BY <1>1, StageKept, CountsKept DEF BenchInv
<1>3. CASE top \in {"reset", "delay", "fatal"}
  <2>1. NotStarted'
    BY <1>1, <1>3 DEF BenchInv, NotStarted, IdlePins, Request, Controls
  <2> QED
    BY <1>1, <1>2, <1>3, <2>1 DEF BenchInv
<1>4. CASE top \in {"wait", "finish"}
  <2>1. GenInv /\ DrvInv /\ PinsInv /\ MonInv /\ ScbInv
    BY <1>4 DEF BenchInv
  <2>2. put' = put /\ edges' = edges
    BY <1>1, SentKept DEF put, edges, sampled
  <2>3. GenInv' /\ DrvInv' /\ PinsInv' /\ MonInv' /\ ScbInv'
    BY <1>1, <2>1, <2>2, GenKept, DrvKept, PinsKept, MonKept, ScbKept DEF GenInv
  <2> QED
    BY <1>1, <1>2, <1>4, <2>3 DEF BenchInv
<1> QED
  BY <1>3, <1>4 DEF BenchInv, StageInv

LEMMA BenchInvNext ==
  BenchInv /\ CheckProofs!TypeOK /\ [BenchNext]_benchVars => BenchInv'
BY GenPutStep, GenCountStep, DrvInitialStep, DrvGetStep, DrvDriveStep, MonGetCountStep,
   MonSampleStep, MonEndStep, ScbCheckStep, ScbCompleteStep, ReleaseResetStep, NullTestStep,
   StartTestStep, FinishStep, EdgeStep, SkewElapsedStep, BenchInvStutters
DEF BenchNext

(* What FifoSerial says of the scoreboard that has checked what is unchecked *)
AfterInv == CheckProofs!TypeOK /\ CheckProofs!SerialInv

LEMMA AfterInvInit == BenchInit => AfterInv
<1> SUFFICES ASSUME BenchInit PROVE AfterInv
  OBVIOUS
<1>1. CheckProofs!SerialInit
  BY SerialInitHolds
<1>2. CheckProofs!TypeOK
  BY <1>1, RtlAssumption, SameTests, CheckProofs!InitTyped DEF CheckProofs!SerialInit
<1>3. CheckProofs!SerialInv
  BY <1>1, RtlAssumption, SameTests, CheckProofs!SerialInvInit
<1> QED
  BY <1>2, <1>3 DEF AfterInv

LEMMA CheckStepHolds ==
  ASSUME BenchInv, AfterInv, [BenchNext]_benchVars
  PROVE  [CheckProofs!CheckNext]_CheckProofs!vars
BY SerialStepHolds, RtlAssumption, SameTests, CheckProofs!SerialStepIsCheckStep DEF AfterInv

LEMMA AfterInvNext == ASSUME BenchInv, AfterInv, [BenchNext]_benchVars PROVE AfterInv'
<1>1. CheckProofs!TypeOK'
  BY CheckStepHolds, RtlAssumption, SameTests, CheckProofs!NextTyped DEF AfterInv
<1>2. CheckProofs!SerialInv'
  BY SerialStepHolds, RtlAssumption, SameTests, CheckProofs!SerialInvStep DEF AfterInv
<1> QED
  BY <1>1, <1>2 DEF AfterInv

(* In every reachable state the processes are where BenchInv says, and the  *)
(* FIFO and the scoreboard that has checked what is unchecked have their    *)
(* types in FifoSerial.                                                     *)
THEOREM BenchInvariant == BenchSpec => [](BenchInv /\ AfterInv)
<1>1. BenchInit => BenchInv /\ AfterInv
  BY BenchInvInit, AfterInvInit
<1>2. BenchInv /\ AfterInv /\ [BenchNext]_benchVars => BenchInv' /\ AfterInv'
  BY BenchInvNext, AfterInvNext DEF AfterInv
<1> QED
  BY <1>1, <1>2, PTL DEF BenchSpec

-----------------------------------------------------------------------------
(* The properties of FifoBench *)

(* What is handed over next, place by place. *)
LEMMA IncomingCases ==
  ASSUME BenchInv
  PROVE  \/ incoming = <<>>
         \/ incoming = <<Null>>
         \/ /\ incoming = <<observed>> \/ incoming = <<observed, Null>>
            /\ top \in {"wait", "finish"}
            /\ check_count + 1 <= Len(sent)
            /\ observed.request = sent[check_count + 1] /\ observed.Rst_N = 1
<1>1. CASE top \in {"reset", "delay", "fatal"}
  BY <1>1 DEF BenchInv, NotStarted, incoming
<1>2. CASE top \in {"wait", "finish"}
  <2>1. StageInv /\ CountsInv /\ GenInv /\ DrvInv /\ PinsInv /\ MonInv /\ ScbInv
    BY <1>2 DEF BenchInv
  <2>2. /\ Len(sent) \in Nat /\ sampled \in 0 .. Len(sent) /\ check_count \in Nat
        /\ mon_left \in 0 .. Len(sent)
    BY <2>1, SentIsSeq, CountsAreInts DEF CountsInv, MonInv
  <2>3. CASE mon = "sample"
    <3>1. incoming = <<observed>> /\ check_count = sampled
      BY <2>1, <2>3, ShortSequences DEF ScbInv, incoming
    <3>2. phase = "edge" /\ mon_left > 0
      BY <2>1, <2>3 DEF MonInv, StageInv
    <3>3. sampled = Len(sent) - mon_left /\ edges = sampled + 2
      BY <2>3 DEF sampled, edges
    <3>4. pins = sent[check_count + 1] /\ check_count + 1 <= Len(sent)
      BY <2>1, <2>2, <3>1, <3>2, <3>3 DEF PinsInv
    <3> QED
      BY <1>2, <2>1, <3>1, <3>4 DEF observed, StageInv
  <2>4. CASE mon # "sample" /\ mon2scb_mbx # <<>> /\ mon2scb_mbx # <<Null>>
    <3>1. /\ incoming = <<observed>> \/ incoming = <<observed, Null>>
          /\ check_count = sampled - 1 /\ mon \in {"clock", "end", "done"}
      BY <2>1, <2>4 DEF ScbInv, incoming
    <3>2. phase = "edge"
      BY <2>1, <2>4, <3>1 DEF ScbInv, MonInv, StageInv
    <3>3. edges = sampled + 1
      BY <3>1 DEF edges
    <3>4. pins = sent[check_count + 1] /\ check_count + 1 <= Len(sent)
      BY <2>1, <2>2, <3>1, <3>2, <3>3 DEF PinsInv
    <3> QED
      BY <1>2, <2>1, <3>1, <3>4 DEF observed, StageInv
  <2> QED
    BY <2>3, <2>4 DEF incoming
<1> QED
  BY <1>1, <1>2 DEF BenchInv, StageInv

(* For every test and every order of the processes, the scoreboard is given *)
(* the requests that the generator sent, each once and in order.            *)
THEOREM MonitorSees == BenchSpec => []MonitorSeesWhatIsSent
<1>1. BenchInv => MonitorSeesWhatIsSent
  <2> SUFFICES ASSUME BenchInv, NEW i \in 1 .. Len(incoming), incoming[i] # Null
               PROVE  /\ check_count + i <= Len(sent)
                      /\ incoming[i].request = sent[check_count + i]
                      /\ incoming[i].Rst_N = 1
    BY DEF MonitorSeesWhatIsSent
  <2>1. i = 1 /\ (incoming = <<observed>> \/ incoming = <<observed, Null>>)
    <3>1. CASE incoming = <<>>
      BY <3>1, EmptySeq
    <3>2. CASE incoming = <<Null>>
      BY <3>2
    <3>3. CASE incoming = <<observed>>
      BY <3>3
    <3>4. CASE incoming = <<observed, Null>>
      <4>1. Len(incoming) = 2 /\ incoming[2] = Null
        BY <3>4
      <4> QED
        BY <3>4, <4>1
    <3> QED
      BY <3>1, <3>2, <3>3, <3>4, IncomingCases
  <2>2. incoming[1] = observed
    BY <2>1
  <2>3. incoming # <<>> /\ incoming # <<Null>>
    <3>1. incoming # <<>>
      BY <2>1, ShortSequences
    <3>2. incoming # <<Null>>
      BY <2>1, <2>2
    <3> QED
      BY <3>1, <3>2
  <2> QED
    BY <2>1, <2>2, <2>3, IncomingCases
<1> QED
  BY <1>1, BenchInvariant, PTL

(* At the end the processes have handled every request of the test.         *)
LEMMA EndOfTest ==
  ASSUME BenchInv, top = "finish"
  PROVE  SummaryComplete /\ gen = "done" /\ drv = "get" /\ mon = "done" /\ phase = "edge"
<1>1. StageInv /\ CountsInv /\ GenInv /\ DrvInv /\ PinsInv /\ MonInv /\ ScbInv
  BY DEF BenchInv
<1>2. scb = "completed" /\ mon = "done" /\ mon2scb_mbx = <<>> /\ check_count = sampled
  BY <1>1 DEF StageInv, ScbInv
<1>3. Len(sent) \in Nat /\ mon_left = 0
  BY <1>1, <1>2, SentIsSeq DEF MonInv
<1>4. sampled = Len(sent) /\ edges = Len(sent) + 1
  BY <1>2, <1>3 DEF sampled, edges
<1>5. gen = "done" /\ gen_q = <<>> /\ count_mbx = <<>>
  BY <1>1, <1>2 DEF GenInv
<1>6. gen2drv_mbx = <<>>
  <2>1. Len(gen_q) = 0
    BY <1>5, EmptySeq
  <2>2. put = Len(sent)
    BY <1>3, <2>1 DEF put
  <2>3. Len(gen2drv_mbx) \in Nat /\ gen2drv_mbx \in Seq(AnyRequest)
    BY <1>1, LenProperties DEF DrvInv
  <2>4. driven >= Len(sent)
    BY <1>1, <1>3, <1>4, CountsAreInts DEF DrvInv
  <2>5. gotten >= Len(sent)
    BY <1>1, <1>3, <2>4, CountsAreInts
  <2>6. Len(gen2drv_mbx) = 0
    BY <1>3, <2>2, <2>3, <2>5 DEF gotten
  <2> QED
    BY <2>3, <2>6, EmptySeq
<1>7. drv = "get"
  <2>1. gotten = Len(sent)
    BY <1>3, <1>5, <1>6, EmptySeq DEF gotten, put
  <2>2. drv # "drive"
    BY <1>1, <1>3, <1>4, <2>1 DEF DrvInv, driven
  <2> QED
    BY <1>1, <1>2, <1>3, <1>4, <2>1, <2>2 DEF DrvInv, driven
<1>8. phase = "edge"
  BY <1>1, <1>2 DEF StageInv, MonInv
<1> QED
  BY <1>1, <1>2, <1>4, <1>5, <1>6, <1>7, <1>8 DEF SummaryComplete, CountsInv

(* When the summary is printed nothing is left to check, for every test.    *)
THEOREM SummaryIsComplete == BenchSpec => []SummaryComplete
<1>1. BenchInv => SummaryComplete
  BY EndOfTest DEF SummaryComplete
<1> QED
  BY <1>1, BenchInvariant, PTL

(* The types of the processes and the mailboxes, for every test.            *)
THEOREM BenchTyping == BenchSpec => []BenchTypeOK
<1>1. BenchInv /\ AfterInv => BenchTypeOK
  <2> SUFFICES ASSUME BenchInv, CheckProofs!TypeOK PROVE BenchTypeOK
    BY DEF AfterInv
  <2>1. StageInv /\ CountsInv /\ Len(sent) \in Nat
    BY SentIsSeq DEF BenchInv
  <2>2. lockstep!TypeOK
    <3>1. lockstep!memblk!MemTypeOK /\ lockstep!model!ModelTypeOK
      BY <2>1 DEF CheckProofs!TypeOK, CheckProofs!memblk!MemTypeOK,
         CheckProofs!memblk!Addresses, CheckProofs!memblk!Word, lockstep!memblk!MemTypeOK,
         lockstep!memblk!Addresses, lockstep!memblk!Word, lockstep!model!ModelTypeOK, CountsInv
    <3> QED
      BY <2>1, <3>1
      DEF CheckProofs!TypeOK, CheckProofs!Bit, CheckProofs!Count, CheckProofs!Kinds,
          lockstep!TypeOK, lockstep!Bit, lockstep!Count, lockstep!Kinds, CountsInv
  <2>3. observed \in Observation
    BY ObservedTyped
  <2>4. pins \in AnyRequest \union {IdlePins}
    BY PinsTyped
  <2>5. /\ drv_tx \in AnyRequest \union {IdlePins}
        /\ scheduled = <<>> \/ \E r \in AnyRequest \union {IdlePins} : scheduled = <<r>>
    BY <2>1 DEF BenchInv, NotStarted, PinsInv, StageInv
  <2>6. /\ gen \in {"off", "put", "done"}
        /\ drv \in {"off", "initial", "get", "clock", "drive"}
        /\ mon \in {"off", "clock0", "count", "clock", "sample", "end", "done"}
        /\ scb \in {"off", "get", "completed"}
    BY <2>1 DEF BenchInv, NotStarted, StageInv, GenInv, DrvInv, MonInv, ScbInv
  <2>7. /\ gen_q \in Seq(AnyRequest) /\ gen2drv_mbx \in Seq(AnyRequest)
        /\ count_mbx \in {<<>>, <<Len(sent)>>}
        /\ mon_left \in 0 .. Len(sent)
    <3>1. CASE NotStarted
      BY <2>1, <3>1, EmptySeq DEF NotStarted
    <3>2. CASE GenInv /\ DrvInv /\ MonInv
      <4>1. count_mbx \in {<<>>, <<Len(sent)>>}
        BY <3>2 DEF GenInv
      <4> QED
        BY <3>2, <4>1 DEF GenInv, DrvInv, MonInv
    <3> QED
      BY <2>1, <3>1, <3>2 DEF BenchInv, StageInv
  <2>8. mon2scb_mbx \in Seq(Observation \union {Null}) /\ Len(mon2scb_mbx) <= 2
    <3>1. mon2scb_mbx \in {<<>>, <<Null>>, <<observed>>, <<observed, Null>>}
      BY <2>1 DEF BenchInv, NotStarted, StageInv, ScbInv
    <3>2. ASSUME NEW x \in Observation \union {Null}, NEW y \in Observation \union {Null}
          PROVE  /\ <<>> \in Seq(Observation \union {Null}) /\ Len(<<>>) <= 2
                 /\ <<x>> \in Seq(Observation \union {Null}) /\ Len(<<x>>) <= 2
                 /\ <<x, y>> \in Seq(Observation \union {Null}) /\ Len(<<x, y>>) <= 2
      BY EmptySeq
    <3> QED
      BY <2>3, <3>1, <3>2
  <2>9. {check_count, pass_count, error_count} \subseteq 0 .. Len(sent)
    <3>1. check_count \in 0 .. Len(sent)
      <4>1. CASE top \in {"reset", "delay", "fatal"}
        BY <2>1, <4>1 DEF BenchInv, NotStarted
      <4>2. CASE top \in {"wait", "finish"}
        <5>1. GenInv /\ DrvInv /\ MonInv /\ ScbInv
          BY <4>2 DEF BenchInv
        <5>2. sampled \in 0 .. Len(sent)
          BY <5>1, CountsAreInts
        <5>3. check_count \in Nat /\ check_count <= sampled
          BY <2>1, <5>1, <5>2 DEF ScbInv, CountsInv
        <5> QED
          BY <2>1, <5>2, <5>3
      <4> QED
        BY <2>1, <4>1, <4>2 DEF StageInv
    <3> QED
      BY <2>1, <3>1 DEF CountsInv
  <2> QED
    BY <2>1, <2>2, <2>4, <2>5, <2>6, <2>7, <2>8, <2>9 DEF BenchTypeOK, StageInv
<1> QED
  BY <1>1, BenchInvariant, PTL

-----------------------------------------------------------------------------
(* The steps of a test *)

LEMMA LengthsAreNats ==
  ASSUME BenchInv, top \in {"wait", "finish"}
  PROVE  /\ StageInv /\ GenInv /\ DrvInv /\ MonInv /\ ScbInv
         /\ Len(sent) \in Nat /\ Len(gen_q) \in Nat /\ Len(gen2drv_mbx) \in Nat
         /\ Len(mon2scb_mbx) \in Nat /\ mon_left \in Nat
<1>1. StageInv /\ GenInv /\ DrvInv /\ MonInv /\ ScbInv
  BY DEF BenchInv
<1>2. Len(mon2scb_mbx) \in Nat
  BY <1>1 DEF ScbInv
<1>3. Len(sent) \in Nat /\ mon_left \in Nat
  BY <1>1, SentIsSeq DEF MonInv
<1>4. Len(gen_q) \in Nat /\ Len(gen2drv_mbx) \in Nat
  BY <1>1, LenProperties DEF GenInv, DrvInv
<1> QED
  BY <1>1, <1>2, <1>3, <1>4

(* Something is left as long as the test runs, and then nothing. *)
LEMMA StepsAreLeft ==
  ASSUME BenchInv, top \in {"wait", "finish"}
  PROVE  steps_left \in Nat /\ (top = "finish" <=> steps_left = 0)
<1>1. CASE top = "wait"
  <2>1. /\ samples_left \in Nat /\ edges_left \in Nat
        /\ phase = "rest" => edges_left >= 1
    <3>1. samples_left \in Nat /\ (mon = "sample" => samples_left >= 1)
      BY LengthsAreNats DEF samples_left, MonInv
    <3>2. phase = "rest" => mon = "clock0" \/ (mon = "clock" /\ samples_left >= 1)
      BY LengthsAreNats DEF samples_left, MonInv
    <3> QED
      BY <3>1, <3>2 DEF edges_left, OneIf
  <2>2. clock_steps_left \in Nat
    BY <2>1, LengthsAreNats DEF clock_steps_left, OneIf, StageInv
  <2>3. /\ gen_steps_left \in Nat /\ drv_steps_left \in Nat
        /\ mon_steps_left \in Nat /\ scb_steps_left \in Nat
    BY <2>1, LengthsAreNats
    DEF gen_steps_left, drv_steps_left, mon_steps_left, scb_steps_left, OneIf
  <2> QED
    BY <1>1, <2>2, <2>3 DEF steps_left, OneIf
<1>2. CASE top = "finish"
  <2>1. /\ gen = "done" /\ drv = "get" /\ mon = "done" /\ phase = "edge" /\ mon_left = 0
        /\ Len(gen_q) = 0 /\ Len(gen2drv_mbx) = 0 /\ Len(mon2scb_mbx) = 0
    BY <1>2, EndOfTest, LengthsAreNats, EmptySeq DEF SummaryComplete, MonInv
  <2> QED
    BY <1>2, <2>1
    DEF steps_left, clock_steps_left, gen_steps_left, drv_steps_left, mon_steps_left,
        scb_steps_left, edges_left, samples_left, OneIf
<1> QED
  BY <1>1, <1>2

LEMMA StartOfTest ==
  ASSUME BenchInv, StartTest
  PROVE  steps_left' = 7 * (Len(sent) + 1)
<1>1. /\ phase' = "rest" /\ top' = "wait" /\ gen' = "put" /\ gen_q' = sent
      /\ drv' = "initial" /\ mon' = "clock0" /\ test' = test
      /\ gen2drv_mbx' = <<>> /\ mon2scb_mbx' = <<>>
  BY DEF StartTest, BenchInv, NotStarted, mailboxes, dutVars
<1>2. sent' = sent /\ Len(sent) \in Nat /\ Len(gen2drv_mbx') = 0 /\ Len(mon2scb_mbx') = 0
  BY <1>1, SentKept, SentIsSeq, EmptySeq
<1> QED
  BY <1>1, <1>2
  DEF steps_left, clock_steps_left, gen_steps_left, drv_steps_left, mon_steps_left,
      scb_steps_left, edges_left, samples_left, OneIf

LEMMA StepsAreInts ==
  ASSUME BenchInv, top \in {"wait", "finish"}
  PROVE  /\ samples_left \in Int /\ edges_left \in Int /\ clock_steps_left \in Int
         /\ gen_steps_left \in Int /\ drv_steps_left \in Int
         /\ mon_steps_left \in Int /\ scb_steps_left \in Int
<1>1. samples_left \in Int
  BY LengthsAreNats DEF samples_left
<1>2. edges_left \in Int
  BY <1>1 DEF edges_left, OneIf
<1>3. clock_steps_left \in Int
  BY <1>2 DEF clock_steps_left, OneIf
<1> QED
  BY <1>1, <1>2, <1>3, LengthsAreNats
  DEF gen_steps_left, drv_steps_left, mon_steps_left, scb_steps_left, OneIf

(* Frames: what the counts depend on. *)
LEMMA StepsKept ==
  /\ UNCHANGED <<mon, mon_left, test>>
       => /\ samples_left' = samples_left /\ edges_left' = edges_left
          /\ mon_steps_left' = mon_steps_left
          /\ phase' = phase => clock_steps_left' = clock_steps_left
          /\ mon2scb_mbx' = mon2scb_mbx => scb_steps_left' = scb_steps_left
  /\ UNCHANGED <<gen, gen_q>> => gen_steps_left' = gen_steps_left
  /\ UNCHANGED <<gen_q, gen2drv_mbx, drv>> => drv_steps_left' = drv_steps_left
<1>1. UNCHANGED <<mon, mon_left, test>> => samples_left' = samples_left
  BY SentKept DEF samples_left
<1>2. UNCHANGED <<mon, mon_left, test>> => edges_left' = edges_left
  BY <1>1 DEF edges_left, OneIf
<1>3. UNCHANGED <<mon, mon_left, test, phase>> => clock_steps_left' = clock_steps_left
  BY <1>2 DEF clock_steps_left, OneIf
<1>4. UNCHANGED <<mon, mon_left, test>> => mon_steps_left' = mon_steps_left
  BY <1>1 DEF mon_steps_left, OneIf
<1>5. UNCHANGED <<mon, mon_left, test, mon2scb_mbx>> => scb_steps_left' = scb_steps_left
  BY <1>1 DEF scb_steps_left, OneIf
<1>6. UNCHANGED <<gen, gen_q>> => gen_steps_left' = gen_steps_left
  BY DEF gen_steps_left, OneIf
<1>7. UNCHANGED <<gen_q, gen2drv_mbx, drv>> => drv_steps_left' = drv_steps_left
  BY DEF drv_steps_left, OneIf
<1> QED
  BY <1>1, <1>2, <1>3, <1>4, <1>5, <1>6, <1>7

(* Every step of the running test is one of those that were left.           *)
LEMMA StepCounts ==
  ASSUME BenchInv, BenchNext, top = "wait"
  PROVE  steps_left' = steps_left - 1 /\ top' \in {"wait", "finish"}
<1>1. /\ StageInv /\ GenInv /\ DrvInv /\ MonInv /\ ScbInv
      /\ Len(sent) \in Nat /\ Len(gen_q) \in Nat /\ Len(gen2drv_mbx) \in Nat
      /\ Len(mon2scb_mbx) \in Nat /\ mon_left \in Nat
  BY LengthsAreNats
<1>2. test' = test /\ sent' = sent
  BY SentKept DEF BenchNext, GenPut, GenCount, DrvInitial, DrvGet, DrvDrive, MonGetCount,
                  MonSample, MonEnd, ScbCheck, ScbComplete, ReleaseReset, NullTest, StartTest,
                  Finish, Edge, SkewElapsed, topVars
<1>3. CASE GenPut
  <2>1. gen_q # <<>> /\ gen_q \in Seq(AnyRequest) /\ gen2drv_mbx \in Seq(AnyRequest)
    BY <1>1, <1>3 DEF GenPut, GenInv, DrvInv
  <2>2. Head(gen_q) \in AnyRequest /\ Len(Tail(gen_q)) = Len(gen_q) - 1
    BY <2>1, HeadAndTail
  <2>3. Len(gen_q') = Len(gen_q) - 1 /\ Len(gen2drv_mbx') = Len(gen2drv_mbx) + 1
    BY <1>3, <2>1, <2>2, AppendProperties DEF GenPut
  <2>4. UNCHANGED <<top, phase, gen, drv, mon, mon_left, mon2scb_mbx>>
    BY <1>3 DEF GenPut, dutVars, topVars, drvVars, monVars
  <2>5. gen_steps_left' = gen_steps_left - 1
    BY <1>1, <2>3, <2>4 DEF gen_steps_left, OneIf
  <2>6. drv_steps_left' = drv_steps_left
    BY <1>1, <2>3, <2>4 DEF drv_steps_left, OneIf
  <2> QED
    BY <1>2, <2>4, <2>5, <2>6, StepsKept, StepsAreInts DEF steps_left, OneIf
<1>4. CASE GenCount
  <2>1. gen = "put" /\ gen' = "done"
    BY <1>4 DEF GenCount
  <2>2. UNCHANGED <<top, phase, gen_q, gen2drv_mbx, drv, mon, mon_left, mon2scb_mbx>>
    BY <1>4 DEF GenCount, dutVars, topVars, drvVars, monVars
  <2>3. gen_steps_left' = gen_steps_left - 1
    BY <1>1, <2>1, <2>2 DEF gen_steps_left, OneIf
  <2> QED
    BY <1>2, <2>2, <2>3, StepsKept, StepsAreInts DEF steps_left, OneIf
<1>5. CASE DrvInitial \/ DrvGet \/ DrvDrive
  <2>1. UNCHANGED <<top, phase, gen, gen_q, mon, mon_left, mon2scb_mbx>>
    BY <1>5 DEF DrvInitial, DrvGet, DrvDrive, dutVars, topVars, genVars, monVars, mailboxes
  <2>2. \/ /\ drv \in {"initial", "drive"} /\ drv' = "get"
           /\ Len(gen2drv_mbx') = Len(gen2drv_mbx)
        \/ /\ drv = "get" /\ drv' = "clock"
           /\ Len(gen2drv_mbx') = Len(gen2drv_mbx) - 1
    BY <1>1, <1>5, HeadAndTail DEF DrvInitial, DrvGet, DrvDrive, DrvInv, mailboxes
  <2>3. drv_steps_left' = drv_steps_left - 1
    BY <1>1, <2>1, <2>2 DEF drv_steps_left, OneIf
  <2> QED
    BY <1>2, <2>1, <2>3, StepsKept, StepsAreInts DEF steps_left, OneIf
<1>6. CASE MonGetCount
  <2>1. /\ mon = "count" /\ mon_left' = Len(sent)
        /\ mon' = IF mon_left' > 0 THEN "clock" ELSE "end"
    BY <1>1, <1>6, ShortSequences DEF MonGetCount, GenInv
  <2>2. UNCHANGED <<top, phase, gen, gen_q, gen2drv_mbx, drv, mon2scb_mbx>>
    BY <1>6 DEF MonGetCount, dutVars, topVars, genVars, drvVars
  <2>3. samples_left' = samples_left /\ edges_left' = edges_left
    BY <1>2, <2>1 DEF samples_left, edges_left, OneIf
  <2>4. mon_steps_left' = mon_steps_left - 1
    <3>1. mon = "count" /\ mon' \in {"clock", "end"} /\ samples_left \in Int
      BY <2>1, StepsAreInts
    <3> QED
      BY <2>3, <3>1 DEF mon_steps_left, OneIf
  <2>5. scb_steps_left' = scb_steps_left
    BY <2>1, <2>2, <2>3 DEF scb_steps_left, OneIf
  <2>6. clock_steps_left' = clock_steps_left
    BY <2>2, <2>3 DEF clock_steps_left, OneIf
  <2> QED
    BY <2>2, <2>4, <2>5, <2>6, StepsKept, StepsAreInts DEF steps_left, OneIf
<1>7. CASE MonSample
  <2>1. /\ mon = "sample" /\ mon_left' = mon_left - 1
        /\ mon' = IF mon_left' > 0 THEN "clock" ELSE "end"
    BY <1>7 DEF MonSample
  <2>2. Len(mon2scb_mbx') = Len(mon2scb_mbx) + 1
    <3>1. mon2scb_mbx = <<>> /\ mon2scb_mbx' = <<observed>>
      BY <1>1, <1>7, <2>1, ShortSequences DEF MonSample, ScbInv
    <3> QED
      BY <3>1
  <2>3. UNCHANGED <<top, phase, gen, gen_q, gen2drv_mbx, drv>>
    BY <1>7 DEF MonSample, dutVars, topVars, genVars, drvVars
  <2>4. samples_left' = samples_left - 1
    BY <1>1, <2>1 DEF samples_left
  <2>5. edges_left' = edges_left
    BY <2>1, <2>4, StepsAreInts DEF edges_left, OneIf
  <2>6. mon_steps_left' = mon_steps_left - 1
    BY <2>1, <2>4, StepsAreInts DEF mon_steps_left, OneIf
  <2>7. scb_steps_left' = scb_steps_left
    <3>1. Len(mon2scb_mbx) \in Int /\ samples_left \in Int
      BY <1>1, StepsAreInts
    <3>2. OneIf(mon' # "done") = OneIf(mon # "done")
      BY <2>1 DEF OneIf
    <3> QED
      BY <2>2, <2>4, <3>1, <3>2 DEF scb_steps_left, OneIf
  <2>8. clock_steps_left' = clock_steps_left
    BY <2>3, <2>5 DEF clock_steps_left, OneIf
  <2> QED
    BY <2>3, <2>6, <2>7, <2>8, StepsKept, StepsAreInts DEF steps_left, OneIf
<1>8. CASE MonEnd
  <2>1. mon = "end" /\ mon' = "done"
    BY <1>8 DEF MonEnd
  <2>2. Len(mon2scb_mbx') = Len(mon2scb_mbx) + 1
    <3>1. CASE mon2scb_mbx = <<>>
      <4>1. mon2scb_mbx' = <<Null>>
        BY <1>8, <3>1, ShortSequences DEF MonEnd
      <4> QED
        BY <3>1, <4>1
    <3>2. CASE mon2scb_mbx = <<observed>>
      <4>1. mon2scb_mbx' = <<observed, Null>>
        BY <1>8, <3>2, ShortSequences DEF MonEnd
      <4> QED
        BY <3>2, <4>1
    <3> QED
      BY <1>1, <2>1, <3>1, <3>2 DEF ScbInv
  <2>3. UNCHANGED <<top, phase, gen, gen_q, gen2drv_mbx, drv, mon_left>>
    BY <1>8 DEF MonEnd, dutVars, topVars, genVars, drvVars
  <2>4. samples_left' = samples_left /\ edges_left' = edges_left
    BY <2>1, <2>3 DEF samples_left, edges_left, OneIf
  <2>5. mon_steps_left' = mon_steps_left - 1
    BY <2>1, <2>4, StepsAreInts DEF mon_steps_left, OneIf
  <2>6. scb_steps_left' = scb_steps_left
    <3>1. Len(mon2scb_mbx) \in Int /\ samples_left \in Int
      BY <1>1, StepsAreInts
    <3> QED
      BY <2>1, <2>2, <2>4, <3>1 DEF scb_steps_left, OneIf
  <2>7. clock_steps_left' = clock_steps_left
    BY <2>3, <2>4 DEF clock_steps_left, OneIf
  <2> QED
    BY <2>3, <2>5, <2>6, <2>7, StepsKept, StepsAreInts DEF steps_left, OneIf
<1>9. CASE ScbCheck \/ ScbComplete
  <2>1. mon2scb_mbx # <<>> /\ mon2scb_mbx' = Tail(mon2scb_mbx)
    BY <1>9 DEF ScbCheck, ScbComplete
  <2>2. Len(mon2scb_mbx') = Len(mon2scb_mbx) - 1
    <3>1. PICK x : mon2scb_mbx = <<x>> \/ mon2scb_mbx = <<x, Null>>
      BY <1>1, <2>1 DEF ScbInv
    <3>2. CASE mon2scb_mbx = <<x>>
      <4>1. mon2scb_mbx' = <<>>
        BY <2>1, <3>2, ShortSequences
      <4> QED
        BY <3>2, <4>1
    <3>3. CASE mon2scb_mbx = <<x, Null>>
      <4>1. mon2scb_mbx' = <<Null>>
        BY <2>1, <3>3, ShortSequences
      <4> QED
        BY <3>3, <4>1
    <3> QED
      BY <3>1, <3>2, <3>3
  <2>3. UNCHANGED <<top, phase, gen, gen_q, gen2drv_mbx, drv, mon, mon_left>>
    BY <1>9 DEF ScbCheck, ScbComplete, dutVars, topVars, genVars, drvVars, monVars
  <2>4. scb_steps_left' = scb_steps_left - 1
    <3>1. Len(mon2scb_mbx) \in Int /\ samples_left \in Int /\ samples_left' = samples_left
      BY <1>1, <1>2, <2>3, StepsKept, StepsAreInts
    <3> QED
      BY <2>2, <2>3, <3>1 DEF scb_steps_left, OneIf
  <2> QED
    BY <1>2, <2>3, <2>4, StepsKept, StepsAreInts DEF steps_left, OneIf
<1>10. CASE Finish
  <2>1. top' = "finish"
    BY <1>10 DEF Finish
  <2>2. UNCHANGED <<phase, gen, gen_q, gen2drv_mbx, drv, mon, mon_left, mon2scb_mbx>>
    BY <1>10 DEF Finish, dutVars, genVars, drvVars, monVars, mailboxes
  <2> QED
    BY <1>2, <2>1, <2>2, StepsKept, StepsAreInts DEF steps_left, OneIf
<1>11. CASE Edge
  <2>1. mon \in {"clock0", "clock"}
    BY <1>11, QuietFacts DEF Edge
  <2>2. /\ phase = "rest" /\ phase' = "edge"
        /\ drv' = IF drv = "clock" THEN "drive" ELSE drv
        /\ mon' = IF mon = "clock0" THEN "count" ELSE "sample"
    BY <1>11, <2>1 DEF Edge
  <2>3. UNCHANGED <<top, gen, gen_q, gen2drv_mbx, mon_left, mon2scb_mbx>>
    BY <1>11 DEF Edge, topVars, genVars, mailboxes
  <2>4. samples_left' = samples_left
    BY <1>2, <2>1, <2>2, <2>3 DEF samples_left
  <2>5. edges_left' = edges_left - 1
    BY <2>1, <2>2, <2>4, StepsAreInts DEF edges_left, OneIf
  <2>6. clock_steps_left' = clock_steps_left - 1
    BY <2>2, <2>5, StepsAreInts DEF clock_steps_left, OneIf
  <2>7. mon_steps_left' = mon_steps_left /\ scb_steps_left' = scb_steps_left
    BY <2>1, <2>2, <2>3, <2>4 DEF mon_steps_left, scb_steps_left, OneIf
  <2>8. drv_steps_left' = drv_steps_left
    BY <2>2, <2>3 DEF drv_steps_left, OneIf
  <2> QED
    BY <2>3, <2>6, <2>7, <2>8, StepsKept, StepsAreInts DEF steps_left, OneIf
<1>12. CASE SkewElapsed
  <2>1. phase = "edge" /\ phase' = "rest"
    BY <1>12 DEF SkewElapsed
  <2>2. UNCHANGED <<top, gen, gen_q, gen2drv_mbx, drv, mon, mon_left, mon2scb_mbx>>
    BY <1>12 DEF SkewElapsed, topVars, genVars, monVars, mailboxes
  <2>3. clock_steps_left' = clock_steps_left - 1
    BY <1>2, <2>1, <2>2, StepsKept, StepsAreInts DEF clock_steps_left, OneIf
  <2> QED
    BY <1>2, <2>2, <2>3, StepsKept, StepsAreInts DEF steps_left, OneIf
<1>13. ~(ReleaseReset \/ NullTest \/ StartTest)
  BY DEF ReleaseReset, NullTest, StartTest
<1> QED
  BY <1>3, <1>4, <1>5, <1>6, <1>7, <1>8, <1>9, <1>10, <1>11, <1>12, <1>13 DEF BenchNext

(* Every test ends, in whatever order the processes run, after the steps    *)
(* that it takes: all that is left to fairness is that the next one is      *)
(* taken.                                                                   *)
THEOREM TestsTakeTheirSteps == BenchSpec => TakesItsSteps
<1> DEFINE Runs == top \in {"wait", "finish"}
                     => steps_left \in Nat /\ (top = "finish" <=> steps_left = 0)
<1>1. BenchInv => Runs
  BY StepsAreLeft
<1>2. BenchInv /\ Runs' /\ [BenchNext]_benchVars
        => [/\ top # "wait" /\ top' = "wait" => steps_left' = 7 * (Len(sent) + 1)
            /\ top = "wait" => steps_left' = steps_left - 1
            /\ top = "wait" => (top' = "finish" <=> steps_left' = 0)]_benchVars
  <2> SUFFICES ASSUME BenchInv, Runs', BenchNext
               PROVE  /\ top # "wait" /\ top' = "wait" => steps_left' = 7 * (Len(sent) + 1)
                      /\ top = "wait" => steps_left' = steps_left - 1
                      /\ top = "wait" => (top' = "finish" <=> steps_left' = 0)
    OBVIOUS
  <2>1. ASSUME top # "wait", top' = "wait" PROVE StartTest
    BY <2>1 DEF BenchNext, GenPut, GenCount, DrvInitial, DrvGet, DrvDrive, MonGetCount,
                MonSample, MonEnd, ScbCheck, ScbComplete, ReleaseReset, NullTest, Finish, Edge,
                SkewElapsed, topVars
  <2>2. ASSUME top = "wait"
        PROVE  steps_left' = steps_left - 1 /\ (top' = "finish" <=> steps_left' = 0)
    BY <2>2, StepCounts
  <2> QED
    BY <2>1, <2>2, StartOfTest
<1> HIDE DEF Runs
<1> QED
  BY <1>1, <1>2, BenchInvariant, PTL DEF BenchSpec, TakesItsSteps

-----------------------------------------------------------------------------
(* The refinement *)

LEMMA SameSerial ==
  /\ CheckProofs!CheckInit => Serial!CheckInit
  /\ [CheckProofs!CheckNext]_CheckProofs!vars => [Serial!CheckNext]_Serial!vars
  /\ CheckProofs!SerialInit => Serial!SerialInit
  /\ [CheckProofs!SerialNext]_CheckProofs!serialVars => [Serial!SerialNext]_Serial!serialVars
<1>1. CheckProofs!CheckInit => Serial!CheckInit
  BY DEF CheckProofs!CheckInit, CheckProofs!RtlInit, CheckProofs!memblk!MemInit,
         CheckProofs!memblk!Addresses, CheckProofs!model!ModelInit,
         Serial!CheckInit, Serial!RtlInit, Serial!memblk!MemInit,
         Serial!memblk!Addresses, Serial!model!ModelInit
<1>2. ASSUME NEW clear, NEW WriteN, NEW ReadN
      PROVE  CheckProofs!Registers(clear, WriteN, ReadN) <=> Serial!Registers(clear, WriteN, ReadN)
  BY DEF CheckProofs!Registers, CheckProofs!Control, CheckProofs!CountAfter,
         CheckProofs!Inc, CheckProofs!Dec, CheckProofs!EmptyFlag,
         CheckProofs!FirstFlag, CheckProofs!FirstAsserts,
         CheckProofs!SLastFlag, CheckProofs!SLastAsserts,
         CheckProofs!LastFlag, CheckProofs!LastAsserts,
         CheckProofs!FullFlag, CheckProofs!FullAsserts,
         Serial!Registers, Serial!Control, Serial!CountAfter, Serial!Inc, Serial!Dec,
         Serial!EmptyFlag, Serial!FirstFlag, Serial!FirstAsserts,
         Serial!SLastFlag, Serial!SLastAsserts, Serial!LastFlag, Serial!LastAsserts,
         Serial!FullFlag, Serial!FullAsserts
<1>3. ASSUME NEW FClrN, NEW FInN, NEW FOutN, NEW Data_In,
             CheckProofs!Cycle(FClrN, FInN, FOutN, Data_In)
      PROVE  Serial!Cycle(FClrN, FInN, FOutN, Data_In)
  <2>1. Serial!PosedgeClk(FClrN, FInN, FOutN, Data_In)
    <3>1. /\ CheckProofs!Registers(RstN = 0 \/ FClrN = 0, FInN, FOutN)
          /\ CheckProofs!memblk!MemPosedge(FInN, wr_ptr, Data_In)
          /\ RstN' = RstN
      BY <1>3 DEF CheckProofs!Cycle, CheckProofs!PosedgeClk
    <3>2. Serial!memblk!MemPosedge(FInN, wr_ptr, Data_In)
      BY <3>1 DEF CheckProofs!memblk!MemPosedge, CheckProofs!memblk!Addresses,
                  Serial!memblk!MemPosedge, Serial!memblk!Addresses
    <3> QED
      BY <1>2, <3>1, <3>2 DEF Serial!PosedgeClk
  <2>2. Serial!model!Predict(RstN, FClrN, FInN, FOutN, Data_In)
    BY <1>3
    DEF CheckProofs!Cycle, CheckProofs!model!Predict, CheckProofs!model!NextQ,
        CheckProofs!model!Pushed, CheckProofs!model!Popped, CheckProofs!model!Replaced,
        Serial!model!Predict, Serial!model!NextQ, Serial!model!Pushed, Serial!model!Popped,
        Serial!model!Replaced
  <2>3. matched_after' = Serial!compare(Serial!flags', Serial!F_Data', model_q_after')
    BY <1>3
    DEF CheckProofs!Cycle, CheckProofs!compare, CheckProofs!model!Expected,
        CheckProofs!model!ActiveLow, CheckProofs!model!data_valid, CheckProofs!flags,
        CheckProofs!F_Data, CheckProofs!memblk!data_out, CheckProofs!memblk!Addresses,
        Serial!compare, Serial!model!Expected, Serial!model!ActiveLow, Serial!model!data_valid,
        Serial!flags, Serial!F_Data, Serial!memblk!data_out, Serial!memblk!Addresses
  <2>4. seen' = IF RstN = 0 \/ FClrN = 0 THEN {} ELSE seen \union Serial!KindsOf(FInN, FOutN)
    BY <1>3
    DEF CheckProofs!Cycle, CheckProofs!KindsOf, CheckProofs!Stores, CheckProofs!Empty,
        CheckProofs!Full, CheckProofs!Kinds, Serial!KindsOf, Serial!Stores, Serial!Empty,
        Serial!Full, Serial!Kinds
  <2> QED
    BY <2>1, <2>2, <2>3, <2>4 DEF Serial!Cycle
<1>4. CheckProofs!AssertReset => Serial!AssertReset
  BY <1>2 DEF CheckProofs!AssertReset, CheckProofs!NegedgeRstN,
              Serial!AssertReset, Serial!NegedgeRstN
<1>5. CheckProofs!ReleaseReset => Serial!ReleaseReset
  BY DEF CheckProofs!ReleaseReset, CheckProofs!PosedgeRstN, CheckProofs!pointers,
         CheckProofs!flags, Serial!ReleaseReset, Serial!PosedgeRstN, Serial!pointers, Serial!flags
<1>6. CheckProofs!CheckNext => Serial!CheckNext
  BY <1>3, <1>4, <1>5 DEF CheckProofs!CheckNext, Serial!CheckNext, CheckProofs!Bit, Serial!Bit
<1>7. [CheckProofs!CheckNext]_CheckProofs!vars => [Serial!CheckNext]_Serial!vars
  BY <1>6 DEF CheckProofs!vars, CheckProofs!rtlVars, Serial!vars, Serial!rtlVars
<1>8. CheckProofs!SerialInit => Serial!SerialInit
  BY <1>1 DEF CheckProofs!SerialInit, Serial!SerialInit
<1>9. CheckProofs!Script(test) = Serial!Script(test)
  BY DEF CheckProofs!Script, Serial!Script
<1>10. CheckProofs!CheckRequest => Serial!CheckRequest
  BY <1>3, <1>9 DEF CheckProofs!CheckRequest, Serial!CheckRequest
<1>11. CheckProofs!StartTest => Serial!StartTest
  BY <1>5 DEF CheckProofs!StartTest, Serial!StartTest
<1>12. [CheckProofs!SerialNext]_CheckProofs!serialVars => [Serial!SerialNext]_Serial!serialVars
  BY <1>10, <1>11
  DEF CheckProofs!SerialNext, Serial!SerialNext, CheckProofs!serialVars, Serial!serialVars,
      CheckProofs!vars, CheckProofs!rtlVars, Serial!vars, Serial!rtlVars
<1> QED
  BY <1>1, <1>7, <1>8, <1>12

(* The simulation checks every cycle, as FifoCheck does with any traffic:   *)
(* what is proved of FifoCheck holds of every test in every schedule.       *)
THEOREM BenchImplementsCheck == BenchSpec => ChecksEveryCycle
<1>1. BenchInit => Serial!CheckInit
  BY SerialInitHolds, SameSerial DEF CheckProofs!SerialInit
<1>2. BenchInv /\ AfterInv /\ [BenchNext]_benchVars => [Serial!CheckNext]_Serial!vars
  BY CheckStepHolds, SameSerial
<1> QED
  BY <1>1, <1>2, BenchInvariant, PTL DEF BenchSpec, ChecksEveryCycle, Serial!CheckSpec

(* The simulation does nothing but take the requests of the test one after  *)
(* the other: the order in which the processes run does not show in what    *)
(* the scoreboard counts.                                                   *)
THEOREM BenchImplementsSerial == BenchSpec => RunsTheTest
<1>1. BenchInit => Serial!SerialInit
  BY SerialInitHolds, SameSerial
<1>2. BenchInv /\ AfterInv /\ [BenchNext]_benchVars
        => [Serial!SerialNext]_Serial!serialVars
  BY SerialStepHolds, SameSerial DEF AfterInv
<1> QED
  BY <1>1, <1>2, BenchInvariant, PTL DEF BenchSpec, RunsTheTest, Serial!SerialSpec

(* What is proved of FifoSerial holds of the simulation. *)
LEMMA BenchIsSerial == BenchSpec => CheckProofs!SerialSpec
<1>1. BenchInv /\ AfterInv /\ [BenchNext]_benchVars
        => [CheckProofs!SerialNext]_CheckProofs!serialVars
  BY SerialStepHolds DEF AfterInv
<1> QED
  BY <1>1, SerialInitHolds, BenchInvariant, PTL DEF BenchSpec, CheckProofs!SerialSpec

(* No test that reads back a word, or reads and writes at an end of the     *)
(* FIFO, passes: not for any set of tests, schedule or depth.               *)
THEOREM PassingTests == BenchSpec => []PassingTestsNeverRead
<1>1. CheckProofs!SerialSpec => []CheckProofs!Gentle
  BY CheckProofs!PassingTestsAreGentle, RtlAssumption, SameTests
<1>2. CheckProofs!Gentle => PassingTestsNeverRead
  BY DEF CheckProofs!Gentle, CheckProofs!Avoided, CheckProofs!Upsetting,
         PassingTestsNeverRead, Serial!Avoided, Serial!Upsetting
<1> QED
  BY <1>1, <1>2, BenchIsSerial, PTL

(* The scoreboard counts no error for a test whose traffic since the last   *)
(* clear is of no listed kind: the error it would count now is the verdict  *)
(* that FifoCheck gave in the cycle.                                        *)
THEOREM CountedErrorsHaveACause == BenchSpec => ErrorsHaveACause
<1>1. BenchSpec => CheckProofs!CheckSpec
  <2>1. BenchInit => CheckProofs!CheckInit
    BY SerialInitHolds DEF CheckProofs!SerialInit
  <2>2. BenchInv /\ AfterInv /\ [BenchNext]_benchVars
          => [CheckProofs!CheckNext]_CheckProofs!vars
    BY CheckStepHolds
  <2> QED
    BY <2>1, <2>2, BenchInvariant, PTL DEF BenchSpec, CheckProofs!CheckSpec
<1>2. CheckProofs!CheckSpec => []CheckProofs!CleanTrafficMatches
  BY CheckProofs!CleanMatches, RtlAssumption, SameTests
<1>3. BenchInv /\ CheckProofs!CleanTrafficMatches /\ [BenchNext]_benchVars
        => [error_count' # error_count => seen # {}]_benchVars
  <2> SUFFICES ASSUME BenchInv, CheckProofs!CleanTrafficMatches, BenchNext,
                      error_count' # error_count, seen = {}
               PROVE  FALSE
    OBVIOUS
  <2>1. ScbCheck
    BY DEF BenchNext, GenPut, GenCount, DrvInitial, DrvGet, DrvDrive, MonGetCount, MonSample,
           MonEnd, ScbComplete, ReleaseReset, NullTest, StartTest, Finish, Edge, SkewElapsed,
           scbVars
  <2>2. /\ scb = "get" /\ mon2scb_mbx # <<>> /\ Head(mon2scb_mbx) # Null
        /\ matched' = VerdictOn(Head(mon2scb_mbx))
        /\ error_count' = IF matched' THEN error_count ELSE error_count + 1
    BY <2>1 DEF ScbCheck
  <2>3. mon # "sample"
    BY <2>2, Running DEF ScbInv
  <2>4. unchecked = Head(mon2scb_mbx)
    BY <2>2, <2>3 DEF unchecked, incoming
  <2>5. matched_after = matched'
    BY <2>2, <2>4 DEF matched_after
  <2>6. matched_after
    BY DEF CheckProofs!CleanTrafficMatches
  <2> QED
    BY <2>2, <2>5, <2>6
<1> QED
  BY <1>1, <1>2, <1>3, BenchInvariant, PTL DEF BenchSpec, ErrorsHaveACause
=============================================================================
