----------------------------- MODULE FifoBench -----------------------------
(***************************************************************************)
(* The simulation: tb_top_fifo runs a test against the RTL, and the        *)
(* environment's four processes (generator, driver, monitor, scoreboard)   *)
(* run in zero time and pass transactions through mailboxes.               *)
(*                                                                         *)
(* A simulator advances time only when every process is blocked, and runs  *)
(* the processes that are not in any order.  Time is abstracted to what    *)
(* the interface's clocking blocks tell apart: a rising clock edge, and    *)
(* the rest of the period, which begins 1 ns after it when the driver's    *)
(* outputs (skew #1) reach the pins.  Reset is released and the test       *)
(* starts on falling edges, which are in that rest.                        *)
(***************************************************************************)
EXTENDS FifoTransactions

CONSTANT
  Null         (* the monitor's end-of-stream marker *)

VARIABLES
  top,         (* tb_top_fifo: "reset", "delay", "wait", and at the end  *)
               (* "finish" or, on a null reference, "fatal"              *)
  test,        (* the name of the test                                   *)
  phase,       (* "edge": at a rising edge; "rest": after its 1 ns       *)
  pins,        (* the request on the DUT's inputs                        *)
  scheduled,   (* the driver's outputs on their way to the pins          *)
  gen, gen_q,                (* generator: where it is, requests left    *)
  drv, drv_tx,               (* driver: where it is, its request         *)
  mon, mon_left,             (* monitor: where it is, samples left       *)
  scb, model_q, matched,     (* scoreboard, its model, its last verdict  *)
  check_count, pass_count, error_count,
  gen2drv_mbx, mon2scb_mbx, count_mbx,   (* mailboxes, all unbounded     *)
  seen         (* history, as in FifoCheck                               *)

dutVars   == <<rtlVars, phase, pins, seen>>
topVars   == <<top, test>>
genVars   == <<gen, gen_q>>
drvVars   == <<drv, drv_tx, scheduled>>
monVars   == <<mon, mon_left>>
scbVars   == <<scb, model_q, matched, check_count, pass_count, error_count>>
mailboxes == <<gen2drv_mbx, mon2scb_mbx, count_mbx>>
benchVars == <<dutVars, topVars, genVars, drvVars, monVars, scbVars, mailboxes>>

(* The scoreboard's own definitions, applied to the variables above. *)
lockstep == INSTANCE FifoCheck

-----------------------------------------------------------------------------
(* The inputs and outputs that a monitored transaction holds *)
Observation ==
  [Rst_N : Bit, request : AnyRequest \union {IdlePins},
   flags : Bit \X Bit \X Bit \X Bit \X Bit, F_Data : memblk!Word]

ASSUME BenchAssumption == Null \notin Observation

(* gen_fifo.q: the requests of the test *)
sent == Script(test)

(* What the monitor sees at an edge: inputs that changed 1 ns after the last *)
(* edge, and outputs sampled after the registers have changed (skew #0).     *)
observed == [Rst_N |-> RstN, request |-> pins, flags |-> flags, F_Data |-> F_Data]

(* The scoreboard's queue and verdict once it has checked an observation. *)
QueueAfter(o) ==
  lockstep!model!NextQ(model_q, o.Rst_N, o.request.ctl.FClrN, o.request.ctl.FInN,
                       o.request.ctl.FOutN, o.request.Data_In)

(* Variant: compares before the reference model has predicted. *)
VerdictOn_TooEarly(o) == lockstep!compare(o.flags, o.F_Data, model_q)

VerdictOn(o) == lockstep!compare(o.flags, o.F_Data, QueueAfter(o))

-----------------------------------------------------------------------------
BenchInit ==
  /\ RtlInit
  /\ top = "reset" /\ test \in TESTNAMES \union {NoName}
  /\ phase = "rest" /\ pins = IdlePins
  /\ gen = "off" /\ gen_q = <<>>
  /\ drv = "off" /\ drv_tx = IdlePins /\ scheduled = <<>>
  /\ mon = "off" /\ mon_left = 0
  /\ scb = "off" /\ model_q = <<>> /\ matched = TRUE
  /\ check_count = 0 /\ pass_count = 0 /\ error_count = 0
  /\ gen2drv_mbx = <<>> /\ mon2scb_mbx = <<>> /\ count_mbx = <<>>
  /\ seen = {}

(* The generator never blocks: its mailboxes are unbounded. *)
GenPut ==
  /\ gen = "put" /\ gen_q # <<>>
  /\ gen2drv_mbx' = Append(gen2drv_mbx, Head(gen_q))
  /\ gen_q' = Tail(gen_q)
  /\ UNCHANGED <<dutVars, topVars, gen, drvVars, monVars, scbVars,
                 mon2scb_mbx, count_mbx>>

(* Variant: sends no count when there is nothing to count. *)
GenCount_OnlyIfAny ==
  /\ gen = "put" /\ gen_q = <<>>
  /\ gen' = "done"
  /\ count_mbx' = IF sent = <<>> THEN count_mbx ELSE Append(count_mbx, Len(sent))
  /\ UNCHANGED <<dutVars, topVars, gen_q, drvVars, monVars, scbVars,
                 gen2drv_mbx, mon2scb_mbx>>

GenCount ==
  /\ gen = "put" /\ gen_q = <<>>
  /\ gen' = "done"
  /\ count_mbx' = Append(count_mbx, Len(sent))   \* num_trans
  /\ UNCHANGED <<dutVars, topVars, gen_q, drvVars, monVars, scbVars,
                 gen2drv_mbx, mon2scb_mbx>>

(* The driver's clocking block delays its outputs; a later one in the same  *)
(* period replaces the earlier.                                             *)
DrvInitial ==
  /\ drv = "initial"
  /\ drv' = "get"
  /\ scheduled' = <<IdlePins>>
  /\ UNCHANGED <<dutVars, topVars, genVars, drv_tx, monVars, scbVars,
                 mailboxes>>

DrvGet ==
  /\ drv = "get" /\ gen2drv_mbx # <<>>
  /\ drv' = "clock"
  /\ drv_tx' = Head(gen2drv_mbx)
  /\ gen2drv_mbx' = Tail(gen2drv_mbx)
  /\ UNCHANGED <<dutVars, topVars, genVars, scheduled, monVars, scbVars,
                 mon2scb_mbx, count_mbx>>

(* Variant: without the output skew. *)
DrvDrive_NoSkew ==
  /\ drv = "drive"
  /\ drv' = "get"
  /\ pins' = drv_tx
  /\ UNCHANGED <<rtlVars, phase, seen, topVars, genVars, drv_tx, scheduled, monVars,
                 scbVars, mailboxes>>

DrvDrive ==
  /\ drv = "drive"
  /\ drv' = "get"
  /\ scheduled' = <<drv_tx>>
  /\ UNCHANGED <<dutVars, topVars, genVars, drv_tx, monVars, scbVars,
                 mailboxes>>

(* Variant: samples once too often. *)
MonGetCount_OneMore ==
  /\ mon = "count" /\ count_mbx # <<>>
  /\ mon_left' = Head(count_mbx) + 1
  /\ count_mbx' = Tail(count_mbx)
  /\ mon' = "clock"
  /\ UNCHANGED <<dutVars, topVars, genVars, drvVars, scbVars,
                 gen2drv_mbx, mon2scb_mbx>>

(* The first edge after the start only lets the driver apply a request. *)
MonGetCount ==
  /\ mon = "count" /\ count_mbx # <<>>
  /\ mon_left' = Head(count_mbx)
  /\ count_mbx' = Tail(count_mbx)
  /\ mon' = IF mon_left' > 0 THEN "clock" ELSE "end"
  /\ UNCHANGED <<dutVars, topVars, genVars, drvVars, scbVars,
                 gen2drv_mbx, mon2scb_mbx>>

(* Variant: stops before the last sample. *)
MonSample_StopsEarly ==
  /\ mon = "sample"
  /\ mon2scb_mbx' = Append(mon2scb_mbx, observed)
  /\ mon_left' = mon_left - 1
  /\ mon' = IF mon_left' > 1 THEN "clock" ELSE "end"
  /\ UNCHANGED <<dutVars, topVars, genVars, drvVars, scbVars,
                 gen2drv_mbx, count_mbx>>

MonSample ==
  /\ mon = "sample"
  /\ mon2scb_mbx' = Append(mon2scb_mbx, observed)
  /\ mon_left' = mon_left - 1
  /\ mon' = IF mon_left' > 0 THEN "clock" ELSE "end"
  /\ UNCHANGED <<dutVars, topVars, genVars, drvVars, scbVars,
                 gen2drv_mbx, count_mbx>>

(* Variant: forgets the end-of-stream marker. *)
MonEnd_NoMarker ==
  /\ mon = "end"
  /\ mon' = "done"
  /\ UNCHANGED <<dutVars, topVars, genVars, drvVars, mon_left, scbVars, mailboxes>>

MonEnd ==
  /\ mon = "end"
  /\ mon' = "done"
  /\ mon2scb_mbx' = Append(mon2scb_mbx, Null)
  /\ UNCHANGED <<dutVars, topVars, genVars, drvVars, mon_left, scbVars, gen2drv_mbx, count_mbx>>

(* One turn of the scoreboard's loop: get, then check or leave the loop.     *)
ScbCheck ==
  /\ scb = "get" /\ mon2scb_mbx # <<>> /\ Head(mon2scb_mbx) # Null
  /\ mon2scb_mbx' = Tail(mon2scb_mbx)
  /\ model_q' = QueueAfter(Head(mon2scb_mbx))
  /\ matched' = VerdictOn(Head(mon2scb_mbx))
  /\ check_count' = check_count + 1
  /\ pass_count' = IF matched' THEN pass_count + 1 ELSE pass_count
  /\ error_count' = IF matched' THEN error_count ELSE error_count + 1
  /\ UNCHANGED <<dutVars, topVars, genVars, drvVars, monVars, scb, gen2drv_mbx, count_mbx>>

ScbComplete ==
  /\ scb = "get" /\ mon2scb_mbx # <<>> /\ Head(mon2scb_mbx) = Null
  /\ mon2scb_mbx' = Tail(mon2scb_mbx)
  /\ scb' = "completed"
  /\ UNCHANGED <<dutVars, topVars, genVars, drvVars, monVars, model_q, matched,
                 check_count, pass_count, error_count, gen2drv_mbx, count_mbx>>

(* test.build() of no test: the branch for no +TESTNAME sets a name only.    *)
NullTest ==
  /\ top = "delay" /\ phase = "rest" /\ test = NoName
  /\ top' = "fatal"
  /\ UNCHANGED <<dutVars, test, genVars, drvVars, monVars, scbVars, mailboxes>>

(* build and run: the test fills the generator's queue and the environment   *)
(* forks its processes.  The delay of #100 before it spans idle edges.       *)
StartTest ==
  /\ top = "delay" /\ phase = "rest" /\ test # NoName
  /\ top' = "wait"
  /\ gen' = "put" /\ gen_q' = sent
  /\ drv' = "initial" /\ mon' = "clock0" /\ scb' = "get"
  /\ UNCHANGED <<dutVars, test, drv_tx, scheduled, mon_left, model_q, matched,
                 check_count, pass_count, error_count, mailboxes>>

ReleaseReset ==
  /\ top = "reset" /\ phase = "rest"
  /\ top' = "delay"
  /\ PosedgeRstN
  /\ UNCHANGED <<phase, pins, seen, test, genVars, drvVars, monVars, scbVars, mailboxes>>

(* wait(completed), the summary and $finish, after which nothing happens. *)
Finish ==
  /\ top = "wait" /\ scb = "completed"
  /\ top' = "finish"
  /\ UNCHANGED <<dutVars, test, genVars, drvVars, monVars, scbVars, mailboxes>>

(* Every process waits for a mailbox or for the clock.  Once the scoreboard  *)
(* has completed, tb_top_fifo is ready or has finished.                      *)
Quiet ==
  /\ top # "fatal"
  /\ gen # "put"
  /\ drv \in {"off", "clock"} \/ (drv = "get" /\ gen2drv_mbx = <<>>)
  /\ mon \in {"off", "clock0", "clock", "done"} \/ (mon = "count" /\ count_mbx = <<>>)
  /\ scb = "off" \/ (scb = "get" /\ mon2scb_mbx = <<>>)

(* posedge Clk: the DUT takes what is on the pins, and the processes that    *)
(* wait for the edge become ready.                                           *)
Edge ==
  /\ Quiet /\ phase = "rest"
  /\ phase' = "edge"
  /\ PosedgeClk(pins.ctl.FClrN, pins.ctl.FInN, pins.ctl.FOutN, pins.Data_In)
  /\ drv' = IF drv = "clock" THEN "drive" ELSE drv
  /\ mon' = IF mon = "clock0" THEN "count" ELSE IF mon = "clock" THEN "sample" ELSE mon
  /\ seen' = IF RstN = 0 \/ pins.ctl.FClrN = 0 THEN {}
             ELSE seen \union lockstep!KindsOf(pins.ctl.FInN, pins.ctl.FOutN)
  /\ UNCHANGED <<topVars, pins, genVars, drv_tx, scheduled, mon_left, scbVars, mailboxes>>

SkewElapsed ==
  /\ Quiet /\ phase = "edge"
  /\ phase' = "rest"
  /\ pins' = IF scheduled = <<>> THEN pins ELSE Head(scheduled)
  /\ scheduled' = <<>>
  /\ UNCHANGED <<rtlVars, seen, topVars, genVars, drv, drv_tx, monVars, scbVars, mailboxes>>

BenchNext ==
  \/ GenPut \/ GenCount
  \/ DrvInitial \/ DrvGet \/ DrvDrive
  \/ MonGetCount \/ MonSample \/ MonEnd
  \/ ScbCheck \/ ScbComplete
  \/ ReleaseReset \/ NullTest \/ StartTest \/ Finish
  \/ Edge \/ SkewElapsed

(* A ready process runs before time advances, and the clock never stops.     *)
(* The reset and the delay end between two edges while the clock runs on,    *)
(* so their steps are not enabled continuously.                              *)
Fairness ==
  /\ WF_benchVars(GenPut) /\ WF_benchVars(GenCount)
  /\ WF_benchVars(DrvInitial) /\ WF_benchVars(DrvGet) /\ WF_benchVars(DrvDrive)
  /\ WF_benchVars(MonGetCount) /\ WF_benchVars(MonSample) /\ WF_benchVars(MonEnd)
  /\ WF_benchVars(ScbCheck) /\ WF_benchVars(ScbComplete) /\ WF_benchVars(Finish)
  /\ WF_benchVars(Edge) /\ WF_benchVars(SkewElapsed)
  /\ SF_benchVars(ReleaseReset) /\ SF_benchVars(NullTest) /\ SF_benchVars(StartTest)

BenchSpec == BenchInit /\ [][BenchNext]_benchVars /\ Fairness

-----------------------------------------------------------------------------
(* What the monitor has handed to the scoreboard and what it is about to.    *)
incoming == IF mon = "sample" THEN Append(mon2scb_mbx, observed) ELSE mon2scb_mbx

(* The observation that the scoreboard checks next, Null if there is none.   *)
unchecked == IF incoming = <<>> THEN Null ELSE Head(incoming)

(* The check that every clock cycle makes, without the processes in between: *)
(* FifoSerial, and FifoCheck which it extends; their scoreboard has checked  *)
(* what is unchecked here.                                                   *)
model_q_after == IF unchecked = Null THEN model_q ELSE QueueAfter(unchecked)

matched_after == IF unchecked = Null THEN matched ELSE VerdictOn(unchecked)

check_count_after == IF unchecked = Null THEN check_count ELSE check_count + 1

error_count_after ==
  IF unchecked = Null \/ VerdictOn(unchecked) THEN error_count ELSE error_count + 1

Serial == INSTANCE FifoSerial WITH
  model_q <- model_q_after, matched <- matched_after,
  checked <- check_count_after, errors <- error_count_after

-----------------------------------------------------------------------------
(* What the simulation still has to do.                                      *)
OneIf(condition) == IF condition THEN 1 ELSE 0

samples_left == IF mon \in {"clock0", "count"} THEN Len(sent) ELSE mon_left

edges_left == samples_left + OneIf(mon = "clock0") - OneIf(mon = "sample")

clock_steps_left == 2 * edges_left - OneIf(phase = "rest")

gen_steps_left == Len(gen_q) + OneIf(gen = "put")

(* A get and a drive for each request *)
drv_steps_left ==
  2 * (Len(gen_q) + Len(gen2drv_mbx)) + OneIf(drv \in {"initial", "clock", "drive"})

mon_steps_left ==
  samples_left + OneIf(mon \in {"clock0", "count"}) + OneIf(mon # "done")

(* A turn for each message that is in the mailbox or will be *)
scb_steps_left == Len(mon2scb_mbx) + samples_left + OneIf(mon # "done")

steps_left ==
  clock_steps_left + gen_steps_left + drv_steps_left + mon_steps_left + scb_steps_left
    + OneIf(top = "wait")

-----------------------------------------------------------------------------
(* Type invariant of the processes and the mailboxes. *)
BenchTypeOK ==
  /\ top \in {"reset", "delay", "wait", "finish", "fatal"}
  /\ test \in TESTNAMES \union {NoName}
  /\ phase \in {"edge", "rest"}
  /\ {pins, drv_tx} \subseteq AnyRequest \union {IdlePins}
  /\ scheduled = <<>> \/ \E r \in AnyRequest \union {IdlePins} : scheduled = <<r>>
  /\ gen \in {"off", "put", "done"}
  /\ drv \in {"off", "initial", "get", "clock", "drive"}
  /\ mon \in {"off", "clock0", "count", "clock", "sample", "end", "done"}
  /\ scb \in {"off", "get", "completed"}
  /\ gen_q \in Seq(AnyRequest) /\ gen2drv_mbx \in Seq(AnyRequest)
  /\ mon_left \in 0 .. Len(sent)
  /\ count_mbx \in {<<>>, <<Len(sent)>>}
  /\ mon2scb_mbx \in Seq(Observation \union {Null}) /\ Len(mon2scb_mbx) <= 2
  /\ {check_count, pass_count, error_count} \subseteq 0 .. Len(sent)
  /\ lockstep!TypeOK

(* The scoreboard checks the requests of the test, each once and in order:   *)
(* whatever order the processes run in at an edge, what the monitor hands it *)
(* next (monitor_fifo.sv 20-40) is what the generator sent next              *)
(* (gen_fifo.sv 87-90), although the driver already drives the one after it. *)
MonitorSeesWhatIsSent ==
  \A i \in 1 .. Len(incoming) :
    incoming[i] # Null =>
      /\ check_count + i <= Len(sent)
      /\ incoming[i].request = sent[check_count + i]
      /\ incoming[i].Rst_N = 1

(* When the summary is printed (tb_top_fifo.sv 119-121) every request of the *)
(* test has been checked and counted once, and no mailbox holds anything.    *)
SummaryComplete ==
  top = "finish" =>
    /\ check_count = Len(sent)
    /\ pass_count + error_count = check_count
    /\ gen_q = <<>> /\ gen2drv_mbx = <<>> /\ mon2scb_mbx = <<>> /\ count_mbx = <<>>

(* The scoreboard counts an error (scb_fifo.sv 47-53) only in a cycle with   *)
(* traffic of a listed kind since the last clear.                            *)
ErrorsHaveACause == [][error_count' # error_count => seen # {}]_benchVars

(* The test ends: no process waits for ever, and the end-of-stream marker    *)
(* reaches the scoreboard (monitor_fifo.sv 43, scb_fifo.sv 25-31).  Without  *)
(* a test (tb_top_fifo.sv 48-50) it never gets as far as that.               *)
Terminates == <>(top = IF test = NoName THEN "fatal" ELSE "finish")

(* In whatever order the processes run, a test of n requests is over after   *)
(* 7 * (n + 1) steps from its start: no step is wasted, none is repeated,    *)
(* and nobody waits for somebody who waits as well (gen_fifo.sv 85-95,       *)
(* driver_fifo.sv 14-24, monitor_fifo.sv 14-44, scb_fifo.sv 22-31).          *)
TakesItsSteps ==
  [][/\ top # "wait" /\ top' = "wait" => steps_left' = 7 * (Len(sent) + 1)
     /\ top = "wait" => steps_left' = steps_left - 1
     /\ top = "wait" => (top' = "finish" <=> steps_left' = 0)]_benchVars

(* The environment makes the check of FifoCheck in every clock cycle: it     *)
(* drops no cycle in which the DUT does something, and the reference model   *)
(* takes no request that the DUT did not take.                               *)
ChecksEveryCycle == Serial!CheckSpec

(* The outcome of a test is that of its requests taken one after the other, *)
(* the i-th in the i-th cycle of the scoreboard, whatever order the         *)
(* processes run in: no process loses, repeats, delays or invents a request *)
(* or a verdict (gen_fifo.sv 85-95, driver_fifo.sv 17-24, monitor_fifo.sv   *)
(* 16-44, scb_fifo.sv 22-54), and the run depends on nothing but the test.  *)
RunsTheTest == Serial!SerialSpec

(* No test that reads back a word passes: as long as no error has been      *)
(* counted (scb_fifo.sv 47-53), no request since the last clear has read a  *)
(* stored word without a write or met an end with a read and write.         *)
PassingTestsNeverRead ==
  error_count_after = 0 => Serial!Avoided(Serial!Upsetting)
=============================================================================
