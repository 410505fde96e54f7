------------------------ MODULE FifoTestBenchProofs ------------------------
(***************************************************************************)
(* Proofs about how the directed tests end in the simulation, for every    *)
(* draw of their words and every order in which the processes run.         *)
(***************************************************************************)
EXTENDS FifoBenchProofs, FifoTestBench

LEMMA SameOperations == CheckProofs!Operations = Operations
BY DEF CheckProofs!Operations, CheckProofs!single_rnw, CheckProofs!multiple_rnw,
       CheckProofs!single_rw, CheckProofs!multiple_rw, CheckProofs!read_empty,
       CheckProofs!write_full, CheckProofs!rw_empty, CheckProofs!rw_full,
       CheckProofs!firstn, CheckProofs!slastn, CheckProofs!lastn, CheckProofs!clr,
       CheckProofs!clr_read, CheckProofs!clr_write, CheckProofs!clr_rw,
       Operations, single_rnw, multiple_rnw, single_rw, multiple_rw, read_empty, write_full,
       rw_empty, rw_full, firstn, slastn, lastn, clr, clr_read, clr_write, clr_rw

LEMMA SameDraws ==
  ASSUME NEW requests, NEW name
  PROVE  /\ CheckProofs!IsDraw(requests, name) <=> IsDraw(requests, name)
         /\ CheckProofs!EndsSilently(requests, name) <=> EndsSilently(requests, name)
<1>1. CheckProofs!Controls = Controls
  BY DEF CheckProofs!Controls, Controls
<1>2. CheckProofs!IsDraw(requests, name) <=> IsDraw(requests, name)
  BY <1>1, SameOperations DEF CheckProofs!IsDraw, IsDraw
<1>3. CheckProofs!EndsSilently(requests, name) <=> EndsSilently(requests, name)
  BY DEF CheckProofs!EndsSilently, CheckProofs!SilentTests, CheckProofs!TestsOfTheDraw,
         EndsSilently, SilentTests, TestsOfTheDraw
<1> QED
  BY <1>2, <1>3

(* At the end the scoreboard has checked everything and counted it.         *)
LEMMA NothingUncheckedAtTheEnd ==
  ASSUME BenchInv, top = "finish"
  PROVE  check_count_after = Len(sent) /\ error_count_after = error_count
<1>1. mon = "done" /\ mon2scb_mbx = <<>> /\ check_count = Len(sent)
  BY EndOfTest DEF SummaryComplete
<1>2. unchecked = Null
  BY <1>1 DEF unchecked, incoming
<1> QED
  BY <1>1, <1>2 DEF check_count_after, error_count_after

(* The directed tests end as FifoTests says they do, for every draw of      *)
(* their words, every schedule of the processes and every register width;   *)
(* the FIFO has 4 words in the code.                                        *)
THEOREM VerdictsOfTests ==
  ASSUME FDEPTH <= 5
  PROVE  BenchSpec => []VerdictOfTests
<1>1. CheckProofs!SerialSpec => []CheckProofs!VerdictOfRequests
  BY CheckProofs!Verdicts, RtlAssumption, SameTests
<1>2. BenchInv /\ CheckProofs!VerdictOfRequests => VerdictOfTests
  <2> SUFFICES ASSUME BenchInv, CheckProofs!VerdictOfRequests, top = "finish",
                      NEW name \in DOMAIN Operations, IsDraw(sent, name)
               PROVE  error_count = 0 <=> EndsSilently(sent, name)
    BY DEF VerdictOfTests
  <2>1. CheckProofs!requests = sent
    BY SameScript DEF CheckProofs!requests
  <2>2. error_count_after = 0 <=> CheckProofs!EndsSilently(sent, name)
    BY <2>1, NothingUncheckedAtTheEnd, SameOperations, SameDraws
    DEF CheckProofs!VerdictOfRequests
  <2> QED
    BY <2>2, NothingUncheckedAtTheEnd, SameDraws
<1> QED
  BY <1>1, <1>2, BenchInvariant, BenchIsSerial, PTL
=============================================================================
