-------------------------- MODULE FifoTransactions --------------------------
(***************************************************************************)
(* The transactions that a test sends to the DUT's inputs, and the tests:  *)
(* component/trans_fifo.sv, the `send' of component/gen_fifo.sv and the    *)
(* choice of the test in testbench/tb_top_fifo.sv.                         *)
(***************************************************************************)
EXTENDS FifoRtl, Sequences

CONSTANTS
  Tests,       (* the tests: a function from names to sequences of requests *)
  TESTNAMES,   (* the names that +TESTNAME may give                         *)
  NoName       (* no +TESTNAME                                              *)

(* send of the generator: the active-low controls of an operation *)
Controls ==
  [CLEAR            |-> [FClrN |-> 0, FInN |-> 1, FOutN |-> 1],
   CLEAR_READ       |-> [FClrN |-> 0, FInN |-> 1, FOutN |-> 0],
   CLEAR_WRITE      |-> [FClrN |-> 0, FInN |-> 0, FOutN |-> 1],
   CLEAR_READ_WRITE |-> [FClrN |-> 0, FInN |-> 0, FOutN |-> 0],
   IDLE             |-> [FClrN |-> 1, FInN |-> 1, FOutN |-> 1],
   WRITE            |-> [FClrN |-> 1, FInN |-> 0, FOutN |-> 1],
   READ             |-> [FClrN |-> 1, FInN |-> 1, FOutN |-> 0],
   READ_WRITE       |-> [FClrN |-> 1, FInN |-> 0, FOutN |-> 0]]

Request(op, data) == [ctl |-> Controls[op], Data_In |-> data]

(* What a test can send *)
AnyRequest == {Request(op, d) : op \in DOMAIN Controls, d \in Data}

(* The pins before the first request: nobody has driven Data_In. *)
IdlePins == Request("IDLE", X)

ASSUME TestsAssumption ==
  /\ \A name \in DOMAIN Tests : Tests[name] \in Seq(AnyRequest)
  /\ NoName \notin DOMAIN Tests

(* The requests of the test that tb_top_fifo makes for a name; any unknown *)
(* name makes a base_test, which sends none.                               *)
Script(name) == IF name \in DOMAIN Tests THEN Tests[name] ELSE <<>>
=============================================================================
