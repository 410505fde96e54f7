---------------------------- MODULE MCFifoBench ----------------------------
(***************************************************************************)
(* FifoBench for TLC with every test of up to MaxTrans requests and, since *)
(* these do not fill the FIFO, the directed tests of the repository.       *)
(***************************************************************************)
EXTENDS FifoTestBench

CONSTANTS
  MaxTrans,   (* bound: requests that a test sends, unless it is directed  *)
  FewWords    (* bound: the words that such a test draws                   *)

Scripts ==
  UNION {[1 .. n -> {Request(op, d) : op \in DOMAIN Controls, d \in FewWords}] :
           n \in 0 .. MaxTrans}

(* A test of up to MaxTrans requests is named by what it sends. *)
ShortTests == {"any"} \X Scripts

AllTests ==
  [name \in ShortTests \union DOMAIN DirectedTests |->
     IF name[1] = "any" THEN name[2] ELSE DirectedTests[name]]

AllNames == ShortTests \union Names
=============================================================================
