--------------------------- MODULE FifoTestBench ---------------------------
(***************************************************************************)
(* The directed tests in the simulation.                                   *)
(***************************************************************************)
EXTENDS FifoBench, FifoTests

(* The verdict of every directed test, whatever words it draws and whatever *)
(* order the processes run in: all report an error but those that do not    *)
(* see any, and two whose draw decides.                                     *)
VerdictOfTests ==
  top = "finish" =>
    \A name \in DOMAIN Operations :
      IsDraw(sent, name) => (error_count = 0 <=> EndsSilently(sent, name))

(* sim/makefile line 56 offers "make run TESTNAME=write_only_test", but     *)
(* tb_top_fifo.sv line 113 makes a base_test of any name it does not know.  *)
NamedTestIsRun == top = "finish" /\ test[2] = "write_only_test" => check_count > 0

-----------------------------------------------------------------------------
(* Two draws of each test: with words that are all different every mistake  *)
(* in their order can be seen, with words that are all equal none can.      *)
Draws == {"different", "equal"}

Word(draw, i) == IF draw = "different" THEN i ELSE 1

DirectedTests ==
  [t \in Draws \X DOMAIN Operations |->
     [i \in DOMAIN Operations[t[2]] |-> Request(Operations[t[2]][i], Word(t[1], i))]]

(* The names of the README, and the one that the makefile gives as an       *)
(* example.                                                                 *)
Names == Draws \X (DOMAIN Operations \union {"write_only_test"})
=============================================================================
