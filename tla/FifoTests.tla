----------------------------- MODULE FifoTests -----------------------------
(***************************************************************************)
(* The directed tests of testbench/: what each of them sends, and how it   *)
(* ends.  A test draws its words at random.                                *)
(***************************************************************************)
EXTENDS FifoTransactions

(* base_test.send repeats an operation for so many cycles; the repetitions  *)
(* are written out here.                                                    *)
single_rnw == <<"WRITE", "IDLE", "WRITE", "IDLE", "READ", "IDLE">>

multiple_rnw ==
  <<"WRITE", "WRITE", "WRITE", "WRITE", "IDLE",
    "READ", "READ", "READ", "READ", "IDLE">>

single_rw == <<"WRITE", "IDLE", "READ_WRITE", "IDLE", "READ_WRITE", "IDLE">>

multiple_rw ==
  <<"WRITE", "IDLE",
    "READ_WRITE", "READ_WRITE", "READ_WRITE", "READ_WRITE", "READ_WRITE",
    "IDLE">>

read_empty == <<"READ", "READ", "READ", "READ", "READ", "READ", "IDLE">>

write_full ==
  <<"WRITE", "WRITE", "WRITE", "WRITE", "IDLE",
    "WRITE", "WRITE", "WRITE", "WRITE", "IDLE",
    "READ", "READ", "READ", "READ">>

rw_empty == <<"READ_WRITE", "READ_WRITE", "READ_WRITE", "IDLE">>

rw_full ==
  <<"WRITE", "WRITE", "WRITE", "WRITE", "IDLE",
    "READ_WRITE", "READ_WRITE", "READ_WRITE", "IDLE",
    "READ", "READ", "READ", "READ", "READ">>

firstn == <<"WRITE", "READ", "IDLE", "READ_WRITE", "IDLE">>

slastn == <<"WRITE", "WRITE", "IDLE", "WRITE", "READ", "IDLE", "READ_WRITE">>

lastn ==
  <<"WRITE", "WRITE", "WRITE", "IDLE", "WRITE", "READ", "IDLE",
    "READ_WRITE">>

clr == <<"WRITE", "CLEAR", "IDLE", "READ", "WRITE">>

clr_read == <<"WRITE", "CLEAR_READ", "READ", "WRITE">>

clr_write == <<"WRITE", "CLEAR_WRITE", "READ", "WRITE">>

clr_rw == <<"WRITE", "CLEAR_READ_WRITE", "READ", "WRITE">>

(* The tests by their names; base_test itself sends nothing. *)
Operations ==
  [base_test |-> <<>>,
   single_rnw |-> single_rnw,
   multiple_rnw |-> multiple_rnw,
   single_rw |-> single_rw,
   multiple_rw |-> multiple_rw,
   read_empty |-> read_empty,
   write_full |-> write_full,
   rw_empty |-> rw_empty,
   rw_full |-> rw_full,
   firstn |-> firstn,
   slastn |-> slastn,
   lastn |-> lastn,
   clr |-> clr,
   clr_read |-> clr_read,
   clr_write |-> clr_write,
   clr_rw |-> clr_rw]

(* tx.randomize: a sequence of requests that the test may send *)
IsDraw(requests, name) ==
  /\ Len(requests) = Len(Operations[name])
  /\ \A i \in 1 .. Len(requests) : requests[i].ctl = Controls[Operations[name][i]]

-----------------------------------------------------------------------------
(* These end without an error, and only because of what they do not do:     *)
(* base_test sends nothing, single_rw stays clear of both ends and of the   *)
(* end of the memory, and read_empty hides that rd_ptr has moved because    *)
(* scb_fifo.sv line 113 does not compare the data of an empty FIFO.         *)
SilentTests == {"base_test", "single_rw", "read_empty"}

(* These see that rd_ptr has moved only by the word that rtl/fifo.v line    *)
(* 308 stores during their CLEAR_WRITE, their second request.  It is shown  *)
(* instead of the word that the fourth one writes.                          *)
TestsOfTheDraw == {"clr_write", "clr_rw"}

EndsSilently(requests, name) ==
  \/ name \in SilentTests
  \/ name \in TestsOfTheDraw /\ requests[2].Data_In = requests[4].Data_In
=============================================================================
