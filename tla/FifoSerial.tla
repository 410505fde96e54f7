----------------------------- MODULE FifoSerial -----------------------------
(***************************************************************************)
(* What running a test means: its requests are taken one after the other,  *)
(* each in one clock cycle of FifoCheck, and the mismatches are counted.   *)
(* There are no processes, no mailboxes and no skews, so that a test has   *)
(* one outcome.  FifoBench implements this specification.                  *)
(***************************************************************************)
EXTENDS FifoCheck, FifoTransactions

VARIABLES
  test,      (* the name of the test                  *)
  checked,   (* check_count: requests taken so far    *)
  errors     (* error_count: of these, how many       *)
             (* the scoreboard reported               *)

serialVars == <<vars, test, checked, errors>>

SerialInit ==
  /\ CheckInit
  /\ test \in TESTNAMES \union {NoName}
  /\ checked = 0 /\ errors = 0

StartTest ==
  /\ ReleaseReset
  /\ UNCHANGED <<test, checked, errors>>

CheckRequest ==
  /\ RstN = 1 /\ checked < Len(Script(test))
  /\ LET tx == Script(test)[checked + 1]
     IN  Cycle(tx.ctl.FClrN, tx.ctl.FInN, tx.ctl.FOutN, tx.Data_In)
  /\ checked' = checked + 1
  /\ errors' = IF matched' THEN errors ELSE errors + 1
  /\ UNCHANGED test

SerialNext == StartTest \/ CheckRequest

SerialSpec == SerialInit /\ [][SerialNext]_serialVars
=============================================================================
