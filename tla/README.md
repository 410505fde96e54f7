# A verified model of the FWFT FIFO and its verification environment

The repository holds a four-word first-word fall-through (FWFT) FIFO in Verilog,
a class-based SystemVerilog environment that drives and checks it, and sixteen
directed tests. The TLA+ modules in this directory model all three: the RTL, the
reference model it is compared with, and the processes, mailboxes and clocking
that make the comparison. TLC checks them on small instances, and TLAPS proves the
safety properties, of the RTL, of its users and of the simulation, for every
depth, register width, word set, traffic, test and order of the processes.

The RTL does not implement its reference model: most directed tests end with
errors. So the question this project answers is not *whether* the two agree but
*for which traffic*, and every property is stated for exactly the traffic under
which it holds. Three answers are short enough to remember:

- A user who **counts** gets a FIFO: as long as no read exceeds the words stored
  and no word is stored past the end of the memory (four words between two
  clears), the pointers and the memory hold exactly the words of the reference
  model that takes the same requests, clears and resets. The flags must be ignored.
- A user who **obeys** `F_EmptyN` and `F_FullN` never underflows and never
  overflows, and the counter and the upper three flags stay exact for ever. But
  `F_EmptyN` reports empty after any read without a write, so words can be
  stranded until the next write or clear, and from the fifth word after a clear
  on the words themselves are lost.
- A user who **tests** cannot overlook this: no test that reads back a stored word
  passes, whatever it does before, at any depth. A test that passes has not looked.

## 1. Inventory

| component | source | state | operations |
|---|---|---|---|
| FIFO RTL | `rtl/fifo.v` `fifo` | `fcounter`, `rd_ptr`, `wr_ptr`, five registered flags | rising clock edge with clear / write / read; falling reset |
| memory block | `rtl/fifo.v` `FIFO_MEM_BLK` | array `FIFO` | write on the edge, combinational read |
| reference model | `component/fifo_model.sv` | queue `model_q` | `predict` |
| scoreboard | `component/scb_fifo.sv` | three counters, `completed` | `run`, `check`, `compare` |
| generator | `component/gen_fifo.sv`, `fifo_pkg.sv`, `trans_fifo.sv` | queue of requests, `num_trans` | `send`, `run` |
| driver | `component/driver_fifo.sv` | the request in hand | `run`: initial values, get, edge, drive |
| monitor | `component/monitor_fifo.sv` | samples left to take | `run`: skip an edge, get the count, sample, end marker |
| interface, environment | `component/inf_fifo.sv`, `env_fifo.sv` | the pins, clocking blocks, three mailboxes | `build`, `run` |
| top level | `testbench/tb_top_fifo.sv` | clock, reset, test | reset, delay, choice of the test, wait, summary, `$finish` |
| directed tests | `testbench/*.sv` | none | a sequence of `send` |
| scripts | `sim/makefile`, `*.f` | none | build and run |
| simulator output | `sim/csrc`, `sim/simv.daidir`, ... | | generated by VCS and Verdi |

**How they interact.** `tb_top_fifo` resets the RTL, waits, makes the test named
by `+TESTNAME` and forks four processes. The generator puts all requests into one
mailbox, then their number into another. The driver takes one request per clock
period and drives it 1 ns after the edge. The monitor skips one edge, reads the
number and samples so many edges, inputs and outputs together, into a third
mailbox that it closes with `null`. The scoreboard hands every sample to the
reference model, compares, and stops at the `null`; `tb_top_fifo` waits for that
and finishes the simulation.

**What is hard.**

- Six `always` blocks update registers that the other blocks read. Each flag is
  set from another flag on the way down and from `fcounter` on the way up, so one
  wrong value is handed on, and it takes several requests to see it.
- The pointers move on *every* request, are 32 bits wide where two would do, and
  the memory is never told that the FIFO is full.
- At an edge three processes run in an order the simulator chooses, and the
  driver is already a request ahead of the monitor.
- Every process waits for another without a timeout.
- The scoreboard does not look at the data of an empty FIFO, which hides a wrong
  pointer until the next write.

`PROJECT.json` lists each of these hazards with its line and its properties.

**What makes each part correct.** The RTL and the memory: flags and counter equal
the occupancy, words come out whole and in order, nothing is overwritten. The
environment: every request is sampled and checked once, in order, in the cycle in
which the RTL took it; the end is always reached; errors are reported exactly in
cycles that deserve them. The tests: what a passing run says about the RTL.

## 2. Modules

```
FifoMemBlk                             one instance in the RTL
FifoRtl          uses FifoMemBlk       the device under test
FifoModel                              what it promises
FifoCheck        FifoRtl + FifoModel   both in lockstep, any traffic
  FifoCheckProofs                      proofs (TLAPS)
  FifoClaims                           what the documentation says
  MCFifoCheck                          for TLC
FifoCounting     FifoRtl + FifoModel   the RTL for a user who counts the words
  FifoCountingProofs                   proofs (TLAPS)
FifoUser         FifoRtl               the RTL for a user who obeys the flags
  FifoUserProofs                       proofs (TLAPS)
FifoTransactions FifoRtl + requests    what a test can send
FifoTests        FifoTransactions      the tests of the repository
FifoSerial       FifoCheck + a test    its requests, one after the other
  FifoSerialProofs                     proofs (TLAPS), use those of FifoCheck
  FifoTestsProofs                      proofs (TLAPS) about the repository's tests
FifoBench        FifoRtl + processes   the simulation, implements FifoSerial
  FifoBenchProofs                      proofs (TLAPS), use those of FifoSerial
FifoTestBench    FifoBench + FifoTests the repository's tests in the simulation
  FifoTestBenchProofs                  proofs (TLAPS), use all of these
  MCFifoBench                          for TLC
```

| module | models | how |
|---|---|---|
| `FifoMemBlk` | `FIFO_MEM_BLK` | `data_out` is the `assign`, `MemPosedge` the `always` block. Addresses have the width of the data, so one outside the array is possible: the write is lost, the read gives `X`. |
| `FifoRtl` | module `fifo` | One operator per `always` block (`Control`, `EmptyFlag`, `FirstFlag`, `SLastFlag`, `LastFlag`, `FullFlag`). Nonblocking assignments read the values before the edge, so an edge is the *conjunction* of the blocks. `PosedgeClk`, `NegedgeRstN` and `PosedgeRstN` are the events. |
| `FifoModel` | `fifo_model` | `NextQ` is the queue after `predict`, `Expected` the transaction it returns. They are what the repository says a FIFO promises. |
| `FifoCheck` | RTL, model and comparison in lockstep | `Cycle`: both take the same inputs on an edge and `compare` gives the verdict. Reset may fall between any two edges. |
| `FifoTransactions` | `trans_fifo`, the `case` of `send`, the choice of the test | `Controls` are the active-low inputs of the eight operations; a test is a sequence of requests with a name (`Script`). |
| `FifoSerial` | what a test means | `CheckRequest`: the next request of the test in one `Cycle` of `FifoCheck`, and the scoreboard's count of mismatches. No processes. |
| `FifoBench` | the simulation | the generator, driver, monitor and scoreboard as processes; mailboxes as sequences; pins and output skew. |
| `FifoCounting` | the RTL and `predict`, and a user who counts | `Edge` gives the same request to `PosedgeClk` and to `Predict`; `CountingRequest` is an `Edge` under the user's discipline; `queue` reads the words out of the memory. |
| `FifoUser` | the RTL alone, and a user who obeys | `ObedientRequest` is `PosedgeClk` under the user's discipline. |
| `FifoTests` | `testbench/*.sv` | what each test sends. `IsDraw`: a sequence of requests that a test may have drawn; `EndsSilently`: the tests and draws that end without an error. |
| `FifoTestBench` | the tests in the simulation | their verdict; for TLC two draws of each, with words that are all different or all equal. |
| `FifoClaims` | sentences of the README and comments | see section 5. |
| `MC...` | | bounds and input sets for TLC. |

**Abstraction of the width.** `FMOD` is the number of values of a `FWIDTH`-bit
register, 2^32 in the code. All arithmetic is modulo `FMOD`. The runs use 6, 8, 10
or 16, so that a wrap-around, which takes 2^32 requests in the code, happens; the
proofs hold for every `FMOD`. The 32-bit data is a set `Data` of words that are
only stored and compared.

**Kinds of traffic.** `FifoCheck` accepts arbitrary requests and has a history
variable `seen` with the kinds of traffic since the last clear or reset that the
monitor sampled. No action depends on it. A property is `Avoided(K) => P`: as
long as no traffic of the kinds `K` has occurred, `P` holds. The kinds are:

| kind | what happened |
|---|---|
| `Read` | a read (without write) of a stored word |
| `ReadOnEmpty` | a read (without write) of an empty FIFO |
| `WriteAfterRead` | a word stored after a `Read` |
| `ReplaceOnEmpty`, `ReplaceOnFull` | a simultaneous read and write of an empty or a full FIFO |
| `PastEnd` | a word stored after `FDEPTH` write requests |
| `PointerWrap` | `wr_ptr` wraps around at `FMOD` |
| `UnseenReset` | a reset that no clock edge has sampled yet |

Which part of the RTL each one upsets:

| | counter | `F_EmptyN`, `F_FirstN` | `F_SLastN`, `F_LastN`, `F_FullN` | data |
|---|---|---|---|---|
| `Read` | can go wrong | can go wrong | right until `WriteAfterRead` | right |
| `ReadOnEmpty` | right | right | right | can go wrong |
| `ReplaceOnEmpty` | can go wrong | wrong at once | can go wrong | right |
| `ReplaceOnFull` | can go wrong | right | wrong at once | right |
| `PastEnd`, `PointerWrap` | right | right | right | can go wrong |

The entries "right" of the columns are what `FlagsShowOccupancy`,
`UpperFlagsShowOccupancy` and `DataInOrder` say (of `F_EmptyN` and `F_FirstN`
after a `ReplaceOnFull` only in TLC's experiments). The properties are as strong as
they can be in this vocabulary: TLC finds each of them violated as soon as any one
of the kinds it avoids is allowed. Some of the claims of section 5 are such cases.

**The simulation.** A simulator runs every process that is not blocked, in any
order, before it advances time. In `FifoBench`, `Quiet` says that all processes
are blocked, and only then may the clock (`Edge`) or the 1 ns of the driver's
output skew (`SkewElapsed`) happen. Of the clock period only this much is kept:
`phase = "edge"` is the instant of a rising edge, `phase = "rest"` the time from
1 ns after it to the next, where the falling edge is.

- The monitor's clocking block has input skew `#0`: it sees the outputs after the
  registers have changed (`observed` reads the current state) and the inputs
  before the driver's new values arrive.
- The driver's clocking block has output skew `#1`: `DrvDrive` only schedules.
  A drive executed between two edges, as the initial values are, takes effect
  after the next edge, unless another replaces it (`DrvInitial`, `DrvDrive`).
- The pins are idle from time 0 on (`tb_top_fifo.sv` 42-44); nobody has driven
  `Data_In` then.
- Without `+TESTNAME` the branch of `tb_top_fifo.sv` 48-50 makes no test and
  `test.build()` dereferences null, which stops the simulation (`NullTest`).
- The reset is released on a falling edge and the test starts on a falling edge,
  100 ns later. In between there may be any number of idle cycles: the length of
  the delay is abstracted.

**Variants.** Some definitions are preceded by one with a suffix (`Dec_NoWrap`,
`MonEnd_NoMarker`, ...) and the comment "Variant". It is the definition with a
plausible mistake in it and is used nowhere: put in the place of the right
definition, it makes the property that `PROJECT.json` pairs it with fail, which
shows that the property can fail.

## 3. Runs

| run | module, instance | states | shows |
|---|---|---|---|
| `any_traffic` | `MCFifoCheck`, depth 4, `FMOD` 8, one word, all traffic | 361 k | types; flags and counter |
| `data_path` | `MCFifoCheck`, depth 4, `FMOD` 6, two words, three kinds of traffic between clears | 455 k | data; the scoreboard's verdict |
| `any_test` | `MCFifoBench`, every test of up to three requests, every directed test, and none | 213 k | the environment, refinement, termination, the verdict of each directed test |
| `counting_user` | `FifoCounting`, depth 4, `FMOD` 10, two words | 1.9 k | the RTL holds the words of the reference model |
| `obedient_user` | `FifoUser`, depth 4, `FMOD` 10, two words | 1.5 k | what the flags are good for |
| `claim_...` | `FifoClaims`, `FifoTestBench` | | sentences the code contradicts |

**`any_traffic`** has no bound on the traffic. The state is finite because the
registers are, and with `FMOD = 8` pointers pass the end of the memory, the
counter passes zero downwards and everything wraps around. One word suffices:
flags, counter and write pointer do not depend on the data (no word is in a
condition).

- `TypeOK`.
- `FlagsShowOccupancy`: counter and all five flags are right as long as no word
  was read without a write and no read-and-write met an empty or full FIFO.
- `UpperFlagsShowOccupancy`: the upper three are right through filling and
  draining, although the counter and the lower two are wrong by then.
- `FullIsPastEnd`: a FIFO that reports full has its write pointer outside the
  memory, under any traffic at all. This is why an overfilling write overwrites
  nothing although neither the pointer nor the memory looks at `F_FullN`.
- `FlagsConsistent`: full is never empty, and `F_FirstN` is implied by every
  other sign of a filled FIFO, under any traffic at all.
- `UpsetIsReported`: the converse of `FlagsShowOccupancy`. The first read of a
  stored word, or read-and-write at an end, fails the comparison of the very cycle
  that takes it, whatever came before it (but for a reset that no edge has sampled).

**`data_path`** needs two words, since an exchange of two words must be visible.
`FMOD = 6` keeps two addresses outside the memory and lets the pointer wrap
around. `FewKinds` bounds the number of kinds mixed between two clears to three:
`DataInOrder` excludes three of the seven that requests can be, so the constraint
cuts behaviours with four or more. The proof has no such bound.

- `DataInOrder`: words come out whole and in order whatever the flags say, if no
  read met an empty FIFO and no word was stored past the end of the memory.
- `CleanTrafficMatches`: with no traffic of any kind above (fill, idle, overfill,
  replace, clear), the scoreboard reports no error.

**`any_test`** runs every sequence of at most three of the eight operations with
two words, the directed tests of the repository with two draws of their words, and
the simulation without a test, in every order of the processes. Three requests
cover the first, a middle and the last request, each of which the handshake between
driver and monitor treats differently; none (an empty test) is included. The
directed tests, of up to 14 requests, add what three requests cannot reach: a full
FIFO, the end of the memory. `FMOD = 16` suffices since no test sends 16 requests
of one sort.

- `MonitorSeesWhatIsSent`: what the monitor hands to the scoreboard next is what
  the generator sent next, although the driver already drives the one after it.
- `SummaryComplete`: when the summary is printed every request has been checked
  and counted once and no mailbox holds anything.
- `ErrorsHaveACause`: an error is counted only after traffic of a listed kind.
- `ChecksEveryCycle`: the environment **implements** `FifoCheck`. The refinement
  mapping is the identity but for the scoreboard: between an edge and the
  scoreboard's turn an observation is in the monitor or in a mailbox
  (`unchecked`), and the abstract scoreboard has already checked it
  (`model_q_after`, `matched_after`). So `Edge` is the abstract `Cycle`, all
  process steps stutter, and everything proved of `FifoCheck` holds in the
  simulation. A cycle that is not checked (before the first request, and before
  the monitor starts) must leave RTL and model as they are.
- `Terminates`: every test ends with the summary; without a test the simulation
  stops at the null reference, and in no other way.

- `TakesItsSteps`: a test of n requests is over after exactly 7 (n + 1) steps of
  the processes and the clock, in whatever order they are taken. `steps_left` counts
  what each process still has to do; every step of the running test takes one away,
  and none is left when the simulation finishes. So there is no state in which
  everyone waits (a clock step would then take nothing away) and no step is repeated.
  This is `Terminates` without the assumption that time passes.
- `RunsTheTest`: the simulation **implements** `FifoSerial`, by the same mapping as
  for `ChecksEveryCycle` and with the counters as the scoreboard will have them. The
  outcome of a test is that of its requests taken one after the other; it depends on
  no schedule.
- `PassingTestsNeverRead`: as long as no error is counted, no stored word was read
  without a write and none was replaced at an end.
- `VerdictOfTests` says which directed tests end without an error, for any draw and
  any schedule: `base_test`, which sends nothing, `single_rw`, which only replaces
  words inside the memory, and `read_empty`, which does move `rd_ptr` but ends before
  a word is written. All others report errors, two of them depending on what
  `tx.randomize` draws: the only error of `clr_write` and `clr_rw` is that a read of
  the emptied FIFO has moved `rd_ptr` to the cell that the memory wrote *during* the
  clear (`fifo.v` 308 knows no clear), so the word shown is another one, but it may
  have the same value. TLC runs each test with words that are all different and words
  that are all equal; the proof is about every draw.

**`counting_user`** and **`obedient_user`** ask what a user can rely on.
`Counts` lets a request through if it reads a word that is there, or writes inside
the memory, or is a write the reference model ignores; `Obeys` looks only at the
flags. `FMOD = 10` gives the pointers six addresses outside the memory to run
through and wrap around.

- `ImplementsModel`: the words in the memory (`queue`) are those of the reference
  model that takes the same `FClrN`, `FInN`, `FOutN` and `Data_In` at every edge, and
  `F_Data` shows the oldest. This is data refinement, stated as an invariant of both
  in lockstep: `predict`'s queue operations on one side, an array and two pointers on
  the other. The model is in the state and not hidden behind a quantifier over
  requests, so an RTL that drops a write, ignores a read, stores another word or keeps
  one on a reset differs from it at that step; the two mutants are of these kinds.
  A reset empties the model when it falls (`Reset`), which is what README 56 promises,
  and not when the monitor samples it, as in `FifoCheck`. `Counts` is about what the
  user knows, `model_q` and the number of writes, and about no register that a wrong
  RTL would have wrong too; `wr_ptr`, which moves on every write, stands for that
  number.
- `CounterIsExact`: `fcounter` is the distance of the pointers and the upper flags
  are its values, also long after the pointers have left the memory. `Obeys` is
  needed: without it TLC finds a violation within a few requests.
- `NeverMisled`: `F_EmptyN` deasserted means there is a word to read, `F_FullN`
  deasserted that there is a free cell (of a memory that the pointers would wrap
  around in). `F_EmptyN` *asserted* means nothing.

`CHECK_DEADLOCK FALSE` is set where the specification is that of the simulation,
which stops at `$finish`.

**Fairness.** `BenchSpec` assumes weak fairness of every process step (a simulator
runs every ready process before time advances), weak fairness of `Edge` and
`SkewElapsed` (`forever #5 Clk = ~Clk` never stops) and strong fairness of
`ReleaseReset`, `StartTest` and `NullTest`: they happen at a given time, between two edges,
while the clock runs on, so they are enabled again and again but not
continuously. Nothing is assumed of mailboxes but that they are unbounded queues,
which `new()` makes them.

## 4. Proofs

`FifoCheckProofs` proves every property of the runs `any_traffic` and `data_path`
for `CheckSpec`, that is for arbitrary traffic and resets at arbitrary times.
Assumed of the constants is `RtlAssumption` (`FDEPTH >= 3`, which the code's
`FDEPTH - 3` needs, `FMOD > FDEPTH`, and that `X` is no word); `FullPastEnd` needs
`FMOD >= 2 * FDEPTH - 4` besides. The code (4 and 2^32) satisfies both.

| theorem | property | argument |
|---|---|---|
| `Typing` | `TypeOK` | inductive; lemmas on `Inc`, `Dec` and on the lengths of the queue |
| `FlagsExclude` | `FlagsConsistent` | inductive with the types |
| `FlagsShow` | `FlagsShowOccupancy` | inductive with the types |
| `UpperFlagsShow` | `UpperFlagsShowOccupancy` | `UpperInv` adds that a FIFO from which a word was read is not full; before the first read the flags and the counter are right by `FlagsShowOccupancy` |
| `InOrder` | `DataInOrder` | `DataInv`: the queue is *laid out* in the memory. Its k-th word is k-1 cells after `rd_ptr`, all inside the array, and the write pointer is just behind the last (`Laid`; lemmas `StoreLaid` and `DropLaid` for one more and one less) |
| `CleanMatches` | `CleanTrafficMatches` | the flags and the data after the edge are right by the two invariants, which is what `compare` compares |
| `UpsetsAreReported` | `UpsetIsReported` | until then the flags are right (`FlagsShowOccupancy`), so it is known what that cycle makes of them: a read asserts `F_EmptyN` and leaves `F_FirstN` asserted, and one of the two is wrong; a replacement at an end deasserts the flag of that end (`UpsetStep`) |
| `FullPastEnd` | `FullIsPastEnd` | `PastEndInv`: until the write pointer wraps around, the counter is at most `wr_ptr` or has passed zero downwards, at the price of a write for each time `F_EmptyN` was deasserted; `F_LastN` takes `FDEPTH - 1` writes and `F_FullN` `FDEPTH` |

`PushedProperties`, `PoppedProperties` and `ReplacedProperties` say what the
reference model does to a queue; `CycleClears`, `CycleRuns` and `CycleOccupancy`
say what an edge does. Every step lemma has one step per action and, below it,
the cases the action distinguishes.

`FifoCountingProofs` and `FifoUserProofs` prove the properties of `FifoCounting` and
`FifoUser` from the same assumption.

| theorem | property | argument |
|---|---|---|
| `CountingImplements` | `ImplementsModel` | `CountingInv`: besides `queue = model_q`, all cells from `rd_ptr` to `wr_ptr` that are inside the memory hold words (`Stored`); then a write appends to `queue` (`StoreAppends`) and a read drops its head (`ReadDrops`), which is what `Pushed`, `Popped` and `Replaced` do for the same request (`CountingRequestStep`); a clear or a reset empties it (`Cleared`) |
| `ObedientCounter` | `CounterIsExact` | `ObedientInv` adds that a FIFO that is not reported empty holds a word and has `F_FirstN` asserted |
| `ObedientNeverMisled` | `NeverMisled` | from the same invariant |

`FifoSerialProofs` and `FifoTestsProofs` prove what tests can show, from the same
assumption and `TestsAssumption`: tests are sequences of requests, and "no name" is
not the name of one.

| theorem | property | argument |
|---|---|---|
| `SerialImplementsCheck` | | every request is an input of `Cycle`; no reset is unseen, since it is only released |
| `PassingTestsAreGentle` | | from `UpsetsAreReported`: the request that would upset the flags is counted as an error, and errors only grow |
| `Verdicts` | | see below |

The tests fall into groups, by their shape and not by their words or the depth of the
FIFO (`TestsWriteThenRead` and the other shape lemmas expand the sequences once; the
rest is about shapes). Each group has an invariant over the requests taken so far.

- *Write first, never clear, and read* (seven tests): `NeverReads`. Such a test fails at
  the read at the latest, by `PassingTestsAreGentle`, since the FIFO has held a word since
  its first request.
- *Replace first* (`rw_empty`): `FailsAtOnce`.
- *Replace on and on* (`multiple_rw`): `StaysInMemory`. As long as it passes, `rd_ptr` is
  the number of replacements, so that the `FDEPTH`-th shows a cell outside the memory. This
  is the one group that needs the depth, and the reason for the hypothesis `FDEPTH <= 5`: in
  a deeper FIFO the five replacements of the test stay inside.
- *Clear, read the emptied FIFO, write* (four tests): `ShowsSecondWord`. What is shown is the
  word that the memory stored during the clear, or none.
- *The silent ones*: `StaysClean` for `single_rw`, `StaysEmpty` for `read_empty`.

`FifoBenchProofs` proves every safety property of the simulation for every set of
tests, whatever they send, and every order of the processes. Assumed besides
`RtlAssumption` are `TestsAssumption` and `BenchAssumption`: `null` is not a
transaction.

None of the properties is inductive. `BenchInv` says where every process is in the
test, in five counts that are all positions in `sent`: `put` by the generator,
`gotten` by the driver, `driven` to the pins' schedule, `edges` since the start and
`sampled` by the monitor. What is left in the generator's queue and its mailbox are
the last requests (`GenInv`); the driver has driven one request per edge and holds
the next (`DrvInv`); the pins are one request behind until the skew has elapsed
(`PinsInv`); between edges the monitor only waits for one (`MonInv`); at most one
observation is unchecked, and it is that of the present edge (`ScbInv`); before the
release of the reset the registers are at their reset values (`StageInv`). There is
one lemma per action (`GenPutStep` ... `SkewElapsedStep`), and frame lemmas
(`GenKept`, `DrvKept`, ...) say which parts an action leaves alone.

| theorem | property | argument |
|---|---|---|
| `BenchInvariant` | | `BenchInv` and the types of `FifoSerial` under the mapping, together: the types need the refinement of the step, which needs `BenchInv` |
| `BenchImplementsSerial` | `RunsTheTest` | `SerialStepHolds`: an edge at which the monitor waits is a `CheckRequest` (`SampledEdge`), any other is idle (`IdleEdge`), and the other steps only move the observation or check the one that counts as checked |
| `BenchImplementsCheck` | `ChecksEveryCycle` | a step of `FifoSerial` is one of `FifoCheck` |
| `PassingTests` | `PassingTestsNeverRead` | `PassingTestsAreGentle`, carried over by the refinement |
| `TestsTakeTheirSteps` | `TakesItsSteps` | `StepCounts`: each action changes one of the counts that make up `steps_left`, and the others not; at an edge the monitor waits for the clock (`QuietFacts`), so that the edge is one of those that were left. `StepsAreLeft`: none is left exactly at the end |
| `MonitorSees` | `MonitorSeesWhatIsSent` | `edges` and `sampled` differ by what the state of the monitor says, so the pins hold `sent[check_count + 1]` |
| `SummaryIsComplete` | `SummaryComplete` | at the end `sampled` is the length of the test, so nothing can be left before it |
| `BenchTyping` | `BenchTypeOK` | the parts of `BenchInv` |
| `CountedErrorsHaveACause` | `ErrorsHaveACause` | `CleanMatches` of `FifoCheckProofs`, carried over by the refinement: the verdict counted is the one the abstract check gave |

`FifoTestBenchProofs` puts the last two together.

| theorem | property | argument |
|---|---|---|
| `VerdictsOfTests` | `VerdictOfTests` | `Verdicts`, carried over by the refinement: at the end nothing is unchecked, so the abstract counters are those of the scoreboard (`NothingUncheckedAtTheEnd`). `FDEPTH <= 5` as there; the code has 4 |

**Model-checked only.** `Terminates`, since liveness under fairness is out of the
prover's reach. What is proved of it is `TakesItsSteps`; what remains is that a next
step is taken at all, which is the fairness of the simulator, and that the reset is
released and the test started. The claims are counterexamples and need no proof.

## 5. Where the code and its documentation disagree

Each claim is checked under exactly the traffic that its sentence speaks of.

| run | the sentence | the code |
|---|---|---|
| `claim_firstn_table` | README 37, 46: `F_FirstN` is 1 when the FIFO is empty | after the last word is read it stays 0: line 190 assigns 0 where it should deassert |
| `claim_emptyn_count` | `fifo.v` 143, 145: the flags depend on `fcounter`, zero is empty | line 162 looks at `F_FirstN`: two writes and one read report empty |
| `claim_read_empty` | README 58: a read is ignored when empty | `rd_ptr` moves, the next word is not shown |
| `claim_rw_empty` | README 60: a read and write while empty is a no-op | `F_EmptyN` is deasserted |
| `claim_rw_full` | README 59: a read and write leaves the occupancy | on a full FIFO `F_FullN` is deasserted |
| `claim_rw_data` | README 59: the oldest word is replaced | the fifth word since a clear is written outside the memory |
| `claim_test_name` | makefile 56: `make run TESTNAME=write_only_test` | no such test; a `base_test` runs and reports no errors |

Two sentences need no run. The comment at `fifo.v` 172 has `F_FirstN` mean that
there is exactly one word, the README (37) at least one; the RTL follows the README.
The README (176) says that the monitor records the reset so that the model resets
when required: it records it at edges, so a reset between two edges empties only the
RTL. This is the kind `UnseenReset`, which every property of
`FifoCheck` that compares the two has to avoid. The tests cannot meet it, since
`tb_top_fifo` resets at the start only, and README 178 leaves other resets out of the
test plan: it bounds what the model of the check says and is no hazard of this code.

## 6. Not modelled

- `sim/csrc` and `sim/vc_hdrs.h`: C that VCS generated while compiling the sources
  above. It consists of stubs for the simulator's programming interface, tables
  and type definitions of its scheduler; the behaviour of the design and of the
  testbench is not in it but in the Verilog and SystemVerilog files, which are
  modelled completely. The order in which that scheduler may run processes is
  part of `FifoBench` (`Quiet` and the absence of any other order).
- Printing (`display_transaction`, `print_summary`), the waveform dump, the
  scripts, and what the simulators generated.
- `random_t` and the manual data argument of `send`: a word is any member of
  `Data`.
- Glitches and X on the controls: `tb_top_fifo` sets all controls at time 0, and
  the driver drives known values.

## 7. Plan

Done: all parts of the design and of the testbench, their composition, the
refinements (the simulation implements the serial run of its test, which implements
the lockstep check; for a user who counts the RTL holds the words of the reference model),
termination, and proofs of every safety and step property that the runs check.

What could follow when the RTL changes:

1. With the pointers declared `FCWIDTH` wide, `FMOD = FDEPTH` for the pointers:
   `PastEnd` and `PointerWrap` disappear from `DataInOrder`, and `queue` of
   `FifoCounting` goes around the end of the memory.
2. With line 190 corrected, `F_EmptyN` and `F_FirstN` join `CounterIsExact`, and
   an obedient user's FIFO implements `FifoModel` with its flags.
3. With mid-test resets in the test plan, a monitor that notices a falling
   `Rst_N` and the removal of `UnseenReset`.
