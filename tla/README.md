# Verification of the TIMBER-V machine-mode monitor and its tests

The repository builds bare-metal RISC-V test programs (`tests/mpu_basic`,
`tests/mpu_tag`) around a machine-mode monitor derived from the RISC-V proxy
kernel (`machine/`). The monitor boots the harts, serves SBI calls of the lower
modes, talks to the host over HTIF, and provides the fault harness with which the
tests check the memory-protection and tag extension. This directory models that
code in TLA+, checks the models with TLC on small instances and proves the central
properties with TLAPS. Paths below are relative to the repository's root.

## Inventory

| Component | State it keeps | Operations | Interacts with |
|---|---|---|---|
| Inter-processor interrupts (`machine/mtrap.c`, `machine/mentry.S`) | `mipi_pending` and the CLINT register `ipi` of every hart; locals of `send_ipi_many` | `SBI_SEND_IPI`, `SBI_REMOTE_*`, `SBI_CLEAR_IPI`, software-interrupt handler | shared memory and interrupts between harts |
| Timer (`machine/mtrap.c`, `machine/mentry.S`) | `timecmp`, `mie.MTIE`, `mip.STIP` | `SBI_SET_TIMER`, timer interrupt | CLINT |
| HTIF, console and locks (`machine/htif.c`, `machine/atomic.h`, `user/frontend.c`) | `tohost`, `fromhost`, `htif_console_buf`, `htif_lock`, `magic_mem` | console put and get, system call, poweroff | the host, through two shared words |
| Boot (`machine/mentry.S`, `machine/minit.c`) | hart-local storage, `hart_mask`, `disabled_hart_mask` | `do_reset`, `init_first_hart`, `wake_harts`, `init_other_hart` | all harts |
| Trap entry (`machine/mentry.S`, `machine/mtrap.c`, `machine/minit.c`) | `mscratch`, `sp`, frames on the machine stack | trap entry and exit, nested traps, `redirect_trap`, `enter_mode` | every handler |
| Fault harness (`machine/test.h`, `machine/test.c`, `machine/mtrap.c`) | `expected_fault`, `current_test` | `TEST_FAULT_ASM`, `test_fault`, `ASSERT` | the trap path |
| Tag and PMP tests (`tests/`, `machine/tag.c`, `machine/pmp.h`) | PMP slots, memory tags, `ststatus`, `current_usertest` | the suites, the 19 user tests re-entered through `SBI_USERTEST` | the extension under test (external) |
| Device tree (`machine/fdt.c`) | scan stack, `hart_mask`, pointers of the hart-local storage, `mem_size` | `fdt_scan` and the per-device callbacks | boot |
| Instruction emulation (`machine/emulation.c`, `machine/muldiv_emulation.c`, `machine/fp_*.c`) | registers in the trap frame, FCSR | decoding, CSR access, multiplication, floating point | trap path, SoftFloat; unreachable in this tree |
| UART, finisher, PLIC (`machine/uart.c`, `machine/finisher.c`, `machine/minit.c`) | device registers | put, get, exit, enables | device tree |
| Printing and strings (`util/`) | none | `vsnprintf`, string functions | everything that prints |
| SoftFloat (`softfloat/`, vendored) | exception flags, rounding mode | arithmetic, conversions | floating-point emulation |

How they interact. A reset hart runs `do_reset`; the first unmasked one reads the
device tree, fills in the hart-local storage at the top of every hart's machine
stack and wakes the others. It then runs `m_test_main`, which enters S-mode with
`enter_mode`; the tests in S and U mode come back by `ecall` (SBI calls, including
`SBI_USERTEST` to start the next test) and by the faults they provoke, which
`test_fault` compares with `expected_fault`. All output goes through `printm` to
`htif_console_putchar`, also from the lower modes, which share the monitor's code
and data.

What is hard about them:

* concurrency: the IPI and HTIF protocols run on several harts without a common
  lock, at the grain of loads, stores and AMOs (`Ipi`, `Htif`, `Boot`);
* ordering: answers of the host arrive at any time, an MSIP write is seen later by
  its target, a CLINT may lag behind its comparator (`Htif`, `Ipi`, `Timer`);
* waiting: every wait is a loop with interrupts disabled, so two harts that wait
  for each other must serve each other (`Ipi`), and a host or a hart that does not
  answer blocks the rest;
* nested control: traps inside trap handlers on one stack, handlers that never
  return, two ways out of each (`Trap`);
* protocols over global state: `expected_fault`, and tests that build upon the PMP
  slots and tags left by earlier ones.

What makes each component correct is stated with its module below; for those not
modelled yet, in the plan.

## Modules

Each model file opens with the code it models; `PROJECT.json` maps every definition
to its lines. `M_...` operators are mutated forms of the definition they precede and
are used by no specification; they document which bug a property catches. Properties in
*italics* are proved by TLAPS and not listed in a run (see Proofs).

### Ipi, RemoteFence

`Ipi` is `send_ipi`, `send_ipi_many` and the software-interrupt path of
`trap_vector`, one action per access to shared memory: `Post` (the AMO on
`mipi_pending`), `Raise` (the store to `ipi`), `Poll` and `SwapOwn` (the waiting
loop), `ReturnFence` (which restores a consumed interrupt), `IrqClear`, `IrqTake`,
`IrqRun` (the handler), `Propagate` (the delay between a store to `ipi` and
`mip.MSIP` on the target). Harts outside `Running` boot and stay in
`boot_other_hart`, as in this tree. The mask a caller passes is arbitrary.

* `EventNotLost`: a posted event always has something that makes its target look.
* `NoStaleExecution`: no hart runs lower-mode code with the fence of a returned call
  still to run. The history variables `owed` and `promised` record calls; no action
  reads them.
* `RemoteFence` states the same as an abstract machine: a call is pending on its
  targets, and may return when each of them has run the fence or will before it runs
  lower-mode code again. `KeepsPromise` is the refinement.
* `CallsReturn`: a call returns if it is a soft interrupt, which waits for nobody, or if
  no target is on its way to being parked. `EventsHandled`: a posted event is handled,
  unless its hart itself hangs in a call to a parked hart. `NoDeadlock`, the same without
  the condition, is violated.

### Htif, Console

`Htif` has the harts, the two spinlocks and the host. Each iteration of the waiting
loops of `__set_tohost`, `htif_console_getchar` and `do_tohost_fromhost` is a step; so
is each half of `__check_fromhost` (read and check, then clear), the host's reading of
`tohost` and its writing of `fromhost`. The host (external) prints, reads keys, answers
system calls, and may or may not acknowledge a character, at any time later. Characters
are tagged with their caller, so loss, duplication and reordering are visible. `put` is the
history of all characters in the order in which their callers left `__set_tohost`; no action
reads it.

* *`TypeOK`*; *`MutualExclusion`* of both locks; `NoOverwrite`: a request stays in `tohost` until the
  host has taken it; `OneRequest`: `htif_console_buf` is -1 exactly while one request
  for a key is on its way; `OwnAnswer`: a system call gets its own answer;
  `AssertionsHold`: no assertion of `__check_fromhost` fails; `PrintedAtExit`: after a
  shutdown the output is `put`: every character of every hart, the one that shuts down
  included, once and in order. `poweroff` does not wait for `tohost` to be taken, so this is
  promised of `shutdown` only (`SYS_exit`), and checked without calls of `poweroff`.
* `Console` is a console whose operations are atomic; `AtomicConsole` says that `Htif`
  implements it.
* `CallsReturn`, `PowersOff`: liveness.

The module takes `uintptr_t` to have 64 bits: `htif.h` packs device and command into
the high bits of the word, and its 32-bit variant traps for every other device.

### Boot

All harts go through `do_reset`, the loop `.LmultiHart`, `init_first_hart` or
`init_other_hart`, one action per function called. `Listed` and `Wired` are what the
device tree says of cpus and of the CLINT.

* `NoNullStore`: no hart uses `hls->ipi` before it is filled in; *`OneSetsUp`*: nobody
  leaves the loop while another hart sets up; `QuietStart`: no wake-up interrupt is
  left when a hart starts to work; *`OnlyListedStart`*: disabled, unlisted and
  out-of-range harts stay in the loop; `EachStarts`: all others leave it.

### Fdt, Startup, DeviceTree

`Fdt` is `fdt_scan_helper` one word of the flattened tree at a time (`Nop`, `Property`,
`BeginNode`, `EndNode`, `EndScan`), with a stack of `last` and of the cell counts for its
recursive calls, and the seven scans of `init_first_hart` as the callbacks `open`, `prop`,
`done` and `close`. Strings are single words; a node is the address of a local variable, so its
depth. A tree is any sequence of words. `Startup` composes `Boot` and `Fdt`: the first hart
scans where `Boot` says `hart_init`, `query_harts` and `query_clint`, while the others leave
reset. `DeviceTree` says what a tree declares by looking at the tree, without words or scans.

* `PlatformAsDeclared`: what the scans leave in the monitor's variables is what the tree
  declares. The callbacks of a scan share one record that `open` and `close` reset in part.
* `ScanDelivers`: what `Boot` assumes of the scans is what they find. *`ScansFirst`*: no hart is
  woken, and none has left the loop, while a scan still has to run.

### Timer

`mcall_set_timer` store by store (two stores where the register is 32 bits wide), the
interrupt handler, the clock and the comparator. `split` and
`prompt`, fixed by the initial state, say which build it is and whether MTIP always agrees
with the comparator or may lag.

* `NoEarly`: no timer is reported before its time although half a store may leave an
  old time in `timecmp`; `RequestKept`: a request is armed or passed on; `NoStorm`: the
  interrupt is masked while the supervisor has it pending; `Delivered`: liveness.

### Trap

One hart with `mscratch`, `sp`, `mepc`, `mstatus.MPP`, the machine stack as frames by
depth, and the handlers that are active. `Exception`, `Interrupt`, `LoadFaults` (a page
fault while reading a user pointer) and `TestFaults` enter; `Return`, `Misaligned`,
`Resume`, `Redirect`, `EnterMode` and `Die` leave; `Move` is C code that calls and
returns. The value of `sp` stands for the register file a frame saves. An interrupt
stores only two registers at the same frame, which nobody else uses then.

* `MscratchDiscipline`: `mscratch` is the top of the stack in the lower modes and 0 in
  machine mode. This answers the question at `machine/mtrap.c:159`: handlers that are
  abandoned by `enter_mode` do not make the stack grow.
* `FramesApart`, *`LowerKept`*: nested frames do not overlap, and the lower mode's
  registers are kept.
* `ReturnsWhereItCame`, `RedirectsAsTrap`: what a lower mode, or its supervisor, finds.

### FaultHarness

One test of one access, as `GEN_TEST_ACCESS_FAULT` or `DYN_TEST` expands to it:
`SetCause`, `SetEpc` and `SetResume` are the three stores to `expected_fault`,
`AccessDone` and `AccessFaults` the access, `CountFault` the code behind the label
`fault`, `TestEnd` and `TestFail` the verdict. `Stray` is a fault of any other
instruction at any time: of the harness itself, of `printm`, or between two tests. Which
tests are made, in what order, and what an access does are left open. `TestFault`
compares cause and `epc` with whatever the record holds then.

* `PassMeansExpected`: a test succeeds only if its access was performed and did what was
  expected, whatever a half-written or an old record contains. `did` is the history of
  the access; no action reads it.
* `ResumesWhereItRan`: a handled fault continues in the test that is running, at the
  label of its own kind, and only from its access. The state to fear is the first test's:
  `resume_pc` 0 would resume at the faulting instruction for ever.

### TagPolicy, TagTests

`TagTests` is the whole run of `mpu_tag`: the suites of machine mode, those of the
supervisor, and the nineteen user tests. A suite is a sequence of operations (`Tag` for
`tagify_mem`, `Access` for a test, `SetPmp` for the three writes of `SET_PMP`, ...), with
the names of its C function; an action per operation executes it, and every test goes
through `FaultHarness`. Every step is a step of `FaultHarness` or leaves its variables
alone (the theorem `TestsUseHarness`), so what is proved there holds here. `ScriptAssumption`
is evaluated on the script: tests are called with values of the constants, each suite
ends in the operation that leaves it, and a user test counts itself once.

`TagPolicy` (external) is the processor under test, as the expectations and comments of
`mpu_tag.c` describe it: which execution domain may load, store, fetch and re-tag
which memory, and what the PMP slots add. The initial state chooses whether the processor is
`sound`. One that is not answers any access, check and instruction as it likes, and
`deviated` remembers it.

* `ConformingSucceeds`: on a sound processor the run ends in `SUCCESS`. It fails as soon as
  one expectation disagrees with the policy in the state that all earlier tests left: the
  user tests build upon each other.
* `ExpectationsAgree`: the same test by test: what a test expects, and what a check compares
  with, is the policy in the state that it finds, also on a processor that will deviate later.
* `SuccessMeansConforming`: a processor that deviated in a way any test observes does not
  reach `SUCCESS`, nor does a run that skips a user test. This is the purpose of the suite.
* `HarnessRuns`: the tests take rights away from the memory they run in, in steps; the code
  of each step, the functions it calls and the data it uses stay accessible, half-written
  slots included, and no overwritten buffer is executed.

### SoftFloat, SoftFloatArith, SoftFloatInt, FpSpec, FpUnit

`softfloat/` comes twice, for 32 and for 64 bits, with different algorithms where the
64-bit product, quotient or root does not fit in a word. The models take the format as a
parameter (`E` exponent, `F` fraction, `G` guard bits of a word of `F+G+2` bits; `rb` round
bits of integer conversions), so that the code's own masks and shifts are computed from it:
`SoftFloat` holds the primitives and the NaN rules, `SoftFloatArith` rounding, arithmetic
and comparisons, `SoftFloatInt` the conversions. Words keep their width (`% 2^w`), and each
operator returns the result together with the flags raised. The tables of the square root's
estimate have no counterpart in another format. They are left out, and the estimate is any value
that is within the error `primitives.h:623` states and a result of the last line of
`softfloat_estimateSqrt32`, a Newton step from whatever the tables led to.

`FpSpec` states the promise without the algorithms: values are integers in units of the
smallest subnormal, a result is the exact one rounded once, by the sign of its distance to
half units. The choices IEEE 754 leaves open (NaN patterns, tininess before
rounding, results of invalid conversions) are the library's. `FpUnit` has one disjunct per
operation of `softfloat.h` (the operations on extended and quadruple precision are declared
but not in the tree), and compares.

* `ArithmeticRounds`, `FusedRounds`, `RemainderExact`, `ConversionRounds`,
  `ComparisonOrders`: results and flags agree with `FpSpec`.
* `EstimateClose`: the bound of `primitives.h:612` for estimated quotients, which division and
  remainder depend on.

## Runs

| Run | Shows | Bounds |
|---|---|---|
| `ipi_safety` | `TypeOK`, `EventNotLost`, `NoStaleExecution`, the refinement `KeepsPromise` | 3 harts, two of them call (2 and 1 times), one disabled; all events and masks |
| `ipi_live` | `CallsReturn`, `EventsHandled` | 3 harts, two of them call (once each), one parked; soft interrupts and one kind of fence |
| `ipi_fence_hangs` | violation of `NoDeadlock` | hart 0 calls, two harts parked |
| `htif_calls` | the safety properties, the refinement `AtomicConsole`, `CallsReturn` | 2 harts, 2 calls each, 2 keys |
| `htif_off` | `PowersOff` | 2 harts, 2 calls each, 1 key |
| `startup` | the properties of `Boot` and `Startup`, `PlatformAsDeclared` | 5 harts, one unlisted, one out of range; 12 trees |
| `boot_detected` | violation of `CurrentDetected` | 2 harts, one detected |
| `timer` | safety and `Delivered`, with whole and split stores, a prompt and a lagging CLINT | 9 times of two 3-valued halves |
| `trap_safety` | all properties of `Trap` | stack of 4 frames, 3 instructions |
| `trap_redirect` | violation of `RedirectsToInstruction` | the same |
| `tag_tests` | the properties of `FaultHarness` and `TagTests` | the complete run, five regions that are accessed, six causes; sound and broken processors |
| `fp_unit` | all properties of `FpUnit` | all operands and rounding modes of formats of 5 to 14 bits |

Why these bounds are enough. Two harts are the fewest that fence each other at the
same time; three add a target that does not send, and an order of targets. Two calls of a
hart let the second find what the first left behind, which is what the restored
interrupt, the re-armed keyboard buffer and the stale lock are about. One key in the
buffer and one on its way need two keys. Nine times let a half store be early, equal and
late. A stack of four frames holds the longest nesting (test, fault, die) and room for C
code at each. The properties that depend on the number of harts, calls or frames are
proved without bounds.

The trees of `startup` combine three orders of the top nodes, properties in two orders (and
NOPs between them), root cells of one word, two words or by default, and interrupt controllers
in the cpu nodes or below them, such that each pair of choices occurs. Each has two UARTs, memory
in one or two ranges, caches with a phandle, and a CLINT and a PLIC that list the harts in
different orders. All of them declare the cells of every bus but the root.

`tag_tests` has no bound but its data: one width stands for the widths of the tagged loads
and stores. The formats of `fp_unit` are the smallest in which all cases of an algorithm
happen: subnormal, normal and overflowing results, ties, sticky bits behind the guard bits,
shifts by more than a word, quotient estimates that are 0, 1 and 2 too large (a word of 6
bits for the estimate itself), remainders that need several rounds (an exponent of 4 bits
with a fraction of 1), half words that truncate a bit of the significand they root (as in
doubles), integers narrower and wider than the significand, and a wide format whose exponents
exceed the narrow one's at both ends. `roundToInt` runs on the wide format of the conversions
between floats, with five fraction bits, so that values below one half, ties and integers that
are even or odd all occur. Operands are enumerated completely, except the wide operands of
conversions to and from integers (the fractions and integers at the ends, in the middle and
next to them) and the sign of `mulAdd`'s second factor, which acts by the sign of the product
alone.
The rounding mode is a variable that any of the five values
starts with and nothing changes; what does not read it is called in one mode.

Runs without deadlock check stop when all calls are made, when the machine is off, when
harts are parked or when the monitor has died, all states in which the program really
stops or the bound is reached.

Fairness. In `Ipi`, `Htif`, `Boot` and `Startup` each hart is weakly fair: a hart in machine mode has
interrupts disabled and executes its next instruction. `Ipi` adds weak fairness of
`Propagate` (the CLINT forwards MSIP), `Htif` of the host's two steps (it keeps serving
the words), `Timer` of the clock, the comparator and the handler. Spinning is a step like
any other, so weak fairness does not give a lock to a hart that loses every race;
`CallsReturn` of `Htif` holds because the calls are bounded and each holder returns, or
the host ends the run. `TagTests` is weakly fair as a whole: one hart runs the tests and does
not stop.

## Disagreements found

* `ipi_fence_hangs` (`machine/mtrap.c:146`): the comment says that the loop prevents
  deadlock; a remote fence to a hart parked in `boot_other_hart`, which is in
  `hart_mask`, never returns.
* `boot_detected` (`machine/fdt.c:290`): the assertion that the current hart was detected
  shifts the mask without taking one bit.
* `trap_redirect` (`machine/mtrap.c:131`): a page fault on the argument of an SBI call is
  reported at the instruction behind the `ecall`.

Observed while modelling, without a run of their own:

* "these are the default cell counts, as per the FDT spec" (`machine/fdt.c:41`): they are set once
  per call, and so for the first child only; a later child that declares no counts inherits those
  of the one before.
* `self <= base + size` (`machine/fdt.c:181`) also takes the range that ends where the monitor
  begins.
* `scan.ndev` of `query_plic` is not initialised; a PLIC without `riscv,ndev` gets what is on
  the stack, if that passes the assertion.
* A phandle 0 in `interrupts-extended` names the first hart that the tree does not list: its
  entry of `hart_phandles` is 0.
* "wait until all events have been handled" (`machine/mtrap.c:141`) is not what the loop does:
  a target may have consumed or cleared the interrupt and not yet run the fence. What holds is
  `NoStaleExecution`.
* User tests 0 to 2 run trusted user code while `ststatus.UE` is clear; test 3 sets it with the
  comment "Enable UT to run". They stay in trusted code, so the policy never asks for it.
* The comment at `mpu_tag.c:443` has `ltt` subtract the expected tag from the real one; the
  expected results (`mpu_tag.c:447` and following) are the expected tag minus the real one.
* `ASSERT`s that mask several bits of `ststatus` accept any one of them.
* `f64_sqrt` (`softfloat/f64_sqrt.c:57-62`) adds 2z to the remainder in each round of its
  correction, where `f32_sqrt.c:59` adds 2z + 1. One is missing per round, so an exact root would be
  lowered once too often, and become inexact, if it were ever estimated too large. The
  error `primitives.h:623` promises does not exclude that: with any estimate within 2 of the root,
  TLC finds `ArithmeticRounds` violated in small formats. What excludes it is the last line of
  `softfloat_estimateSqrt32`, as the proof of `RootsRound` shows for every format. Inexact
  roots are not affected, because what they leave exceeds the number of rounds.
* The bodies of `misaligned_load_trap` and `misaligned_store_trap` are commented out
  (`machine/misaligned_ldst.c:16`, `:84`), and `%zu` (`machine/mtrap.c:158`) is unknown to `vsnprintf`.

## Proofs

Assumptions are the named `ASSUME`s of the modules, evaluated by TLC on every run.

* `IpiProofs`: `TypeOK`, `EventNotLost`, `NoStaleExecution` and the refinement of
  `RemoteFence`, for any harts and bounds. `EventNotLost` and `NoStaleExecution` are not
  inductive: `OwedInv` says, for each fence not yet run, where the interrupt that will
  cause it is (with its sender, in the register while the sender still watches it, in
  the target's handler or in its polling loop), `PromisedInv` that after the return it is
  past the register, and `MipInv` that `mip` never shows an interrupt that is not there.
* `HtifProofs`: types, `MutualExclusion` (from the value of each lock), and, for
  calls without poweroff, `NoOverwrite` and `AssertionsHold`. The last needs `FlightInv`:
  which answers can be in flight is fixed by which requests are, and the answer to a
  system call exists only while its caller holds `htif_lock`. Then, also without poweroff (which
  takes no lock and writes `tohost` whatever it holds): `OneRequest`, `OwnAnswer`,
  `PrintedAtExit` and the refinement of `Console`, for any harts, keys and bounds. Each adds an
  invariant to those before. `KeyInv`: the requests
  for a key that are anywhere (`tohost`, the host's queue, `fromhost`, being stored) are one
  while `htif_console_buf` is -1 and none otherwise, a multiset the queue does not show at a
  glance. `SysInv`: the system call in flight is that of the hart that holds `htif_lock`, with
  its tag from `magic_mem` on; `FreshInv`: the call noted in `magic_mem` is not newer than those
  of its hart, and older until it is filled in. `PrintInv`: the output and the
  character in `tohost` are `put` and, if a hart is about to release `htif_lock`, the character it
  has sent; after a shutdown `tohost` is empty and no hart is about to. `RetInv` and `CallsInv` say
  what the place of a hart determines about its call and its result. The refinement maps the
  steps one by one: the host's printing is the `Put` of the console, the storing of a key is its
  `Get`, the host's exit its end, and every other step a stutter.
* `StartupProofs`: all five invariants of `Boot` for any number of harts, under `OneFirst` (one hart
  finds its bit: `srl` shifts by the low six bits of `mhartid`, so two harts whose
  identifiers agree modulo 64 would both boot as the first) and `Complete` (the CLINT lists
  every cpu). The invariant gives each place of the first hart the state of all others.
  Every step of `Startup` is one of `Boot` or leaves its variables alone, by the way it is composed
  (the lemma `Boots`), so these hold of it for any device tree. The theorem about `Fdt` and `Boot`
  together is `ScansFirst`, by `WakeInv`: wake-ups are sent, and the first hart goes on, only behind the last scan, and the others
  leave the loop only when they were called.
* `TimerProofs`: all safety properties for any width of the halves. `PlaceInv` is what
  holds between the stores; `PromptInv` that a prompt comparator agrees with `timecmp`.
* `TrapProofs`: all properties of `trap_safety`, for any stack bound and any lower modes.
  `OutsideInv` says that the lower modes run with nothing left on the machine stack;
  `InsideInv` what each handler knows of `mepc`, `mpp` and the frame it serves.

* `FaultHarnessProofs`: types, `PassMeansExpected` and `ResumesWhereItRan` for any kinds of
  access, addresses, causes and order of tests. The properties speak of steps, and hold because of
  two invariants: `RecordInv` says how much of `expected_fault` belongs to the running test at
  each place (cause, then `epc`, then `resume_pc`), `OutcomeInv` how `isfault` and the place
  behind the access follow from what the access did. Then the same for the whole run of
  `mpu_tag` (`TestsUseHarness`, `SuitesAreHonest`), and `SuccessIsHonest`:
  `SuccessMeansConforming` follows from `ExpectationsAgree`. `CountInv` ties the counter of
  user tests to the place in the script; `DeviationInv` says where a run can be that
  has deviated: behind an access that was to fault and did not, or at its end. The hypothesis is a
  fact of one script without parameters, of which TLC visits every state; the proof adds that
  nothing else is needed, whatever the processor answers.
* `FpProofs`, for words and formats of any width: `softfloat_add128`, `softfloat_sub128`
  and `softfloat_mul64To128` return the exact sum, difference and product; `EstimateClose`;
  `ComparisonOrders`. The estimate divides twice by the upper half `b1` of the divisor. Both
  digits are at most 2 too large because the divisor's top bit is set, so the loop that lowers
  the first one runs at most twice (`LowerEstimateEnds`), on a remainder that is negative
  exactly while its top bit is set (`SignedPair`); `FirstDigit` and `SecondDigit` are
  about integers alone.
  Then powers of two: to the provers `2^n` is a function they know nothing of, so its laws are
  proved from the library's theorem that a set of `n` elements has `2^n` subsets (`PowerSum`:
  the subsets of two disjoint sets are pairs of subsets). What a format or a word has to obey
  (`FormatLaws`, `WordLaws`) follows from its widths, and the assumption on the formats
  (`FpAssumption`, which TLC evaluates) speaks of widths only. The rest of the module is the
  rounding that all operations share. A significand `Stands` for an exact quotient when both compare
  in the same way with all multiples of half a last place. A jammed quotient does
  (`JamStands`), also after a jamming shift (`StandsShifted`), and `RoundPack` says that
  `softfloat_roundPackToF32`, given a significand that stands for the exact result in
  the units of its exponent, returns the exact result rounded once with its flags: normal and
  subnormal results, carries into the next exponent, overflow. `ProductsRound` is the first
  use: `f32_mul` and `f64_mul`. `SumsRound` covers additions and subtractions: the operand that is
  shifted and jammed may be subtracted, and cancellation leaves only exact results to be shifted
  far.
* `FpArithmeticProofs`, for formats of any width: `QuotientsRound` and `RootsRound`, and from
  these and the products and sums of `FpProofs` the theorem `ArithmeticRoundsOnce`,
  `ArithmeticRounds` in every state of `FpUnit`. `f64_div` takes an estimate at most 2 too large
  as it is, unless its guard bits are that small (`StandsAbove`), and then lowers it to the
  truncated quotient (`LowerQuotientIs`, with the loops of `EstimateClose`). A root is irrational;
  `RootAsRatio` replaces it by a ratio on the same side of everything that a rounding compares
  with. From an estimate within 2 of the root of the upper half word, one Newton step of
  `f64_sqrt` ends at most 6 above the root and not below it (`NewtonBounds`), which is why six
  values of the guard bits are corrected (`CorrectedStands`). The loop that lowers the root has no
  bound in the code; `LowerRootIs` says what it returns from what its rounds make of the remainder
  (`RootRem`, a closed form). `f32_sqrt` keeps the remainder exact (`WordRootLowers`). `f64_sqrt`
  does not: after n rounds it is n too small. For an inexact root that is harmless: the radicand
  is a multiple of 16, squares are 0, 1, 4 or 9 modulo 16, so what is left is at least 7, and there
  are at most 6 rounds (`DoubleRootLowers`). For an exact root z must be right at once. It is:
  a Newton step never falls below the truncated root of what it divides (`StepAbove`), so the estimate
  is within one of the exact root's upper half word (`RootClose`; the root has only that half word,
  `ExactRoot`); the division by the estimate, a word whose lower half is clear, is exact
  (`ExactDigit`); and then the second Newton step meets the root (`StepExact`). Last, `FusionsRound`: `f32_mulAdd` and `f64_mulAdd` return `a * b + c` rounded
  once, and with it `FusedRoundsOnce`, `FusedRounds` in every state. The product fills two words
  and the third operand is scaled as it is, so both are exact (`ProductScaled`, `AddendScaled`);
  the smaller one is jammed where it is aligned, and the whole a second time where it becomes one
  word. Jamming twice is jamming once as long as the second shift drops a bit (`JamJam`), so the
  sum stands for the exact one (`PlusRounds`); a difference that cancels far has had nothing
  jammed, since then the exponents differ by one at most and the bit that is shifted out is clear
  (`WideDifference`). `f32_mulAdd` works on one integer of two words and `f64_mulAdd` on pairs of
  words: the carries, the borrows, the leading zeros and the jamming of a pair are those of the
  number it stands for. What is left is the cascade of NaNs, infinities and zeros, case by case
  (`FusedArms`, `FusedNaNs`). The proofs are about operators; the invariants add that the caller's
  mode is one of the five.

`MutualExclusion`, `OneSetsUp`, `OnlyListedStart`, `ScansFirst`, `LowerKept` and the types of `Boot`,
`Htif` and `Timer` are theorems (for any number of harts, frames and calls) and are not checked again
by a run.

Only model-checked: liveness (out of the prover's reach), `EachStarts`, `ScanDelivers`,
`PlatformAsDeclared` (a tree of any depth: induction over data), `HarnessRuns`,
`ExpectationsAgree` and `ConformingSucceeds` (a fixed script of which TLC visits every state),
`RemainderExact` and `ConversionRounds` (algorithms of their own, for which the lemmas on
rounding are there but the proofs are not), and the properties found violated.

## Not modelled, and why

`PROJECT.json` gives the reason per component. Whole parts: the suite `mpu_basic` (another
processor configuration), the instruction emulation (unreachable: `trap_table` sends illegal
instructions to `test_fault`), UART, finisher and the PLIC as devices (registers with fixed
values), the filters of `fdt.c` (nobody calls them) and `fdt_print` (not compiled in), printing and strings, the build system, and `user.h`, `encoding.h`,
`OLD-specialize.h`, which hold declarations or are not built. Within the modelled
parts: the FCSR slot of frames (builds without an FPU), the header check of `fdt_scan`, the PLIC enables, the traps
that a lower mode takes while it holds `htif_lock`, the tables of the square root, and weak
memory order (every access is a step of one interleaving; the code's fences are where the
models' steps are, except the missing one before `wake_harts`, listed as a hazard).

## Plan

Done: `Ipi`, `RemoteFence`, `Htif`, `Console`, `Boot`, `Timer`, `Trap`, `FaultHarness` and their
proofs; `TagPolicy` and `TagTests`; SoftFloat; `Fdt` and `Startup`. Next, in this order:

1. Trap while the lower mode holds `htif_lock`: `Htif` and `Trap` together.
2. `vsnprintf` with a full buffer, the string functions, and multiplication and division of
   `muldiv_emulation.c` at small widths, against reference definitions.

Proofs to add: the conversions from integers, which end in `RoundPack` as sums do, and the remainder.
