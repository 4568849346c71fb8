-------------------------------- MODULE Trap --------------------------------
(***************************************************************************)
(* Trap entry and exit on one hart: trap_vector and __redirect_trap        *)
(* (machine/mentry.S), redirect_trap and trap_from_machine_mode            *)
(* (machine/mtrap.c) and enter_mode (machine/minit.c).  A hart has its own *)
(* machine stack, and runs machine mode with interrupts disabled.          *)
(*                                                                         *)
(* The stack is addressed by depth below the frame at its top, in frames.  *)
(* The stack pointer stands for the register file: a frame holds the value *)
(* sp had at the trap.                                                     *)
(***************************************************************************)
EXTENDS Integers, Sequences, SequencesExt

CONSTANTS
  MaxDepth,   \* bound on the machine stack, in frames; less than a page
  LowerSps,   \* values of sp in the lower modes
  MaxPc,      \* bound on the program counter of the lower modes, in instructions
  Zero        \* the value of mscratch in machine mode

ASSUME DepthAssumption == MaxDepth \in Nat /\ MaxDepth >= 2
ASSUME PcAssumption == MaxPc \in Nat \ {0}
ASSUME ValueAssumption == Zero \notin Nat \cup LowerSps /\ LowerSps \cap Nat = {}

Page == MaxDepth + 1            \* RISCV_PGSIZE, in frames
Depths == 0 .. MaxDepth
Stray == MaxDepth + 1           \* a frame below a stack that is not the monitor's
Pcs == 0 .. MaxPc
InMachine == -1                 \* any program counter of the monitor
Stvec == 0                      \* stvec, and the entry points given to enter_mode
Nothing == -1                   \* a frame never written

VARIABLES
  mode, pc, sp, mscratch,
  mepc, mpp,   \* mepc, mstatus.MPP
  sepc, spp,   \* sepc, sstatus.SPP
  frame,       \* depth -> sp in the frame there
  acts,        \* what machine mode is doing: its handlers, the innermost last
  lower        \* the lower mode as it was at its last trap; only properties read it

vars == <<mode, pc, sp, mscratch, mepc, mpp, sepc, spp, frame, acts, lower>>
scsrs == <<sepc, spp>>

\* A handler: what it does, where its frame is, and the a2 and a3 a page
\* fault in machine mode finds.
Act(kind, base, epc, pp) == [kind |-> kind, base |-> base, epc |-> epc, mpp |-> pp]
Top == acts[Len(acts)]
Doing(kinds) == acts # <<>> /\ Top.kind \in kinds /\ mode = "M"

\* m_test_main
Init ==
  /\ mode = "M" /\ pc = InMachine /\ sp = 0 /\ mscratch = Zero
  /\ mepc = Stvec /\ mpp = "U" /\ sepc = Stvec /\ spp = "U"
  /\ frame = [d \in 0 .. Stray |-> Nothing]
  /\ acts = <<Act("test", 0, Stvec, "U")>>
  /\ lower = [mode |-> "M", pc |-> InMachine, sp |-> 0]

-----------------------------------------------------------------------------
(* The lower modes *)

Run(m, p, s) ==
  /\ mode # "M" /\ (mode = "U" => m = "U")
  /\ mode' = m /\ pc' = p /\ sp' = s
  /\ UNCHANGED <<mscratch, mepc, mpp, scsrs, frame, acts, lower>>

-----------------------------------------------------------------------------
(* trap_vector *)

\* Mutant: the frame of a trap from machine mode is not made room for.
M_Below(s) == IF s \in Depths THEN s ELSE Stray

\* .Ltrap_from_machine_mode
Below(s) == IF s \in Depths THEN s + 1 ELSE Stray

\* Where the frame goes, after csrrw sp, mscratch, sp
Base == IF mscratch = Zero THEN Below(sp) ELSE mscratch

\* The hardware's part, and the prologue up to the call of the handler
Enter(kind, epc, pp) ==
  /\ mepc' = pc /\ mpp' = mode /\ mode' = "M" /\ pc' = InMachine
  /\ frame' = [frame EXCEPT ![Base] = sp]
  /\ sp' = Base /\ mscratch' = Zero
  /\ acts' = Append(acts, Act(kind, Base, epc, pp))
  /\ UNCHANGED scsrs

\* An exception in a lower mode: a call that returns, a call with a bad
\* pointer, SBI_USERTEST, a fault for test_fault, a misaligned access
Exception(kind) ==
  /\ mode # "M"
  /\ pc < MaxPc
  /\ Enter(kind, Stvec, "U")
  /\ lower' = [mode |-> mode, pc |-> pc, sp |-> sp]

\* A timer interrupt or an IPI: a0 and a1 go to the frame at the top, and the
\* handler ends at .Lmret.
Interrupt ==
  /\ mode # "M" /\ mscratch # Zero
  /\ frame' = [frame EXCEPT ![mscratch] = sp]
  /\ mepc' = pc /\ mpp' = "U"
  /\ UNCHANGED <<mode, pc, sp, mscratch, scsrs, acts, lower>>

-----------------------------------------------------------------------------
(* Handlers *)

\* C code calls and returns: sp moves below the handler's frame.
Move(d) ==
  /\ Doing({"test", "call_body", "bad_body", "usertest_body"})
  /\ d \in Top.base .. MaxDepth - 1
  /\ sp' = d
  /\ UNCHANGED <<mode, pc, mscratch, mepc, mpp, scsrs, frame, acts, lower>>

Body(kind) == CASE kind = "call" -> "call_body" [] kind = "bad" -> "bad_body"
                [] kind = "usertest" -> "usertest_body"

\* Mutant: the call is not skipped.
M_AfterCall(p) == p

\* mcall_trap: mepc + 4
AfterCall(p) == p + 1

Skip ==
  /\ Doing({"call", "bad", "usertest"})
  /\ mepc' = AfterCall(mepc)
  /\ acts' = [acts EXCEPT ![Len(acts)].kind = Body(Top.kind)]
  /\ UNCHANGED <<mode, pc, sp, mscratch, mpp, scsrs, frame, lower>>

\* load_uintptr_t with MSTATUS_MPRV faults: a2 and a3 are mepc and mstatus.
LoadFaults ==
  /\ Doing({"bad_body"})
  /\ Enter("page_fault", mepc, mpp)
  /\ UNCHANGED lower

\* The access of a test in machine mode faults.
TestFaults ==
  /\ Doing({"test"})
  /\ Enter("fault", Stvec, "U")
  /\ UNCHANGED lower

\* restore_mscratch, skipped by __trap_from_machine_mode
NewMscratch == IF mpp = "M" THEN mscratch ELSE sp

\* restore_regs and mret
Leave(epc) ==
  /\ mscratch' = NewMscratch
  /\ sp' = frame[sp]
  /\ mode' = mpp /\ pc' = epc /\ mpp' = "U"
  /\ acts' = Front(acts)
  /\ UNCHANGED <<scsrs, frame, lower>>

\* The call returns.
Return ==
  /\ Doing({"call_body"}) /\ sp = Top.base
  /\ Leave(mepc) /\ mepc' = mepc

\* misaligned_load_trap and misaligned_store_trap do nothing.
Misaligned ==
  /\ Doing({"misaligned"})
  /\ Leave(mepc) /\ mepc' = mepc

\* test_fault, when the fault is the expected one
Resume(p) ==
  /\ Doing({"fault"})
  /\ LET resume == IF mpp = "M" THEN InMachine ELSE p IN
       mepc' = resume /\ Leave(resume)

\* Mutant: the stack goes on where it was.
M_TopFrame(d) == d

\* MACHINE_STACK_TOP() - MENTRY_FRAME_SIZE
TopFrame(d) == (d \div Page) * Page

\* Mutant: the S-mode handler is told of the place after trap_vector's own.
M_Mpp(a) == mpp

\* a3, the mstatus of the trap that the handler serves
Mpp(a) == a.mpp

\* machine_page_fault with MPRV, redirect_trap, __redirect_trap
Redirect ==
  /\ Doing({"page_fault"})
  /\ sepc' = Top.epc /\ spp' = Mpp(Top)
  /\ mscratch' = TopFrame(sp) /\ sp' = frame[TopFrame(sp)]
  /\ mode' = "S" /\ pc' = Stvec /\ mepc' = Stvec /\ mpp' = "U"
  /\ acts' = <<>>
  /\ UNCHANGED <<frame, lower>>

\* enter_mode, from the tests or from m_usertest_main
EnterMode(m, s) ==
  /\ Doing({"test", "usertest_body"})
  /\ mscratch' = TopFrame(sp) /\ sp' = s
  /\ mode' = m /\ pc' = Stvec /\ mepc' = Stvec /\ mpp' = "U"
  /\ acts' = <<>>
  /\ UNCHANGED <<scsrs, frame, lower>>

\* die: a fault nobody expects, a bad pointer that is an access fault, bad_trap
Die ==
  /\ Doing({"fault", "bad_body", "usertest_body"})
  /\ acts' = Append(acts, Act("die", sp, Stvec, "U"))
  /\ UNCHANGED <<mode, pc, sp, mscratch, mepc, mpp, scsrs, frame, lower>>

Next ==
  \/ \E m \in {"S", "U"}, p \in Pcs, s \in LowerSps : Run(m, p, s)
  \/ \E kind \in {"call", "bad", "usertest", "fault", "misaligned"} : Exception(kind)
  \/ Interrupt
  \/ \E d \in Depths : Move(d)
  \/ Skip \/ LoadFaults \/ TestFaults
  \/ Return \/ Misaligned
  \/ \E p \in Pcs : Resume(p)
  \/ Redirect
  \/ \E m \in {"S", "U"}, s \in LowerSps : EnterMode(m, s)
  \/ Die

Spec == Init /\ [][Next]_vars

-----------------------------------------------------------------------------
(* Properties *)

Kinds == {"test", "call", "bad", "usertest", "fault", "misaligned", "call_body",
          "bad_body", "usertest_body", "page_fault", "die"}
Modes == {"M", "S", "U"}

\* The variables keep their types.
TypeOK ==
  /\ mode \in Modes /\ pc \in Pcs \cup {InMachine} /\ sp \in Depths \cup LowerSps
  /\ mscratch \in Depths \cup {Zero}
  /\ mepc \in Pcs \cup {InMachine} /\ mpp \in Modes
  /\ sepc \in Pcs /\ spp \in {"S", "U"}
  /\ frame \in [0 .. Stray -> Depths \cup LowerSps \cup {Nothing}]
  /\ acts \in Seq([kind : Kinds, base : Depths, epc : Pcs, mpp : {"S", "U"}])
  /\ lower \in [mode : Modes, pc : Pcs \cup {InMachine}, sp : Depths \cup LowerSps]

\* While a lower mode runs, mscratch is the frame at the top of the stack, so
\* the next trap finds the whole machine stack free, whatever handlers were
\* abandoned before (mtrap.c:159: "do we have a growing stack due to
\* recursion?").  In machine mode it is 0, so a trap there is seen as nested.
MscratchDiscipline == mscratch = IF mode = "M" THEN Zero ELSE 0

\* The frames of the handlers that run are apart, each deeper than the one it
\* interrupts, and sp is not above the innermost.
FramesApart ==
  mode = "M" =>
    /\ \A i, j \in DOMAIN acts : i < j /\ acts[j].kind # "die" =>
         acts[i].base < acts[j].base
    /\ acts # <<>> => sp \in Depths /\ sp >= Top.base

\* The frame at the top holds the registers of the lower mode for as long as a
\* handler serves it.
LowerKept ==
  mode = "M" /\ acts # <<>> /\ acts[1].kind # "test" => frame[0] = lower.sp

\* A handler that returns does so to where its trap came from: same registers,
\* same mode, behind a call, at a misaligned access again.
ReturnsWhereItCame ==
  [][Return \/ Misaligned =>
       /\ sp' = lower.sp /\ mode' = lower.mode
       /\ pc' = IF Return THEN lower.pc + 1 ELSE lower.pc]_vars

\* A redirected page fault reaches the supervisor with the registers of the
\* lower mode, and as a fault of the mode that made the call.
RedirectsAsTrap ==
  [][Redirect => sp' = lower.sp /\ spp' = lower.mode /\ mode' = "S"]_vars

\* mtrap.c:241: "MPRV=1 iff this trap occurred while emulating an instruction
\* on behalf of a lower privilege level.  In that case, a2=epc": the
\* supervisor is told the instruction that trapped.
RedirectsToInstruction == [][Redirect => sepc' = lower.pc]_vars
=============================================================================
