---------------------------- MODULE TrapProofs ----------------------------
(***************************************************************************)
(* Proofs about Trap, for any stack and any lower modes.                   *)
(***************************************************************************)
EXTENDS Trap, TLAPS

Acts == [kind : Kinds, base : Depths, epc : Pcs, mpp : {"S", "U"}]

\* Handlers of a trap from a lower mode: those whose frame and sp are at the
\* top, and those whose C code moves sp
AtEntry == {"call", "bad", "usertest", "misaligned"}
InBody == {"call_body", "bad_body", "usertest_body"}

\* Types that the invariant below does not give
Types ==
  /\ mode \in Modes /\ pc \in Pcs \cup {InMachine}
  /\ mepc \in Pcs \cup {InMachine} /\ mpp \in Modes
  /\ sepc \in Pcs /\ spp \in {"S", "U"}
  /\ frame \in [0 .. Stray -> Depths \cup LowerSps \cup {Nothing}]
  /\ acts \in Seq(Acts)
  /\ lower \in [mode : Modes, pc : Pcs \cup {InMachine}, sp : Depths \cup LowerSps]

\* The lower modes run with nothing left on the machine stack.
OutsideInv == mode # "M" =>
  /\ mscratch = 0 /\ acts = <<>> /\ sp \in LowerSps /\ pc \in Pcs

\* Serves(i): the i-th activity serves the trap that lower records.
Serving == frame[0] = lower.sp /\ lower.sp \in LowerSps /\ lower.mode \in {"S", "U"}

\* What machine mode knows at each of its places.
InsideInv == mode = "M" =>
  /\ mscratch = Zero /\ sp \in Depths /\ Len(acts) \in 1 .. 3
  /\ Top.kind = "test" => Len(acts) = 1 /\ Top.base = 0 /\ sp < MaxDepth
  /\ Top.kind \in AtEntry =>
       /\ Len(acts) = 1 /\ Top.base = 0 /\ sp = 0
       /\ Serving /\ mpp = lower.mode /\ mepc \in Pcs /\ mepc < MaxPc /\ mepc = lower.pc
  /\ Top.kind \in InBody =>
       /\ Len(acts) = 1 /\ Top.base = 0 /\ sp < MaxDepth
       /\ Serving /\ mpp = lower.mode /\ mepc \in Pcs /\ mepc = lower.pc + 1
  /\ Top.kind = "page_fault" =>
       /\ Len(acts) = 2 /\ acts[1].kind = "bad_body" /\ acts[1].base = 0
       /\ Top.base > 0 /\ sp = Top.base
       /\ Serving /\ Top.mpp = lower.mode
  /\ Top.kind = "fault" =>
       /\ sp = Top.base
       /\ \/ Len(acts) = 1 /\ sp = 0 /\ Serving /\ mpp = lower.mode
          \/ /\ Len(acts) = 2 /\ acts[1].kind = "test" /\ acts[1].base = 0
             /\ sp > 0 /\ mpp = "M" /\ frame[sp] \in Depths /\ frame[sp] < MaxDepth
  /\ Top.kind = "die" =>
       /\ Len(acts) > 1
       /\ acts[1].kind # "test" => Serving
       /\ sp = Top.base
       /\ Len(acts) = 3 => acts[1].kind = "test" /\ acts[1].base = 0 /\ acts[2].base > 0

IInv == Types /\ OutsideInv /\ InsideInv

\* The page is larger than the bound on the stack: its top is depth 0.
LEMMA TopIsTop == \A d \in Depths : TopFrame(d) = 0
BY DepthAssumption, Z3 DEF Depths, TopFrame, Page

\* The initial states satisfy the invariant.
LEMMA InitInv == Init => IInv
<1> SUFFICES ASSUME Init PROVE IInv
  OBVIOUS
<1>1. Stvec \in Pcs /\ 0 \in Depths /\ 0 < MaxDepth
  BY DepthAssumption, PcAssumption DEF Stvec, Pcs, Depths
<1>2. acts \in Seq(Acts) /\ Len(acts) = 1 /\ Top = Act("test", 0, Stvec, "U")
  BY <1>1 DEF Init, Top, Act, Acts, Kinds
<1>3. Types
  BY <1>1, <1>2 DEF Init, Types, Modes, InMachine, Nothing
<1>4. OutsideInv /\ InsideInv
  BY <1>1, <1>2 DEF Init, OutsideInv, InsideInv, Act, AtEntry, InBody
<1>5. QED
  BY <1>3, <1>4 DEF IInv

\* The lower modes run.
LEMMA RunStep ==
  ASSUME IInv, NEW m \in {"S", "U"}, NEW p \in Pcs, NEW s \in LowerSps, Run(m, p, s)
  PROVE  IInv'
<1>1. Types'
  BY DEF IInv, Types, Run, scsrs, Modes
<1>2. OutsideInv' /\ InsideInv'
  BY DEF IInv, OutsideInv, InsideInv, Run
<1>3. QED
  BY <1>1, <1>2 DEF IInv

\* An interrupt is handled.
LEMMA InterruptStep == ASSUME IInv, Interrupt PROVE IInv'
<1>1. mscratch = 0 /\ sp \in LowerSps /\ pc \in Pcs
  BY DEF IInv, OutsideInv, Interrupt
<1>2. Types'
  BY <1>1 DEF IInv, Types, Interrupt, scsrs, Modes
<1>3. OutsideInv' /\ InsideInv'
  BY <1>1 DEF IInv, OutsideInv, InsideInv, Interrupt
<1>4. QED
  BY <1>2, <1>3 DEF IInv

\* A trap from a lower mode puts its frame at the top.
LEMMA ExceptionStep ==
  ASSUME IInv, NEW kind \in AtEntry \cup {"fault"}, Exception(kind)
  PROVE  IInv'
<1>1. mscratch = 0 /\ acts = <<>> /\ sp \in LowerSps /\ pc \in Pcs /\ mode \in {"S", "U"} /\ pc < MaxPc
  BY DEF IInv, OutsideInv, Exception, Types, Modes
<1>2. Base = 0
  BY <1>1, ValueAssumption DEF Base
<1>3. 0 \in Depths /\ Stvec \in Pcs /\ 0 \in 0 .. Stray
  BY DepthAssumption, PcAssumption DEF Depths, Stvec, Pcs, Stray
<1>4. acts' \in Seq(Acts) /\ Len(acts') = 1 /\ Top' = Act(kind, 0, Stvec, "U")
  <2>1. Act(kind, 0, Stvec, "U") \in Acts
    BY <1>3 DEF Act, Acts, Kinds, AtEntry
  <2>2. acts' = <<Act(kind, 0, Stvec, "U")>>
    BY <1>1, <1>2 DEF Exception, Enter
  <2>3. QED
    BY <2>1, <2>2 DEF Top
<1>5. Types'
  BY <1>1, <1>2, <1>3, <1>4 DEF IInv, Types, Exception, Enter, scsrs, Modes
<1>6. frame'[0] = sp /\ lower' = [mode |-> mode, pc |-> pc, sp |-> sp]
      /\ mepc' = pc /\ mpp' = mode /\ mode' = "M" /\ sp' = 0 /\ mscratch' = Zero
  BY <1>2, <1>3 DEF IInv, Types, Exception, Enter
<1>7. OutsideInv'
  BY <1>6 DEF OutsideInv
<1>8. InsideInv'
  <2>1. Serving' /\ mpp' = lower'.mode /\ mepc' = lower'.pc
    BY <1>1, <1>6 DEF Serving
  <2>2. Top'.kind = kind /\ Top'.base = 0
    BY <1>4 DEF Act
  <2>3. QED
    BY <1>1, <1>3, <1>4, <1>6, <2>1, <2>2 DEF InsideInv, AtEntry, InBody
<1>9. QED
  BY <1>5, <1>7, <1>8 DEF IInv

\* C code moves sp.
LEMMA MoveStep == ASSUME IInv, NEW d \in Depths, Move(d) PROVE IInv'
<1>1. mode = "M" /\ Top.kind \in {"test", "call_body", "bad_body", "usertest_body"} /\ Top.base = 0
  BY DEF IInv, InsideInv, InBody, Move, Doing
<1>2. d < MaxDepth
  BY <1>1, DepthAssumption DEF Move, Depths
<1>3. Types'
  BY DEF IInv, Types, Move, scsrs, Modes
<1>4. Top' = Top /\ (Serving' <=> Serving) /\ Len(acts') = Len(acts)
  BY DEF Move, Top, Serving
<1>5. OutsideInv' /\ InsideInv'
  BY <1>1, <1>2, <1>4 DEF IInv, OutsideInv, InsideInv, AtEntry, InBody, Move
<1>6. QED
  BY <1>3, <1>5 DEF IInv

\* mcall_trap steps over the call.
LEMMA SkipStep == ASSUME IInv, Skip PROVE IInv'
<1>1. mode = "M" /\ Top.kind \in {"call", "bad", "usertest"} /\ Len(acts) = 1 /\ Top = acts[1]
  BY DEF IInv, InsideInv, AtEntry, Skip, Doing, Top
<1>2. /\ sp = 0 /\ Top.base = 0 /\ Serving /\ mpp = lower.mode
      /\ mepc \in Pcs /\ mepc < MaxPc /\ mepc = lower.pc /\ mscratch = Zero
  BY <1>1 DEF IInv, InsideInv, AtEntry
<1>3. Body(Top.kind) \in InBody
  BY <1>1 DEF Body, InBody
<1>4. acts' \in Seq(Acts) /\ Len(acts') = 1 /\ Top' = [Top EXCEPT !.kind = Body(Top.kind)]
  <2> DEFINE new == [Top EXCEPT !.kind = Body(Top.kind)]
  <2>1. acts \in Seq(Acts) /\ Top \in Acts
    <3>1. acts \in Seq(Acts)
      BY DEF IInv, Types
    <3>2. acts[1] \in Acts
      BY <3>1, <1>1
    <3>3. QED
      BY <3>1, <3>2, <1>1
  <2>2. new \in Acts
    BY <2>1, <1>3 DEF Acts, InBody, Kinds
  <2>3. acts' = [acts EXCEPT ![1] = new]
    <3>1. acts' = [acts EXCEPT ![Len(acts)].kind = Body(Top.kind)]
      BY DEF Skip
    <3>2. acts' = [acts EXCEPT ![1] = [acts[1] EXCEPT !.kind = Body(Top.kind)]]
      BY <3>1, <1>1
    <3>3. QED
      BY <3>2, <1>1
  <2> HIDE DEF new
  <2>4. acts' \in Seq(Acts) /\ Len(acts') = 1 /\ acts'[1] = new
    BY <2>1, <2>2, <2>3, <1>1
  <2>5. QED
    BY <2>4 DEF Top, new
<1>5. mepc' = mepc + 1 /\ mepc' \in Pcs
  BY <1>2, PcAssumption DEF Skip, AfterCall, Pcs
<1>6. Types'
  BY <1>4, <1>5 DEF IInv, Types, Skip, scsrs, Modes
<1>7. Top'.kind \in InBody /\ Top'.base = 0
  <2>1. acts \in Seq(Acts)
    BY DEF IInv, Types
  <2>2. acts[1] \in Acts
    BY <2>1, <1>1
  <2>3. QED
    BY <2>2, <1>1, <1>2, <1>3, <1>4 DEF Acts
<1>8. Serving' /\ mpp' = lower'.mode /\ mscratch' = Zero /\ sp' = 0 /\ mepc' = lower'.pc + 1
  BY <1>2, <1>5 DEF Skip, Serving
<1>9. OutsideInv' /\ InsideInv'
  BY <1>1, <1>4, <1>5, <1>7, <1>8, DepthAssumption DEF OutsideInv, InsideInv, AtEntry, InBody, Depths, Skip
<1>10. QED
  BY <1>6, <1>9 DEF IInv

\* An activity on top of one that has no room to spare.
LEMMA Pushed ==
  ASSUME acts \in Seq(Acts), NEW a \in Acts, acts' = Append(acts, a), Len(acts) > 0
  PROVE  /\ acts' \in Seq(Acts) /\ Len(acts') = Len(acts) + 1
         /\ acts'[1] = acts[1] /\ Top' = a
BY DEF Top

\* A trap from machine mode puts its frame below sp.
LEMMA NestedEnter ==
  ASSUME IInv, mode = "M", sp < MaxDepth, Len(acts) > 0,
         NEW kind \in {"fault", "page_fault"}, NEW epc \in Pcs, NEW pp \in {"S", "U"},
         Enter(kind, epc, pp), lower' = lower
  PROVE  /\ Types' /\ mode' = "M" /\ mscratch' = Zero
         /\ sp' = sp + 1 /\ sp' \in Depths /\ sp' > 0 /\ frame'[sp'] = sp /\ frame'[0] = frame[0]
         /\ Len(acts') = Len(acts) + 1 /\ acts'[1] = acts[1]
         /\ Top'.kind = kind /\ Top'.base = sp' /\ Top'.mpp = pp /\ mpp' = "M"
<1>1. sp \in Depths /\ mscratch = Zero
  BY DEF IInv, InsideInv
<1>2. Base = sp + 1
  BY <1>1 DEF Base, Below
<1>3. sp + 1 \in Depths /\ sp + 1 \in 0 .. Stray /\ sp + 1 > 0 /\ 0 \in 0 .. Stray
  BY <1>1, DepthAssumption DEF Depths, Stray
<1>4. Act(kind, sp + 1, epc, pp) \in Acts
  BY <1>3 DEF Act, Acts, Kinds
<1>5. /\ acts' \in Seq(Acts) /\ Len(acts') = Len(acts) + 1 /\ acts'[1] = acts[1]
      /\ Top' = Act(kind, sp + 1, epc, pp)
  <2>1. acts' = Append(acts, Act(kind, sp + 1, epc, pp))
    BY <1>2 DEF Enter
  <2>2. acts \in Seq(Acts)
    BY DEF IInv, Types
  <2>3. QED
    BY <2>1, <2>2, <1>4, Pushed
<1>6. sp' = sp + 1 /\ mscratch' = Zero /\ mode' = "M" /\ mpp' = "M" /\ mepc' = pc
  BY <1>2 DEF Enter
<1>7. frame' = [frame EXCEPT ![sp + 1] = sp]
  BY <1>2 DEF Enter
<1>8. Types'
  BY <1>1, <1>3, <1>5, <1>6, <1>7 DEF IInv, Types, Enter, scsrs, Modes, InMachine
<1>9. frame'[sp'] = sp /\ frame'[0] = frame[0]
  BY <1>3, <1>6, <1>7, <1>1 DEF IInv, Types, Depths
<1>10. QED
  BY <1>3, <1>5, <1>6, <1>8, <1>9 DEF Act

\* The argument of a call cannot be read.
LEMMA LoadFaultsStep == ASSUME IInv, LoadFaults PROVE IInv'
<1>1. mode = "M" /\ Top.kind = "bad_body"
  BY DEF LoadFaults, Doing
<1>2. /\ Len(acts) = 1 /\ Top.base = 0 /\ sp < MaxDepth /\ Serving
      /\ mpp = lower.mode /\ mepc \in Pcs
  BY <1>1 DEF IInv, InsideInv, InBody
<1>3. mpp \in {"S", "U"} /\ Top = acts[1]
  BY <1>2 DEF Serving, Top
<1>4. Enter("page_fault", mepc, mpp) /\ lower' = lower
  BY DEF LoadFaults
<1>5. /\ Types' /\ mode' = "M" /\ mscratch' = Zero
      /\ sp' \in Depths /\ sp' > 0 /\ frame'[0] = frame[0]
      /\ Len(acts') = 2 /\ acts'[1] = acts[1]
      /\ Top'.kind = "page_fault" /\ Top'.base = sp' /\ Top'.mpp = mpp
  BY <1>1, <1>2, <1>3, <1>4, NestedEnter
<1>6. Serving'
  BY <1>2, <1>4, <1>5 DEF Serving
<1>7. OutsideInv' /\ InsideInv'
  BY <1>1, <1>2, <1>3, <1>4, <1>5, <1>6 DEF OutsideInv, InsideInv, AtEntry, InBody
<1>8. QED
  BY <1>5, <1>7 DEF IInv

\* The access of a test in machine mode faults.
LEMMA TestFaultsStep == ASSUME IInv, TestFaults PROVE IInv'
<1>1. mode = "M" /\ Top.kind = "test"
  BY DEF TestFaults, Doing
<1>2. Len(acts) = 1 /\ Top.base = 0 /\ sp < MaxDepth /\ sp \in Depths
  BY <1>1 DEF IInv, InsideInv
<1>3. Top = acts[1]
  BY <1>2 DEF Top
<1>4. Enter("fault", Stvec, "U") /\ lower' = lower /\ Stvec \in Pcs
  BY PcAssumption DEF TestFaults, Stvec, Pcs
<1>5. /\ Types' /\ mode' = "M" /\ mscratch' = Zero
      /\ sp' \in Depths /\ sp' > 0 /\ frame'[sp'] = sp
      /\ Len(acts') = 2 /\ acts'[1] = acts[1]
      /\ Top'.kind = "fault" /\ Top'.base = sp' /\ mpp' = "M"
  BY <1>1, <1>2, <1>4, NestedEnter
<1>6. OutsideInv' /\ InsideInv'
  BY <1>1, <1>2, <1>3, <1>5 DEF OutsideInv, InsideInv, AtEntry, InBody
<1>7. QED
  BY <1>5, <1>6 DEF IInv

\* The activity that is left
LEMMA Popped ==
  ASSUME acts \in Seq(Acts), acts' = Front(acts), Len(acts) > 0
  PROVE  /\ acts' \in Seq(Acts) /\ Len(acts') = Len(acts) - 1
         /\ Len(acts) = 1 => acts' = <<>>
         /\ Len(acts) = 2 => Top' = acts[1]
<1>1. acts' = SubSeq(acts, 1, Len(acts) - 1)
  BY DEF Front
<1>2. Len(acts) \in Nat /\ acts \in [1 .. Len(acts) -> Acts]
  OBVIOUS
<1>3. Len(acts) - 1 \in 0 .. Len(acts)
  BY <1>2
<1>4. acts' = [i \in 1 .. Len(acts) - 1 |-> acts[i]] /\ Len(acts') = Len(acts) - 1
  BY <1>1, <1>2, <1>3
<1>5. acts' \in Seq(Acts)
  BY <1>1, <1>2, <1>3
<1>6. Len(acts) = 1 => acts' = <<>>
  BY <1>4, <1>5
<1>7. Len(acts) = 2 => Top' = acts[1]
  BY <1>4 DEF Top
<1>8. QED
  BY <1>4, <1>5, <1>6, <1>7

\* A handler of the lower modes returns to them.
LEMMA LeaveLower ==
  ASSUME IInv, mode = "M", sp = 0, Len(acts) = 1, Serving, mpp = lower.mode,
         NEW p \in Pcs, Leave(p), mepc' = p
  PROVE  IInv' /\ sp' = lower.sp /\ mode' = lower.mode /\ pc' = p
<1>1. mpp \in {"S", "U"} /\ frame[0] = lower.sp /\ lower.sp \in LowerSps
  BY DEF Serving
<1>2. mscratch' = 0 /\ sp' = lower.sp /\ mode' = lower.mode /\ pc' = p /\ mpp' = "U"
  BY <1>1 DEF Leave, NewMscratch
<1>3. acts' = <<>> /\ acts' \in Seq(Acts)
  BY Popped DEF IInv, Types, Leave
<1>4. Types'
  BY <1>1, <1>2, <1>3 DEF IInv, Types, Leave, scsrs, Modes
<1>5. OutsideInv' /\ InsideInv'
  BY <1>1, <1>2, <1>3 DEF OutsideInv, InsideInv
<1>6. QED
  BY <1>2, <1>4, <1>5 DEF IInv

\* A call returns, behind the call.
LEMMA ReturnStep ==
  ASSUME IInv, Return
  PROVE  IInv' /\ sp' = lower.sp /\ mode' = lower.mode /\ pc' = lower.pc + 1
<1>1. mode = "M" /\ Top.kind = "call_body"
  BY DEF Return, Doing
<1>2. /\ Len(acts) = 1 /\ sp = 0 /\ Serving /\ mpp = lower.mode
      /\ mepc \in Pcs /\ mepc = lower.pc + 1
  BY <1>1 DEF IInv, InsideInv, InBody, Return
<1>3. Leave(mepc) /\ mepc' = mepc
  BY DEF Return
<1>4. QED
  BY <1>1, <1>2, <1>3, LeaveLower

\* A misaligned access is tried again.
LEMMA MisalignedStep ==
  ASSUME IInv, Misaligned
  PROVE  IInv' /\ sp' = lower.sp /\ mode' = lower.mode /\ pc' = lower.pc
<1>1. mode = "M" /\ Top.kind = "misaligned"
  BY DEF Misaligned, Doing
<1>2. Len(acts) = 1 /\ sp = 0 /\ Serving /\ mpp = lower.mode /\ mepc \in Pcs /\ mepc = lower.pc
  BY <1>1 DEF IInv, InsideInv, AtEntry
<1>3. Leave(mepc) /\ mepc' = mepc
  BY DEF Misaligned
<1>4. QED
  BY <1>1, <1>2, <1>3, LeaveLower

\* An expected fault resumes, in a lower mode or in the test of machine mode.
LEMMA ResumeStep == ASSUME IInv, NEW p \in Pcs, Resume(p) PROVE IInv'
<1>1. mode = "M" /\ Top.kind = "fault"
  BY DEF Resume, Doing
<1>2. CASE Len(acts) = 1 /\ sp = 0 /\ Serving /\ mpp = lower.mode
  <2>1. mpp # "M"
    BY <1>2 DEF Serving
  <2>2. Leave(p) /\ mepc' = p
    BY <2>1 DEF Resume
  <2>3. QED
    BY <1>1, <1>2, <2>2, LeaveLower
<1>3. CASE /\ Len(acts) = 2 /\ acts[1].kind = "test" /\ acts[1].base = 0
           /\ sp > 0 /\ mpp = "M" /\ frame[sp] \in Depths /\ frame[sp] < MaxDepth
  <2>1. Leave(InMachine) /\ mepc' = InMachine /\ mscratch = Zero
    BY <1>1, <1>3 DEF Resume, IInv, InsideInv
  <2>2. acts' \in Seq(Acts) /\ Len(acts') = 1 /\ Top' = acts[1]
    BY <1>3, <2>1, Popped DEF IInv, Types, Leave
  <2>3. mode' = "M" /\ sp' = frame[sp] /\ mscratch' = Zero /\ mpp' = "U" /\ pc' = InMachine
    BY <1>3, <2>1 DEF Leave, NewMscratch
  <2>4. Types'
    BY <2>1, <2>2, <2>3 DEF IInv, Types, Leave, scsrs, Modes, InMachine
  <2>5. OutsideInv' /\ InsideInv'
    BY <1>3, <2>2, <2>3 DEF OutsideInv, InsideInv, AtEntry, InBody
  <2>6. QED
    BY <2>4, <2>5 DEF IInv
<1>4. QED
  BY <1>1, <1>2, <1>3 DEF IInv, InsideInv

\* A page fault on a call's argument goes to the supervisor.
LEMMA RedirectStep ==
  ASSUME IInv, Redirect
  PROVE  IInv' /\ sp' = lower.sp /\ spp' = lower.mode /\ mode' = "S"
<1>1. mode = "M" /\ Top.kind = "page_fault"
  BY DEF Redirect, Doing
<1>2. Len(acts) = 2 /\ Serving /\ Top.mpp = lower.mode /\ sp \in Depths
  BY <1>1 DEF IInv, InsideInv
<1>3. TopFrame(sp) = 0
  BY <1>2, TopIsTop
<1>4. /\ mscratch' = 0 /\ sp' = lower.sp /\ spp' = lower.mode /\ mode' = "S"
      /\ pc' = Stvec /\ acts' = <<>>
  BY <1>2, <1>3 DEF Redirect, Mpp, Serving
<1>5. Top \in Acts
  <2>1. acts \in Seq(Acts)
    BY DEF IInv, Types
  <2>2. acts[2] \in Acts /\ Top = acts[2]
    BY <2>1, <1>2 DEF Top
  <2>3. QED
    BY <2>2
<1>6. Types'
  <2>1. sepc' \in Pcs /\ spp' \in {"S", "U"}
    BY <1>2, <1>4, <1>5 DEF Redirect, Acts, Serving
  <2>2. Stvec \in Pcs /\ <<>> \in Seq(Acts)
    BY PcAssumption DEF Stvec, Pcs
  <2>3. QED
    BY <2>1, <2>2, <1>4 DEF IInv, Types, Redirect, Modes
<1>7. OutsideInv' /\ InsideInv'
  <2>1. Stvec \in Pcs
    BY PcAssumption DEF Stvec, Pcs
  <2>2. QED
    BY <2>1, <1>2, <1>4 DEF OutsideInv, InsideInv, Serving
<1>8. QED
  BY <1>4, <1>6, <1>7 DEF IInv

\* A lower mode is entered.
LEMMA EnterModeStep ==
  ASSUME IInv, NEW m \in {"S", "U"}, NEW s \in LowerSps, EnterMode(m, s)
  PROVE  IInv'
<1>1. sp \in Depths
  BY DEF IInv, InsideInv, EnterMode, Doing
<1>2. mscratch' = 0 /\ sp' = s /\ mode' = m /\ pc' = Stvec /\ acts' = <<>> /\ mpp' = "U" /\ mepc' = Stvec
  BY <1>1, TopIsTop DEF EnterMode
<1>3. Stvec \in Pcs /\ <<>> \in Seq(Acts)
  BY PcAssumption DEF Stvec, Pcs
<1>4. Types'
  BY <1>2, <1>3 DEF IInv, Types, EnterMode, scsrs, Modes
<1>5. OutsideInv' /\ InsideInv'
  BY <1>2, <1>3 DEF OutsideInv, InsideInv
<1>6. QED
  BY <1>4, <1>5 DEF IInv

\* Machine mode gives up.
LEMMA DieStep == ASSUME IInv, Die PROVE IInv'
<1>1. mode = "M" /\ Top.kind \in {"fault", "bad_body", "usertest_body"} /\ sp \in Depths
      /\ Len(acts) > 0 /\ mscratch = Zero
  BY DEF Die, Doing, IInv, InsideInv
<1>2. /\ Len(acts) \in 1 .. 2 /\ (acts[1].kind # "test" => Serving)
      /\ Len(acts) = 2 => acts[1].kind = "test" /\ acts[1].base = 0 /\ acts[2].base > 0
  BY <1>1 DEF IInv, InsideInv, InBody, Top
<1>3. Act("die", sp, Stvec, "U") \in Acts
  BY <1>1, PcAssumption DEF Act, Acts, Kinds, Stvec, Pcs
<1>4. /\ acts' \in Seq(Acts) /\ Len(acts') = Len(acts) + 1 /\ acts'[1] = acts[1]
      /\ Len(acts) = 2 => acts'[2] = acts[2]
      /\ Top' = Act("die", sp, Stvec, "U")
  BY <1>1, <1>3, Pushed DEF Die, IInv, Types
<1>5. Types'
  BY <1>4 DEF IInv, Types, Die, scsrs
<1>6. OutsideInv' /\ InsideInv'
  <2>1. (Serving' <=> Serving) /\ Top'.kind = "die" /\ Top'.base = sp
    BY <1>4 DEF Die, Serving, Act
  <2>2. QED
    BY <1>1, <1>2, <1>4, <2>1 DEF OutsideInv, InsideInv, AtEntry, InBody, Die
<1>7. QED
  BY <1>5, <1>6 DEF IInv

\* Every step keeps the invariant.
LEMMA Inductive == IInv /\ [Next]_vars => IInv'
<1>1. SUFFICES ASSUME IInv, [Next]_vars PROVE IInv'
  OBVIOUS
<1>2. CASE \E m \in {"S", "U"}, p \in Pcs, s \in LowerSps : Run(m, p, s)
  BY <1>1, <1>2, RunStep
<1>3. CASE \E kind \in {"call", "bad", "usertest", "fault", "misaligned"} : Exception(kind)
  <2>1. PICK kind \in AtEntry \cup {"fault"} : Exception(kind)
    BY <1>3 DEF AtEntry
  <2>2. QED
    BY <1>1, <2>1, ExceptionStep
<1>4. CASE Interrupt
  BY <1>1, <1>4, InterruptStep
<1>5. CASE \E d \in Depths : Move(d)
  BY <1>1, <1>5, MoveStep
<1>6. CASE Skip \/ LoadFaults \/ TestFaults
  BY <1>1, <1>6, SkipStep, LoadFaultsStep, TestFaultsStep
<1>7. CASE Return \/ Misaligned
  BY <1>1, <1>7, ReturnStep, MisalignedStep
<1>8. CASE \E p \in Pcs : Resume(p)
  BY <1>1, <1>8, ResumeStep
<1>9. CASE Redirect \/ Die
  BY <1>1, <1>9, RedirectStep, DieStep
<1>10. CASE \E m \in {"S", "U"}, s \in LowerSps : EnterMode(m, s)
  BY <1>1, <1>10, EnterModeStep
<1>11. CASE UNCHANGED vars
  BY <1>1, <1>11 DEF vars, IInv, Types, OutsideInv, InsideInv, Serving, Top
<1>12. QED
  BY <1>1, <1>2, <1>3, <1>4, <1>5, <1>6, <1>7, <1>8, <1>9, <1>10, <1>11 DEF Next

LEMMA AlwaysIInv == Spec => []IInv
  BY InitInv, Inductive, PTL DEF Spec

\* The variables keep their types, so a frame never lies below the stack's
\* bound and every resumption is at a place of the mode it is in.
THEOREM TypeCorrect == Spec => []TypeOK
<1>1. IInv => TypeOK
  <2>1. SUFFICES ASSUME IInv PROVE TypeOK
    OBVIOUS
  <2>2. sp \in Depths \cup LowerSps /\ mscratch \in Depths \cup {Zero}
    BY <2>1, DepthAssumption DEF IInv, Types, OutsideInv, InsideInv, Depths
  <2>3. QED
    BY <2>1, <2>2 DEF IInv, Types, TypeOK, Acts
<1>2. QED
  BY AlwaysIInv, <1>1, PTL

\* mscratch is the top of the stack in the lower modes and 0 in machine mode:
\* no abandoned handler makes the stack grow.
THEOREM MscratchKept == Spec => []MscratchDiscipline
<1>1. IInv => MscratchDiscipline
  BY DEF IInv, OutsideInv, InsideInv, MscratchDiscipline
<1>2. QED
  BY AlwaysIInv, <1>1, PTL

\* No frame of a nested trap overlaps the frame of the handler it interrupts.
THEOREM FramesKept == Spec => []FramesApart
<1>1. IInv => FramesApart
  <2>1. SUFFICES ASSUME IInv, mode = "M" PROVE FramesApart
    BY DEF FramesApart
  <2>2. acts \in Seq(Acts) /\ Len(acts) \in 1 .. 3 /\ sp \in Depths /\ Top = acts[Len(acts)]
    BY <2>1 DEF IInv, Types, InsideInv, Top
  <2>3. Top.kind \in Kinds /\ Top \in Acts
    <3>1. acts[Len(acts)] \in Acts
      BY <2>2
    <3>2. QED
      BY <3>1, <2>2 DEF Acts
  <2>4. sp >= Top.base
    BY <2>1, <2>2, <2>3 DEF IInv, InsideInv, Kinds, AtEntry, InBody, Depths
  <2>5. ASSUME NEW i \in DOMAIN acts, NEW j \in DOMAIN acts, i < j, acts[j].kind # "die"
        PROVE  acts[i].base < acts[j].base
    <3>1. i \in 1 .. Len(acts) /\ j \in 1 .. Len(acts)
      BY <2>2, <2>5
    <3>2. CASE Len(acts) = 3
      <4>1. Top.kind = "die" /\ acts[1].base = 0 /\ acts[2].base > 0
        BY <2>1, <2>3, <3>2 DEF IInv, InsideInv, Kinds, AtEntry, InBody
      <4>2. i = 1 /\ j = 2
        BY <2>2, <2>5, <3>1, <3>2, <4>1
      <4>3. QED
        BY <4>1, <4>2, <2>2 DEF Acts
    <3>3. CASE Len(acts) = 2
      <4>1. i = 1 /\ j = 2 /\ Top = acts[2]
        BY <2>2, <2>5, <3>1, <3>3
      <4>2. acts[1].base = 0 /\ Top.base > 0
        BY <2>1, <2>2, <2>3, <2>5, <3>3, <4>1 DEF IInv, InsideInv, Kinds, AtEntry, InBody
      <4>3. QED
        BY <4>1, <4>2
    <3>4. QED
      BY <2>2, <2>5, <3>1, <3>2, <3>3
  <2>6. QED
    BY <2>2, <2>4, <2>5 DEF FramesApart
<1>2. QED
  BY AlwaysIInv, <1>1, PTL

\* The frame at the top keeps the registers of the lower mode that is served,
\* through nested faults and until the machine gives up.
THEOREM RegistersKept == Spec => []LowerKept
<1>1. IInv => LowerKept
  <2>1. SUFFICES ASSUME IInv, mode = "M", acts[1].kind # "test" PROVE frame[0] = lower.sp
    BY DEF LowerKept
  <2>2. acts \in Seq(Acts) /\ Len(acts) \in 1 .. 3 /\ Top = acts[Len(acts)]
    BY <2>1 DEF IInv, Types, InsideInv, Top
  <2>3. Top.kind \in Kinds
    <3>1. acts[Len(acts)] \in Acts
      BY <2>2
    <3>2. QED
      BY <3>1, <2>2 DEF Acts
  <2>4. Serving
    BY <2>1, <2>2, <2>3 DEF IInv, InsideInv, Kinds, AtEntry, InBody
  <2>5. QED
    BY <2>4 DEF Serving
<1>2. QED
  BY AlwaysIInv, <1>1, PTL

\* A handler that returns restores registers and mode, behind a call and at a
\* misaligned access.
THEOREM CallsReturn == Spec => ReturnsWhereItCame
<1>1. ASSUME IInv, Return \/ Misaligned
      PROVE  /\ sp' = lower.sp /\ mode' = lower.mode
             /\ pc' = IF Return THEN lower.pc + 1 ELSE lower.pc
  <2>1. CASE Return
    BY <1>1, <2>1, ReturnStep
  <2>2. CASE Misaligned
    <3>1. ~Return
      BY <2>2 DEF Return, Misaligned, Doing
    <3>2. QED
      BY <1>1, <2>2, <3>1, MisalignedStep
  <2>3. QED
    BY <1>1, <2>1, <2>2
<1>2. QED
  BY AlwaysIInv, <1>1, PTL DEF Spec, ReturnsWhereItCame

\* A redirected page fault reaches S-mode with the registers of the lower mode
\* and as a fault of that mode.
THEOREM RedirectsRight == Spec => RedirectsAsTrap
<1>1. ASSUME IInv, Redirect
      PROVE  sp' = lower.sp /\ spp' = lower.mode /\ mode' = "S"
  BY <1>1, RedirectStep
<1>2. QED
  BY AlwaysIInv, <1>1, PTL DEF Spec, RedirectsAsTrap
=============================================================================
