------------------------- MODULE FaultHarnessProofs -------------------------
(***************************************************************************)
(* What a test reports, proved for any kinds of access, any targets, any   *)
(* sequence of tests, and a processor that may fault anywhere; then the    *)
(* run of mpu_tag as one of these, and what its SUCCESS says.              *)
(***************************************************************************)
EXTENDS TagTests, TLAPS

(* The record describes the running test as far as it is written, and the  *)
(* counter and the history agree on what the access has done.              *)
RecordInv ==
  /\ pc # Idle => pc[2] = test.kind
  /\ pc[1] \in {"epc", "resume_pc", "access", "fault", "end"} => expected_fault.cause = test.ecause
  /\ pc[1] \in {"resume_pc", "access", "fault", "end"} => expected_fault.epc = Epc(test)
  /\ pc[1] \in {"access", "fault", "end"} => expected_fault.resume_pc = Label("fault", test.kind)

OutcomeInv ==
  verdict = "running" =>
    /\ pc[1] \in {"cause", "epc", "resume_pc", "access"} => isfault = 0
    /\ pc[1] = "fault" => isfault = 0 /\ did = test.ecause /\ did # Success
    /\ pc[1] = "end" => \/ isfault = 0 /\ did = Success
                        \/ isfault = 1 /\ did = test.ecause /\ did # Success

IInv == HarnessTypeOK /\ RecordInv /\ OutcomeInv

(* A place in a test function is a pair, and no place but "access" and no  *)
(* target of a fetch is the address in a record.                           *)
LEMMA PlaceOfPc ==
  ASSUME HarnessTypeOK
  PROVE  /\ pc = <<pc[1], pc[2]>>
         /\ pc # Idle => pc[1] \in Places /\ pc[2] \in Kinds
         /\ pc = Idle => pc[1] = "idle"
  BY DEF HarnessTypeOK, Idle, Places

LEMMA StrayNeverExpected ==
  ASSUME HarnessTypeOK, pc[1] # "access", NEW c \in Causes
  PROVE  ~Expected(c, pc)
  <1>1. expected_fault.epc \in Epcs
    BY DEF HarnessTypeOK
  <1>2. expected_fault.epc[1] \in {"zero", "target", "access"}
    BY <1>1 DEF Epcs, Zero
  <1>3. pc[1] \notin {"zero", "target", "access"}
    BY DEF HarnessTypeOK, Idle, Places
  <1> QED BY <1>2, <1>3 DEF Expected

LEMMA EpcTyped ==
  ASSUME NEW t \in Tests
  PROVE  Epc(t) \in Epcs
  BY DEF Epc, Epcs, Label, Tests

LEMMA AtPlace ==
  ASSUME NEW place \in Places, At(place), HarnessTypeOK
  PROVE  pc[1] = place /\ pc[2] \in Kinds /\ pc # Idle /\ verdict = "running"
  BY DEF At, Label, Places, Idle

LEMMA InitIInv == Init => IInv
<1> SUFFICES ASSUME Init PROVE IInv
  OBVIOUS
<1>1. pc[1] = "idle" /\ pc = Idle
  BY DEF Init, Idle
<1>2. expected_fault \in [cause : Causes \cup {Success}, epc : Epcs, resume_pc : Resumes]
  <2>1. Zero \in Epcs /\ Zero \in Resumes
    BY DEF Epcs, Resumes
  <2>2. expected_fault = [cause |-> "misaligned_fetch", epc |-> Zero, resume_pc |-> Zero]
    BY DEF Init
  <2>3. "misaligned_fetch" \in Causes
    BY HarnessAssumption DEF HarnessAssumption
  <2>4. QED
    BY <2>1, <2>2, <2>3
<1>3. HarnessTypeOK
  BY <1>1, <1>2 DEF Init, HarnessTypeOK
<1>4. RecordInv /\ OutcomeInv
  BY <1>1 DEF RecordInv, OutcomeInv
<1>5. QED
  BY <1>3, <1>4 DEF IInv

LEMMA BeginIInv ==
  ASSUME IInv, NEW t \in Tests, Begin(t)
  PROVE  IInv'
<1>1. pc' = <<"cause", t.kind>> /\ pc'[1] = "cause" /\ pc'[2] = t.kind
  BY DEF Begin, Label
<1>2. t.kind \in Kinds
  BY DEF Tests
<1>3. HarnessTypeOK'
  BY <1>1, <1>2 DEF IInv, HarnessTypeOK, Begin, Places
<1>4. RecordInv'
  BY <1>1 DEF Begin, RecordInv
<1>5. OutcomeInv'
  BY <1>1 DEF Begin, OutcomeInv
<1>6. QED
  BY <1>3, <1>4, <1>5 DEF IInv

\* The three stores: one field each, and the next place.
LEMMA SetCauseIInv == IInv /\ SetCause => IInv'
<1> SUFFICES ASSUME IInv, SetCause PROVE IInv'
  OBVIOUS
<1>1. pc[1] = "cause" /\ pc[2] \in Kinds /\ pc # Idle /\ verdict = "running"
  BY AtPlace DEF SetCause, IInv, Places
<1>2. pc' = <<"epc", pc[2]>> /\ pc'[1] = "epc" /\ pc'[2] = pc[2]
  BY DEF SetCause, Goto, Label
<1>3. test.ecause \in Causes \cup {Success}
  BY DEF IInv, HarnessTypeOK, Tests
<1>4. HarnessTypeOK'
  BY <1>1, <1>2, <1>3 DEF IInv, HarnessTypeOK, SetCause, Places
<1>5. RecordInv'
  BY <1>1, <1>2 DEF IInv, HarnessTypeOK, RecordInv, SetCause
<1>6. OutcomeInv'
  BY <1>1, <1>2 DEF IInv, OutcomeInv, SetCause
<1>7. QED
  BY <1>4, <1>5, <1>6 DEF IInv

LEMMA SetEpcIInv == IInv /\ SetEpc => IInv'
<1> SUFFICES ASSUME IInv, SetEpc PROVE IInv'
  OBVIOUS
<1>1. pc[1] = "epc" /\ pc[2] \in Kinds /\ pc # Idle /\ verdict = "running"
  BY AtPlace DEF SetEpc, IInv, Places
<1>2. pc' = <<"resume_pc", pc[2]>> /\ pc'[1] = "resume_pc" /\ pc'[2] = pc[2]
  BY DEF SetEpc, Goto, Label
<1>3. Epc(test) \in Epcs /\ Epc(test)' = Epc(test)
  BY EpcTyped DEF IInv, HarnessTypeOK, SetEpc, Epc
<1>4. HarnessTypeOK'
  BY <1>1, <1>2, <1>3 DEF IInv, HarnessTypeOK, SetEpc, Places
<1>5. RecordInv'
  BY <1>1, <1>2, <1>3 DEF IInv, HarnessTypeOK, RecordInv, SetEpc
<1>6. OutcomeInv'
  BY <1>1, <1>2 DEF IInv, OutcomeInv, SetEpc
<1>7. QED
  BY <1>4, <1>5, <1>6 DEF IInv

LEMMA SetResumeIInv == IInv /\ SetResume => IInv'
<1> SUFFICES ASSUME IInv, SetResume PROVE IInv'
  OBVIOUS
<1>1. pc[1] = "resume_pc" /\ pc[2] \in Kinds /\ pc # Idle /\ verdict = "running"
  BY AtPlace DEF SetResume, IInv, Places
<1>2. pc' = <<"access", pc[2]>> /\ pc'[1] = "access" /\ pc'[2] = pc[2]
  BY DEF SetResume, Goto, Label
<1>3. Label("fault", pc[2]) \in Resumes /\ pc[2] = test.kind
  BY <1>1 DEF IInv, RecordInv, Label, Resumes
<1>4. HarnessTypeOK'
  BY <1>1, <1>2, <1>3 DEF IInv, HarnessTypeOK, SetResume, Places
<1>5. RecordInv'
  BY <1>1, <1>2, <1>3 DEF IInv, HarnessTypeOK, RecordInv, SetResume, Label, Epc
<1>6. OutcomeInv'
  BY <1>1, <1>2 DEF IInv, OutcomeInv, SetResume
<1>7. QED
  BY <1>4, <1>5, <1>6 DEF IInv

-----------------------------------------------------------------------------
\* At the access the record is complete, so what test_fault does is known.
LEMMA AccessFaultsResult ==
  ASSUME IInv, NEW c \in Causes, AccessFaults(c)
  PROVE  /\ pc = Label("access", test.kind) /\ verdict = "running" /\ isfault = 0
         /\ \/ c = test.ecause /\ pc' = Label("fault", test.kind) /\ verdict' = verdict
            \/ c # test.ecause /\ verdict' = "died" /\ pc' = pc
<1>1. pc[1] = "access" /\ pc[2] \in Kinds /\ pc # Idle /\ verdict = "running"
  BY AtPlace DEF AccessFaults, IInv, Places
<1>2. pc = Label("access", test.kind)
  BY <1>1 DEF IInv, RecordInv, AccessFaults, At
<1>3. expected_fault.cause = test.ecause /\ expected_fault.epc = Epc(test)
      /\ expected_fault.resume_pc = Label("fault", test.kind)
  BY <1>1 DEF IInv, RecordInv
<1>4. Expected(c, Epc(test)) <=> c = test.ecause
  BY <1>3 DEF Expected
<1>5. Continue = Label("fault", test.kind)
  BY <1>3 DEF Continue, Label, Zero
<1>6. isfault = 0
  BY <1>1 DEF IInv, OutcomeInv
<1>7. QED
  BY <1>1, <1>2, <1>4, <1>5, <1>6 DEF AccessFaults, TestFault

LEMMA AccessFaultsIInv ==
  ASSUME IInv, NEW c \in Causes, AccessFaults(c)
  PROVE  IInv'
<1>1. pc[1] = "access" /\ pc[2] \in Kinds /\ pc # Idle /\ verdict = "running" /\ pc[2] = test.kind
  BY AtPlace DEF AccessFaults, IInv, Places, RecordInv
<1>2. did' = c /\ UNCHANGED <<test, isfault, expected_fault>> /\ isfault = 0
  BY AccessFaultsResult DEF AccessFaults
<1>3. Epc(test)' = Epc(test)
  BY <1>2 DEF Epc
<1>4. CASE c = test.ecause /\ pc' = Label("fault", test.kind) /\ verdict' = verdict
  <2>1. pc' = <<"fault", test.kind>> /\ pc'[1] = "fault" /\ pc'[2] = test.kind
    BY <1>4 DEF Label
  <2>2. HarnessTypeOK'
    BY <1>1, <1>2, <1>4, <2>1 DEF IInv, HarnessTypeOK, Places
  <2>3. RecordInv'
    BY <1>1, <1>2, <1>3, <2>1 DEF IInv, RecordInv, Label
  <2>4. c # Success
    BY HarnessAssumption DEF HarnessAssumption
  <2>5. isfault' = 0 /\ did' = test'.ecause /\ did' # Success
    BY <1>2, <1>4, <2>4
  <2>6. OutcomeInv'
    BY <2>1, <2>5 DEF OutcomeInv
  <2>7. QED
    BY <2>2, <2>3, <2>6 DEF IInv
<1>5. CASE c # test.ecause /\ verdict' = "died" /\ pc' = pc
  BY <1>1, <1>2, <1>3, <1>5 DEF IInv, HarnessTypeOK, RecordInv, OutcomeInv, Label
<1>6. QED
  BY <1>4, <1>5, AccessFaultsResult

LEMMA AccessDoneIInv == IInv /\ AccessDone => IInv'
<1> SUFFICES ASSUME IInv, AccessDone PROVE IInv'
  OBVIOUS
<1>1. pc[1] = "access" /\ pc[2] \in Kinds /\ pc # Idle /\ verdict = "running"
  BY AtPlace DEF AccessDone, IInv, Places
<1>2. pc' = <<"end", pc[2]>> /\ pc'[1] = "end" /\ pc'[2] = pc[2]
  BY DEF AccessDone, Goto, Label
<1>3. HarnessTypeOK'
  BY <1>1, <1>2 DEF IInv, HarnessTypeOK, AccessDone, Places
<1>4. RecordInv'
  BY <1>1, <1>2 DEF IInv, RecordInv, AccessDone, Label, Epc
<1>5. OutcomeInv'
  BY <1>1, <1>2 DEF IInv, OutcomeInv, AccessDone
<1>6. QED
  BY <1>3, <1>4, <1>5 DEF IInv

\* Any other fault ends the run where it struck.
LEMMA StrayDies ==
  ASSUME IInv, NEW c \in Causes, Stray(c)
  PROVE  pc' = pc /\ verdict' = "died" /\ UNCHANGED <<test, isfault, expected_fault, did>>
  BY StrayNeverExpected DEF IInv, Stray, TestFault

LEMMA StrayIInv ==
  ASSUME IInv, NEW c \in Causes, Stray(c)
  PROVE  IInv'
  BY StrayDies DEF IInv, HarnessTypeOK, RecordInv, OutcomeInv, Label, Epc

LEMMA CountFaultIInv == IInv /\ CountFault => IInv'
<1> SUFFICES ASSUME IInv, CountFault PROVE IInv'
  OBVIOUS
<1>1. pc[1] = "fault" /\ pc[2] \in Kinds /\ pc # Idle /\ verdict = "running"
  BY AtPlace DEF CountFault, IInv, Places
<1>2. pc' = <<"end", pc[2]>> /\ pc'[1] = "end" /\ pc'[2] = pc[2]
  BY DEF CountFault, Goto, Label
<1>3. isfault' = 1
  BY <1>1 DEF IInv, OutcomeInv, CountFault
<1>4. HarnessTypeOK'
  BY <1>1, <1>2, <1>3 DEF IInv, HarnessTypeOK, CountFault, Places
<1>5. RecordInv'
  BY <1>1, <1>2 DEF IInv, RecordInv, CountFault, Label, Epc
<1>6. OutcomeInv'
  BY <1>1, <1>2, <1>3 DEF IInv, OutcomeInv, CountFault
<1>7. QED
  BY <1>4, <1>5, <1>6 DEF IInv

LEMMA TestEndIInv == IInv /\ TestEnd => IInv'
<1> SUFFICES ASSUME IInv, TestEnd PROVE IInv'
  OBVIOUS
<1>1. pc' = Idle /\ pc'[1] = "idle"
  BY DEF TestEnd, Idle
<1>2. QED
  BY <1>1 DEF IInv, HarnessTypeOK, RecordInv, OutcomeInv, TestEnd

\* Once the run has stopped, only the record is left to describe the test.
LEMMA StopIInv ==
  ASSUME IInv, verdict' \in {"success", "failed"}, UNCHANGED <<pc, test, isfault, expected_fault, did>>
  PROVE  IInv'
  BY DEF IInv, HarnessTypeOK, RecordInv, OutcomeInv, Label, Epc

LEMMA NextIInv == IInv /\ [Next]_harnessVars => IInv'
<1> SUFFICES ASSUME IInv, [Next]_harnessVars PROVE IInv'
  OBVIOUS
<1>1. ASSUME NEW t \in Tests, Begin(t) PROVE IInv'
  BY <1>1, BeginIInv
<1>2. CASE SetCause \/ SetEpc \/ SetResume
  BY <1>2, SetCauseIInv, SetEpcIInv, SetResumeIInv
<1>3. CASE AccessDone
  BY <1>3, AccessDoneIInv
<1>4. ASSUME NEW c \in Causes, AccessFaults(c) PROVE IInv'
  BY <1>4, AccessFaultsIInv
<1>5. CASE CountFault
  BY <1>5, CountFaultIInv
<1>6. CASE TestEnd
  BY <1>6, TestEndIInv
<1>7. CASE TestFail
  BY <1>7, StopIInv DEF TestFail
<1>8. ASSUME NEW c \in Causes, Stray(c) PROVE IInv'
  BY <1>8, StrayIInv
<1>9. ASSUME NEW v \in {"success", "failed"}, Shutdown(v) PROVE IInv'
  BY <1>9, StopIInv DEF Shutdown
<1>10. CASE UNCHANGED harnessVars
  BY <1>10 DEF harnessVars, IInv, HarnessTypeOK, RecordInv, OutcomeInv, Label, Epc
<1>11. QED
  BY <1>1, <1>2, <1>3, <1>4, <1>5, <1>6, <1>7, <1>8, <1>9, <1>10 DEF Next

LEMMA Inductive == HarnessSpec => []IInv
  BY InitIInv, NextIInv, PTL DEF HarnessSpec

-----------------------------------------------------------------------------
\* The variables of the harness keep their types, isfault its single count.
THEOREM TypeCorrect == HarnessSpec => []HarnessTypeOK
<1>1. IInv => HarnessTypeOK
  BY DEF IInv
<1>2. QED
  BY <1>1, Inductive, PTL

\* A test is reported as succeeded only if its access did what it expects.
THEOREM PassesAreHonest == HarnessSpec => PassMeansExpected
<1>1. ASSUME IInv, [Next]_harnessVars
      PROVE  [(pc[1] = "end" /\ pc' = Idle) => did = test.ecause]_harnessVars
  <2> SUFFICES ASSUME pc[1] = "end", pc' = Idle PROVE did = test.ecause \/ UNCHANGED harnessVars
    OBVIOUS
  <2>1. pc # Idle
    BY DEF Idle
  <2>2. CASE TestEnd
    <3>1. verdict = "running" /\ ((test.ecause = Success) # (isfault # 0))
      BY <2>2 DEF TestEnd, AsExpected, At
    <3>2. (isfault = 0 /\ did = Success) \/ (isfault = 1 /\ did = test.ecause)
      BY <1>1, <3>1 DEF IInv, OutcomeInv
    <3>3. CASE isfault = 0 /\ did = Success
      BY <3>1, <3>3
    <3>4. QED
      BY <3>2, <3>3
  <2>3. CASE SetCause \/ SetEpc \/ SetResume \/ AccessDone \/ CountFault
    BY <2>3 DEF SetCause, SetEpc, SetResume, AccessDone, CountFault, Goto, Label, Idle
  <2>4. CASE TestFail
    BY <2>1, <2>4 DEF TestFail
  <2>5. ASSUME NEW t \in Tests, Begin(t) PROVE FALSE
    BY <2>1, <2>5 DEF Begin, Between
  <2>6. ASSUME NEW c \in Causes, AccessFaults(c) PROVE FALSE
    <3>1. pc = <<"access", test.kind>>
      BY <1>1, <2>6, AccessFaultsResult DEF Label
    <3>2. QED
      BY <3>1
  <2>7. ASSUME NEW c \in Causes, Stray(c) PROVE FALSE
    BY <1>1, <2>1, <2>7, StrayDies
  <2>8. ASSUME NEW v \in {"success", "failed"}, Shutdown(v) PROVE FALSE
    BY <2>1, <2>8 DEF Shutdown, Between
  <2>9. QED
    BY <1>1, <2>2, <2>3, <2>4, <2>5, <2>6, <2>7, <2>8 DEF Next
<1>2. QED
  BY <1>1, Inductive, PTL DEF HarnessSpec, PassMeansExpected

\* A handled fault resumes in the test that is running and nowhere else.
THEOREM ResumesAtHome == HarnessSpec => ResumesWhereItRan
<1>1. ASSUME IInv, [Next]_harnessVars
      PROVE  [(pc' # pc /\ pc'[1] = "fault") =>
               pc = Label("access", test.kind) /\ pc' = Label("fault", test.kind)]_harnessVars
  <2> SUFFICES ASSUME pc' # pc, pc'[1] = "fault", Next
               PROVE  pc = Label("access", test.kind) /\ pc' = Label("fault", test.kind)
    BY <1>1 DEF harnessVars
  <2>1. CASE SetCause \/ SetEpc \/ SetResume \/ AccessDone \/ CountFault
    BY <2>1 DEF SetCause, SetEpc, SetResume, AccessDone, CountFault, Goto, Label
  <2>2. CASE TestEnd \/ TestFail
    BY <2>2 DEF TestEnd, TestFail, Idle
  <2>3. ASSUME NEW t \in Tests, Begin(t) PROVE FALSE
    BY <2>3 DEF Begin, Label
  <2>4. ASSUME NEW c \in Causes, AccessFaults(c)
        PROVE  pc = Label("access", test.kind) /\ pc' = Label("fault", test.kind)
    BY <1>1, <2>4, AccessFaultsResult
  <2>5. ASSUME NEW c \in Causes, Stray(c) PROVE FALSE
    BY <1>1, <2>5, StrayDies
  <2>6. ASSUME NEW v \in {"success", "failed"}, Shutdown(v) PROVE FALSE
    BY <2>6 DEF Shutdown
  <2>7. QED
    BY <2>1, <2>2, <2>3, <2>4, <2>5, <2>6 DEF Next
<1>2. QED
  BY <1>1, Inductive, PTL DEF HarnessSpec, ResumesWhereItRan

-----------------------------------------------------------------------------
(* The run of mpu_tag is one of the harness: the place in the script is    *)
(* that of an operation, which is a test while one runs, and the counter   *)
(* of user tests follows from it.                                          *)
CountInv ==
  /\ flow \in DOMAIN Script /\ step \in DOMAIN Script[flow]
  /\ pc # Idle => op.op \in Calls
  /\ current_usertest = IF flow \notin 0..LastFlow THEN 0
                        ELSE IF flow # LastFlow /\ Counted(flow, step) THEN flow + 1 ELSE flow

\* The suites are numbered, and the operations of each one.
LEMMA FlowNumbers ==
  DOMAIN Script = MachineFlow..LastFlow /\ MachineFlow = -2 /\ SupervisorFlow = -1 /\ LastFlow = 19
BY DEF Script, MachineFlow, SupervisorFlow, LastFlow

\* What the script says of the operation that is next.
LEMMA NextOperation ==
  ASSUME CountInv
  PROVE  /\ flow \in -2..19 /\ step \in Nat
         /\ op.op \in Endings => op.op = EndingOf(flow)
         /\ op.op \notin Endings => step + 1 \in DOMAIN Script[flow]
         /\ op.op = "usertest_exit" => flow \in 0..18 /\ ~Counted(flow, step)
         /\ op.op = "usertest" => (Counted(flow, step) <=> flow \in 0..18)
         /\ \A f \in DOMAIN Script : 1 \in DOMAIN Script[f] /\ ~Counted(f, 1)
<1>1. SuitesEnd
  BY ScriptAssumption DEF ScriptAssumption
<1>2. flow \in -2..19
  BY FlowNumbers DEF CountInv
<1>3. \A f \in DOMAIN Script : 1 \in DOMAIN Script[f] /\ DOMAIN Script[f] \subseteq Nat \ {0}
  BY <1>1 DEF SuitesEnd
<1>4. step \in Nat
  BY <1>3 DEF CountInv
<1>5. \A f \in DOMAIN Script : ~Counted(f, 1)
  <2> SUFFICES ASSUME NEW f \in DOMAIN Script, NEW j \in DOMAIN Script[f], j < 1
               PROVE  FALSE
    BY DEF Counted
  <2>1. QED
    BY <1>3
<1>6. QED
  BY <1>1, <1>2, <1>3, <1>4, <1>5 DEF CountInv, SuitesEnd, op

\* Every test of the script is one that the harness is made for.
LEMMA CallsAreTests ==
  ASSUME CountInv, op.op \in Calls
  PROVE  [kind |-> op.kind, ptr |-> op.ptr, value |-> op.value, ecause |-> Ecause] \in Tests
<1>1. ParametersListed
  BY ScriptAssumption DEF ScriptAssumption
<1>2. /\ op.kind \in Kinds /\ op.ptr \in Ptrs /\ op.value \in Values
      /\ op.op = "test" => op.ecause \in Causes \cup {Success}
      /\ op.op = "generic" => MapCause[op.kind] \in Causes
      /\ "illegal" \in Causes /\ "tag_mismatch" \in Causes
  BY <1>1 DEF ParametersListed, CountInv, op
<1>3. Ecause \in Causes \cup {Success}
  <2>1. CASE op.op = "test"
    BY <1>2, <2>1 DEF Ecause
  <2>2. CASE op.op = "generic"
    BY <1>2, <2>2 DEF Ecause, If
  <2>3. CASE op.op = "masked"
    BY <1>2, <2>3 DEF Ecause, If
  <2>4. QED
    BY <2>1, <2>2, <2>3 DEF Calls
<1>4. QED
  BY <1>2, <1>3 DEF Tests

\* Every step of the run is one of the harness, or leaves it alone.
LEMMA StepsOfHarness == CountInv /\ [TestsNext]_vars => [Next]_harnessVars
<1> SUFFICES ASSUME CountInv, [TestsNext]_vars PROVE [Next]_harnessVars
  OBVIOUS
<1>1. CASE \/ tagify_mem \/ WriteStatus \/ WritePmp \/ SetGlobals \/ Restore
           \/ EnterS \/ UserTestMain \/ Sret \/ UsertestExit
  BY <1>1 DEF tagify_mem, WriteStatus, WritePmp, SetGlobals, Restore, EnterS, UserTestMain, Sret,
              UsertestExit, OtherSteps
<1>2. CASE Check
  BY <1>2 DEF Check, Next
<1>3. CASE Succeed
  BY <1>3 DEF Succeed, Next
<1>4. CASE CallTest
  <2>1. op.op \in Calls
    BY <1>4 DEF CallTest, Run
  <2>2. QED
    BY <1>4, <2>1, CallsAreTests DEF CallTest, Next
<1>5. CASE Prepare
  BY <1>5 DEF Prepare, Next
<1>6. CASE AccessAllowed
  BY <1>6 DEF AccessAllowed, Next
<1>7. CASE AccessDenied
  BY <1>7 DEF AccessDenied, Next
<1>8. CASE Spurious
  BY <1>8 DEF Spurious, Next
<1>9. CASE Judge
  BY <1>9 DEF Judge, Next
<1>10. CASE UNCHANGED vars
  BY <1>10 DEF vars
<1>11. QED
  BY <1>1, <1>2, <1>3, <1>4, <1>5, <1>6, <1>7, <1>8, <1>9, <1>10 DEF TestsNext

-----------------------------------------------------------------------------
\* The next operation of a suite leaves the counter as it is.
LEMMA AdvanceCounts ==
  ASSUME CountInv, Advance, op.op \notin Endings, op.op # "usertest_exit",
         current_usertest' = current_usertest, pc' = Idle
  PROVE  CountInv'
<1>1. flow' = flow /\ step' = step + 1 /\ step \in Nat /\ step' \in DOMAIN Script[flow]
  BY NextOperation DEF Advance
<1>2. Counted(flow, step') <=> Counted(flow, step)
  <2>1. \A j \in DOMAIN Script[flow] : j \in Nat
    BY ScriptAssumption DEF ScriptAssumption, SuitesEnd, CountInv
  <2>2. \A j \in DOMAIN Script[flow] : Script[flow][j].op = "usertest_exit" => (j < step' <=> j < step)
    BY <1>1, <2>1 DEF op
  <2>3. QED
    BY <2>2 DEF Counted
<1>3. QED
  BY <1>1, <1>2 DEF CountInv

\* A step that goes nowhere keeps the place, and a test belongs to its operation.
LEMMA StayCounts ==
  ASSUME CountInv, UNCHANGED <<flow, step, current_usertest>>, pc' # Idle => op.op \in Calls
  PROVE  CountInv'
BY DEF CountInv, op

\* Every step keeps the place in the script.
LEMMA NextCountInv == IInv /\ CountInv /\ [TestsNext]_vars => CountInv'
<1> SUFFICES ASSUME IInv, CountInv, [TestsNext]_vars PROVE CountInv'
  OBVIOUS
<1> USE DEF Run, Between
<1>1. CASE tagify_mem \/ WriteStatus \/ WritePmp \/ SetGlobals \/ Restore \/ Sret
  <2>1. /\ op.op \notin Endings /\ op.op # "usertest_exit"
        /\ Advance /\ current_usertest' = current_usertest /\ pc' = Idle
    BY <1>1 DEF tagify_mem, WriteStatus, WritePmp, SetGlobals, Restore, Sret, OtherSteps, harnessVars, Endings
  <2>2. QED
    BY <2>1, AdvanceCounts
<1>2. CASE Check
  <2>1. /\ op.op \notin Endings /\ op.op # "usertest_exit" /\ pc = Idle /\ pc' = pc
        /\ current_usertest' = current_usertest
        /\ Advance \/ UNCHANGED <<flow, step>>
    BY <1>2 DEF Check, Checks, Shutdown, harnessVars, Endings
  <2>2. QED
    BY <2>1, AdvanceCounts, StayCounts
<1>3. CASE EnterS
  <2>1. op.op = "enter_s" /\ pc' = Idle /\ flow' = -1 /\ step' = 1 /\ current_usertest' = current_usertest
    BY <1>3, FlowNumbers DEF EnterS, EnterFlow, OtherSteps, harnessVars
  <2>2. flow = -2
    BY <2>1, NextOperation, FlowNumbers DEF EndingOf, Endings
  <2>3. current_usertest = 0
    BY <2>2, FlowNumbers DEF CountInv
  <2>4. flow' \in DOMAIN Script /\ step' \in DOMAIN Script[flow']
    BY <2>1, FlowNumbers, NextOperation
  <2>5. QED
    BY <2>1, <2>3, <2>4, FlowNumbers DEF CountInv
<1>4. CASE UserTestMain
  <2>1. /\ op.op = "usertest" /\ pc' = Idle /\ step' = 1 /\ current_usertest' = current_usertest
        /\ flow' = IF current_usertest > 18 THEN 19 ELSE current_usertest
    BY <1>4, FlowNumbers DEF UserTestMain, EnterFlow, OtherSteps, harnessVars
  <2>2. Counted(flow, step) <=> flow \in 0..18
    BY <2>1, NextOperation
  <2>3. flow \in -2..18
    BY <2>1, NextOperation, FlowNumbers DEF EndingOf, Endings
  <2>4. current_usertest \in 0..19
    BY <2>2, <2>3, FlowNumbers DEF CountInv
  <2>5. flow' \in 0..19 /\ current_usertest = flow'
    BY <2>1, <2>4
  <2>6. flow' \in DOMAIN Script /\ step' \in DOMAIN Script[flow'] /\ ~Counted(flow', step')
    BY <2>1, <2>5, FlowNumbers, NextOperation
  <2>7. QED
    BY <2>1, <2>5, <2>6, FlowNumbers DEF CountInv
<1>5. CASE UsertestExit
  <2>1. /\ op.op = "usertest_exit" /\ pc' = Idle /\ flow' = flow /\ step' = step + 1
        /\ current_usertest' = current_usertest + 1
    BY <1>5 DEF UsertestExit, Advance, OtherSteps, harnessVars
  <2>2. flow \in 0..18 /\ ~Counted(flow, step) /\ step \in Nat /\ step' \in DOMAIN Script[flow]
    BY <2>1, NextOperation DEF Endings
  <2>3. Counted(flow, step')
    BY <2>1, <2>2 DEF Counted, CountInv, op
  <2>4. current_usertest = flow
    BY <2>2, FlowNumbers DEF CountInv
  <2>5. QED
    BY <2>1, <2>2, <2>3, <2>4, FlowNumbers DEF CountInv
<1>6. CASE Succeed
  BY <1>6, StayCounts DEF Succeed, Shutdown, program
<1>7. CASE CallTest
  <2>1. op.op \in Calls /\ UNCHANGED <<flow, step, current_usertest>>
    BY <1>7 DEF CallTest
  <2>2. QED
    BY <2>1, StayCounts
<1>8. CASE Prepare \/ AccessAllowed
  <2>1. pc # Idle
    BY <1>8, AtPlace DEF Prepare, AccessAllowed, SetCause, SetEpc, SetResume, CountFault, AccessDone, IInv, Places
  <2>2. UNCHANGED <<flow, step, current_usertest>>
    BY <1>8 DEF Prepare, AccessAllowed, Answers, program
  <2>3. QED
    BY <2>1, <2>2, StayCounts DEF CountInv
<1>9. CASE AccessDenied
  <2>1. pc # Idle
    BY <1>9, AtPlace DEF AccessDenied, AccessFaults, IInv, Places
  <2>2. UNCHANGED <<flow, step, current_usertest>>
    BY <1>9 DEF AccessDenied, Answers, program
  <2>3. QED
    BY <2>1, <2>2, StayCounts DEF CountInv
<1>10. CASE Spurious
  <2>1. pc' = pc
    BY <1>10, StrayDies DEF Spurious
  <2>2. UNCHANGED <<flow, step, current_usertest>>
    BY <1>10 DEF Spurious, program
  <2>3. QED
    BY <2>1, <2>2, StayCounts DEF CountInv
<1>11. CASE Judge
  <2>1. pc # Idle /\ current_usertest' = current_usertest
    BY <1>11, AtPlace DEF Judge, TestEnd, TestFail, IInv, Places
  <2>2. op.op \in Calls
    BY <2>1 DEF CountInv
  <2>3. \/ pc' = Idle /\ Advance
        \/ pc' = pc /\ UNCHANGED <<flow, step>>
    BY <1>11 DEF Judge, TestEnd, TestFail
  <2>4. op.op \notin Endings /\ op.op # "usertest_exit"
    BY <2>2 DEF Calls, Endings
  <2>5. QED
    BY <2>1, <2>2, <2>3, <2>4, AdvanceCounts, StayCounts
<1>12. CASE UNCHANGED vars
  BY <1>12, StayCounts DEF vars, program, harnessVars, CountInv
<1>13. QED
  BY <1>1, <1>2, <1>3, <1>4, <1>5, <1>6, <1>7, <1>8, <1>9, <1>10, <1>11, <1>12 DEF TestsNext

\* The run begins in machine mode, with the first operation.
LEMMA InitCountInv == TestsInit => IInv /\ CountInv
<1> SUFFICES ASSUME TestsInit PROVE IInv /\ CountInv
  OBVIOUS
<1>1. IInv
  BY InitIInv DEF TestsInit
<1>2. pc = Idle /\ flow = -2 /\ step = 1 /\ current_usertest = 0
  BY FlowNumbers DEF TestsInit, Init
<1>3. 1 \in DOMAIN Script[-2]
  BY ScriptAssumption, FlowNumbers DEF ScriptAssumption, SuitesEnd
<1>4. CountInv
  BY <1>2, <1>3, FlowNumbers DEF CountInv
<1>5. QED
  BY <1>1, <1>4

-----------------------------------------------------------------------------
(* A deviation is noticed.                                                 *)

\* An answer that no test expects leads to the end of the test, where it fails, or ends the run.
DeviationInv ==
  deviated => \/ verdict \in {"failed", "died"}
              \/ verdict = "running" /\ pc[1] = "end" /\ isfault = 0 /\ test.ecause # Success

VerdictInv == DeviationInv /\ SuccessMeansConforming

\* Steps that do not touch the harness, and are not made at the end of a test.
LEMMA IdleVerdict ==
  ASSUME VerdictInv, pc = Idle, verdict = "running", deviated' = deviated, verdict' \in {"running", "failed"}
  PROVE  VerdictInv'
<1>1. pc[1] = "idle"
  BY DEF Idle
<1>2. ~deviated
  BY <1>1 DEF VerdictInv, DeviationInv
<1>3. QED
  BY <1>2 DEF VerdictInv, DeviationInv, SuccessMeansConforming

LEMMA NextVerdictInv ==
  IInv /\ CountInv /\ VerdictInv /\ ExpectationsAgree /\ [TestsNext]_vars => VerdictInv'
<1> SUFFICES ASSUME IInv, CountInv, VerdictInv, ExpectationsAgree, [TestsNext]_vars PROVE VerdictInv'
  OBVIOUS
<1>1. CASE \/ tagify_mem \/ WriteStatus \/ WritePmp \/ SetGlobals \/ Restore
           \/ EnterS \/ UserTestMain \/ Sret \/ UsertestExit
  <2>1. pc = Idle /\ verdict = "running" /\ deviated' = deviated /\ verdict' = verdict
    BY <1>1 DEF tagify_mem, WriteStatus, WritePmp, SetGlobals, Restore, EnterS, UserTestMain, Sret,
                UsertestExit, OtherSteps, harnessVars, Run, Between
  <2>2. QED
    BY <2>1, IdleVerdict
<1>2. CASE Check
  <2>1. pc = Idle /\ verdict = "running" /\ op.op \in Checks
    BY <1>2 DEF Check, Run, Between
  <2>2. pc[1] = "idle"
    BY <2>1 DEF Idle
  <2>3. ~deviated
    BY <2>1, <2>2 DEF VerdictInv, DeviationInv
  <2>4. Holds
    BY <2>1, <2>3 DEF ExpectationsAgree
  <2>5. PICK holds \in BOOLEAN :
          /\ deviated' = (deviated \/ holds # Holds)
          /\ \/ holds /\ verdict' = verdict
             \/ ~holds /\ verdict' = "failed"
    BY <1>2 DEF Check, Shutdown, harnessVars
  <2>6. CASE holds
    <3>1. holds = Holds
      BY <2>4, <2>6 DEF Holds
    <3>2. QED
      BY <2>1, <2>3, <2>5, <2>6, <3>1 DEF VerdictInv, DeviationInv, SuccessMeansConforming
  <2>7. CASE ~holds
    BY <2>5, <2>7 DEF VerdictInv, DeviationInv, SuccessMeansConforming
  <2>8. QED
    BY <2>6, <2>7
<1>3. CASE Succeed
  <2>1. pc = Idle /\ verdict = "running" /\ op.op = "SUCCESS" /\ deviated' = deviated
        /\ current_usertest' = current_usertest
    BY <1>3 DEF Succeed, Run, Between, program
  <2>2. pc[1] = "idle"
    BY <2>1 DEF Idle
  <2>3. ~deviated
    BY <2>1, <2>2 DEF VerdictInv, DeviationInv
  <2>4. flow = LastFlow
    BY <2>1, NextOperation, FlowNumbers DEF EndingOf, Endings
  <2>5. current_usertest = LastFlow
    BY <2>4, FlowNumbers DEF CountInv
  <2>6. QED
    BY <2>1, <2>3, <2>5 DEF VerdictInv, DeviationInv, SuccessMeansConforming
<1>4. CASE CallTest
  <2>1. pc = Idle /\ verdict = "running" /\ deviated' = deviated /\ verdict' = verdict
    BY <1>4 DEF CallTest, Begin, Between
  <2>2. QED
    BY <2>1, IdleVerdict
<1>5. CASE Prepare
  <2>1. verdict = "running" /\ verdict' = "running" /\ pc[1] # "end" /\ deviated' = deviated
    BY <1>5, AtPlace DEF Prepare, SetCause, SetEpc, SetResume, CountFault, IInv, Places
  <2>2. QED
    BY <2>1 DEF VerdictInv, DeviationInv, SuccessMeansConforming
<1>6. CASE AccessAllowed
  <2>1. /\ pc[1] = "access" /\ verdict = "running" /\ verdict' = "running" /\ pc'[1] = "end"
        /\ UNCHANGED <<isfault, test>> /\ deviated' = (deviated \/ Success # ByPolicy)
    BY <1>6, AtPlace DEF AccessAllowed, AccessDone, Answers, IInv, Places, Goto, Label
  <2>2. ~deviated
    BY <2>1 DEF VerdictInv, DeviationInv
  <2>3. test.ecause = ByPolicy
    BY <2>1, <2>2 DEF ExpectationsAgree
  <2>4. isfault = 0
    BY <2>1 DEF IInv, OutcomeInv
  <2>5. QED
    BY <2>1, <2>2, <2>3, <2>4 DEF VerdictInv, DeviationInv, SuccessMeansConforming
<1>7. CASE AccessDenied
  <2>1. PICK c \in Causes : AccessFaults(c) /\ deviated' = (deviated \/ c # ByPolicy)
    BY <1>7 DEF AccessDenied, Answers
  <2>2. pc[1] = "access" /\ verdict = "running"
    BY <2>1, AtPlace DEF AccessFaults, IInv, Places
  <2>3. ~deviated
    BY <2>2 DEF VerdictInv, DeviationInv
  <2>4. test.ecause = ByPolicy
    BY <2>2, <2>3 DEF ExpectationsAgree
  <2>5. (c = ByPolicy /\ verdict' = "running") \/ verdict' = "died"
    BY <2>1, <2>2, <2>4, AccessFaultsResult
  <2>6. QED
    BY <2>1, <2>3, <2>5 DEF VerdictInv, DeviationInv, SuccessMeansConforming
<1>8. CASE Spurious
  <2>1. verdict' = "died"
    BY <1>8, StrayDies DEF Spurious
  <2>2. QED
    BY <2>1 DEF VerdictInv, DeviationInv, SuccessMeansConforming
<1>9. CASE Judge
  <2>1. CASE TestEnd
    <3>1. verdict = "running" /\ verdict' = "running" /\ AsExpected
      BY <2>1 DEF TestEnd, At
    <3>2. ~deviated
      BY <3>1 DEF VerdictInv, DeviationInv, AsExpected
    <3>3. QED
      BY <1>9, <3>1, <3>2 DEF Judge, VerdictInv, DeviationInv, SuccessMeansConforming
  <2>2. CASE TestFail
    BY <2>2 DEF TestFail, VerdictInv, DeviationInv, SuccessMeansConforming
  <2>3. QED
    BY <1>9, <2>1, <2>2 DEF Judge
<1>10. CASE UNCHANGED vars
  BY <1>10 DEF vars, program, harnessVars, VerdictInv, DeviationInv, SuccessMeansConforming
<1>11. QED
  BY <1>1, <1>2, <1>3, <1>4, <1>5, <1>6, <1>7, <1>8, <1>9, <1>10 DEF TestsNext

-----------------------------------------------------------------------------
\* The invariants of the run.
LEMMA TestsInductive == TestsSpec => [](IInv /\ CountInv)
<1>1. IInv /\ CountInv /\ [TestsNext]_vars => (IInv /\ CountInv)'
  BY StepsOfHarness, NextIInv, NextCountInv
<1>2. QED
  BY <1>1, InitCountInv, PTL DEF TestsSpec

\* The run of mpu_tag, suite by suite, is a run of the harness.
THEOREM TestsUseHarness == TestsSpec => HarnessSpec
<1>1. TestsInit => Init
  BY DEF TestsInit
<1>2. QED
  BY <1>1, StepsOfHarness, TestsInductive, PTL DEF TestsSpec, HarnessSpec

\* So what mpu_tag reports as succeeded did what it expects (test.h:161-171).
THEOREM SuitesAreHonest == TestsSpec => PassMeansExpected /\ ResumesWhereItRan
BY TestsUseHarness, PassesAreHonest, ResumesAtHome, PTL

\* If what the tests expect is the policy as long as nothing has deviated, a processor
\* reaches SUCCESS only without any deviation, and through all user tests.
THEOREM SuccessIsHonest == TestsSpec /\ []ExpectationsAgree => []SuccessMeansConforming
<1>1. TestsInit => VerdictInv
  BY DEF TestsInit, Init, VerdictInv, DeviationInv, SuccessMeansConforming
<1>2. VerdictInv => SuccessMeansConforming
  BY DEF VerdictInv
<1>3. QED
  BY <1>1, <1>2, NextVerdictInv, TestsInductive, PTL DEF TestsSpec
=============================================================================
