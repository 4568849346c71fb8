---------------------------- MODULE FaultHarness ----------------------------
(***************************************************************************)
(* A test of one access: GEN_TEST_ACCESS_FAULT and DYN_TEST (test.h) write *)
(* the expected fault in three stores, perform the access, and judge it;   *)
(* test_fault (mtrap.c) compares every fault with the record and either    *)
(* resumes behind the access or ends the run.  Which tests are made and    *)
(* what an access does is left open here; TagTests says both.              *)
(***************************************************************************)
EXTENDS Naturals

CONSTANTS
  Kinds,    \* the kinds of access, each with its labels access<kind>, fault<kind>
  Ptrs,     \* what is accessed
  Values,   \* the operand "value"
  Causes,   \* causes of exceptions
  Success   \* (uintptr_t)-1: no fault is expected

(* -1 is the cause of no exception, and 0 is one. *)
HarnessAssumption ==
  /\ Success \notin Causes
  /\ "misaligned_fetch" \in Causes
ASSUME HarnessAssumption

VARIABLES
  pc,              \* place in a test function and the kind it was generated for
  test,            \* its parameters
  isfault,         \* counts the ways through the label fault<kind>
  expected_fault,  \* the record that test_fault reads
  did,             \* history: what the access of this test did
  verdict          \* how the run stands
harnessVars == <<pc, test, isfault, expected_fault, did, verdict>>

Tests == [kind : Kinds, ptr : Ptrs, value : Values, ecause : Causes \cup {Success}]
Places == {"cause", "epc", "resume_pc", "access", "fault", "end"}
Idle == <<"idle", "none">>
Label(place, kind) == <<place, kind>>
Zero == <<"zero", "none">>
Undone == "undone"

(* A fetch faults at its target, any other access at its own instruction.  *)
Epc(t) == IF t.kind = "fetch" THEN <<"target", t.ptr>> ELSE Label("access", t.kind)
Epcs == {Zero} \cup ({"target"} \X Ptrs) \cup ({"access"} \X Kinds)
Resumes == {Zero} \cup ({"fault"} \X Kinds)

Init ==
  /\ pc = Idle
  /\ test \in Tests
  /\ isfault = 0
  /\ expected_fault = [cause |-> "misaligned_fetch", epc |-> Zero, resume_pc |-> Zero]
  /\ did = Undone
  /\ verdict = "running"

-----------------------------------------------------------------------------
At(place) == verdict = "running" /\ pc = Label(place, pc[2]) /\ pc[2] \in Kinds
Goto(place) == pc' = Label(place, pc[2])
Between == verdict = "running" /\ pc = Idle

(* The parameters of a call; isfault is a local that starts at 0. *)
Begin(t) ==
  /\ Between
  /\ test' = t
  /\ isfault' = 0
  /\ did' = Undone
  /\ pc' = Label("cause", t.kind)
  /\ UNCHANGED <<expected_fault, verdict>>

SetCause ==
  /\ At("cause") /\ Goto("epc")
  /\ expected_fault' = [expected_fault EXCEPT !.cause = test.ecause]
  /\ UNCHANGED <<test, isfault, did, verdict>>

SetEpc ==
  /\ At("epc") /\ Goto("resume_pc")
  /\ expected_fault' = [expected_fault EXCEPT !.epc = Epc(test)]
  /\ UNCHANGED <<test, isfault, did, verdict>>

SetResume ==
  /\ At("resume_pc") /\ Goto("access")
  /\ expected_fault' = [expected_fault EXCEPT !.resume_pc = Label("fault", pc[2])]
  /\ UNCHANGED <<test, isfault, did, verdict>>

-----------------------------------------------------------------------------
\* Mutant: the address is not compared.
M_Expected(cause, epc) == expected_fault.cause = cause

Expected(cause, epc) ==
  /\ expected_fault.cause = cause
  /\ expected_fault.epc = epc

(* Where a handled fault returns to: without a resume_pc, to where it was. *)
Continue == IF expected_fault.resume_pc = Zero THEN pc ELSE expected_fault.resume_pc

TestFault(cause, epc) ==
  IF Expected(cause, epc)
    THEN pc' = Continue /\ UNCHANGED verdict
    ELSE verdict' = "died" /\ UNCHANGED pc

(* The access is done, or faults; its outcome is up to the processor.      *)
AccessDone ==
  /\ At("access") /\ Goto("end")
  /\ did' = Success
  /\ UNCHANGED <<test, isfault, expected_fault, verdict>>

AccessFaults(cause) ==
  /\ At("access")
  /\ did' = cause
  /\ TestFault(cause, Epc(test))
  /\ UNCHANGED <<test, isfault, expected_fault>>

(* A fault at any other instruction: a store to the record or to the       *)
(* stack, printm, or code between two tests.                               *)
Stray(cause) ==
  /\ verdict = "running" /\ pc[1] # "access"
  /\ TestFault(cause, pc)
  /\ UNCHANGED <<test, isfault, expected_fault, did>>

CountFault ==
  /\ At("fault") /\ Goto("end")
  /\ isfault' = isfault + 1
  /\ UNCHANGED <<test, expected_fault, did, verdict>>

(* ASSERT(((ecause) == -1) ^ isfault): one of the two, not both. *)
\* Mutant: only a fault that was not expected fails.
M_AsExpected == isfault = 0 \/ test.ecause # Success

AsExpected == (test.ecause = Success) # (isfault # 0)

TestEnd ==
  /\ At("end") /\ AsExpected
  /\ pc' = Idle
  /\ UNCHANGED <<test, isfault, expected_fault, did, verdict>>

TestFail ==
  /\ At("end") /\ ~AsExpected
  /\ verdict' = "failed"
  /\ UNCHANGED <<pc, test, isfault, expected_fault, did>>

(* SUCCESS, or an ASSERT outside of these functions that fails. *)
Shutdown(v) ==
  /\ Between
  /\ verdict' = v
  /\ UNCHANGED <<pc, test, isfault, expected_fault, did>>

Next ==
  \/ \E t \in Tests : Begin(t)
  \/ SetCause \/ SetEpc \/ SetResume
  \/ AccessDone \/ \E c \in Causes : AccessFaults(c)
  \/ CountFault \/ TestEnd \/ TestFail
  \/ \E c \in Causes : Stray(c)
  \/ \E v \in {"success", "failed"} : Shutdown(v)

HarnessSpec == Init /\ [][Next]_harnessVars

-----------------------------------------------------------------------------
HarnessTypeOK ==
  /\ pc \in {Idle} \cup (Places \X Kinds)
  /\ test \in Tests
  /\ isfault \in {0, 1}
  /\ expected_fault \in [cause : Causes \cup {Success}, epc : Epcs, resume_pc : Resumes]
  /\ did \in Causes \cup {Success, Undone}
  /\ verdict \in {"running", "success", "failed", "died"}

(* "succeeded" is printed only of a test whose access was performed and    *)
(* did what the test expects: completed, or faulted with that cause.  A    *)
(* record left by an earlier test or half written passes nothing           *)
(* (test.h:161-171, mtrap.c:71-87).                                        *)
PassMeansExpected ==
  [][(pc[1] = "end" /\ pc' = Idle) => did = test.ecause]_harnessVars

(* test_fault resumes only in the function that runs, at the label of its  *)
(* own kind, and from its access; every other fault ends the run.          *)
ResumesWhereItRan ==
  [][(pc' # pc /\ pc'[1] = "fault") =>
       pc = Label("access", test.kind) /\ pc' = Label("fault", test.kind)]_harnessVars
=============================================================================
