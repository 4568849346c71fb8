------------------------------ MODULE TagTests ------------------------------
(***************************************************************************)
(* The suites of mpu_tag.c, in the order of m_test_main: machine mode,     *)
(* supervisor mode, and the user tests, each of which ends in an ecall     *)
(* that brings up the next.  A suite is a sequence of operations; the      *)
(* accesses go through FaultHarness, and the processor answers them by     *)
(* TagPolicy, or is broken and answers as it likes.                        *)
(***************************************************************************)
EXTENDS FaultHarness, TagPolicy, Integers, SequencesExt

VARIABLES
  tags,              \* tag of each region
  spmp, mpmp,        \* the PMP slots of the supervisor and of the machine
  ststatus,          \* bits of ststatus that are set
  mode,              \* privilege mode
  flow, step,        \* the sequence of operations that is run, and the next one
  globals,           \* access_mask, expect_tagfault, tag_mask
  current_usertest,
  poked,             \* regions whose contents a test has overwritten
  sound,             \* whether the processor keeps to the policy
  deviated           \* history: it did not
machine == <<tags, spmp, mpmp, ststatus, mode>>
program == <<flow, step, globals, current_usertest, poked>>
vars == <<harnessVars, machine, program, sound, deviated>>

(* The regions in the order of the linker script; buffer_a[0] has a region *)
(* of its own, and so has each word of array in m_basic_lstag_test.        *)
Text     == 0
Data     == 1
Test     == 2
A        == 3
ARest    == 4
B        == 5
X        == 6
D        == 7
Trusted  == 8
Normal   == 9
Array(i) == 10 + i
LastRegion == Array(3)
Regions == Text..LastRegion
Global == {Text, Data, Test}
SectionA == {A, ARest}

-----------------------------------------------------------------------------
(* The operations of a suite; "code" is the region they are run from.      *)
Tag(regions, tag)    == << [op |-> "tag", code |-> Text, regions |-> regions, tag |-> tag] >>
Verify(regions, tag) == << [op |-> "verify", code |-> Text, regions |-> regions, tag |-> tag] >>
Access(kind, ptr, value, ecause) ==
  << [op |-> "test", code |-> Test, kind |-> kind, ptr |-> ptr, value |-> value, ecause |-> ecause] >>
SetStatus(bits)   == << [op |-> "set", code |-> Text, bits |-> bits] >>
ClearStatus(bits) == << [op |-> "clear", code |-> Text, bits |-> bits] >>
AssertStatus(of, bits) == << [op |-> "status", code |-> Text, of |-> of, bits |-> bits] >>
SetPmp(code, unit, slot, base, bound, flags) ==
  LET Write(field, value) ==
        [op |-> field, code |-> code, unit |-> unit, slot |-> slot, value |-> value]
  IN << Write("base", base), Write("bound", bound), Write("flags", flags) >>
VerifyPmp(slot, entry) ==
  << [op |-> "readpmp", code |-> Normal, slot |-> slot, entry |-> entry] >>
Step(op, code) == << [op |-> op, code |-> code] >>
Globals(fields) == << [op |-> "globals", code |-> Text, fields |-> fields] >>
ForEach(s, Ops(_)) == FlattenSeq([i \in DOMAIN s |-> Ops(s[i])])

F == {"R", "W", "X", "T", "A"}
FourTags == <<T_NORMAL, T_CALLABLE, T_UTRUSTED, T_STRUSTED>>
If(ok, cause) == IF ok THEN Success ELSE cause

generic_stag_test(mask) ==
  ForEach(FourTags, LAMBDA t : Access("stag", A, t, If(t \in mask, "illegal")))

m_basic_lstag_test ==
  Verify(Global, T_NORMAL) \o Verify({Test}, T_NORMAL) \o Verify(SectionA, T_NORMAL)
  \o Verify({B}, T_NORMAL) \o Verify({X}, T_NORMAL)
  \o ForEach(FourTags, LAMBDA t : Tag(SectionA, t) \o generic_stag_test(TagSet))
  \o Tag(SectionA, T_NORMAL) \o Tag({B}, T_STRUSTED) \o Tag({X}, T_CALLABLE)
  \o Verify(Global, T_NORMAL) \o Verify({Test}, T_NORMAL) \o Verify(SectionA, T_NORMAL)
  \o Verify({B}, T_STRUSTED) \o Verify({X}, T_CALLABLE)
  \o ForEach(FourTags, LAMBDA t : Tag({Array(t)}, t))
  \o ForEach(FourTags, LAMBDA t : Verify({Array(t)}, t))
  \o Tag({Array(0)}, 65535) \o Verify({Array(0)}, 3)
  \o Tag({Array(i) : i \in TagSet}, T_UTRUSTED)

(* One width stands for all: they differ in the data they load. *)
m_basic_lc_test ==
  Tag(SectionA, T_NORMAL) \o Tag({B}, T_CALLABLE) \o Tag({X}, T_UTRUSTED) \o Tag({D}, T_STRUSTED)
  \o ForEach(<< <<A, T_NORMAL>>, <<B, T_CALLABLE>>, <<X, T_UTRUSTED>>, <<D, T_STRUSTED>> >>,
             LAMBDA buffer : ForEach(FourTags,
               LAMBDA e : Access("lct", buffer[1], e, If(e = buffer[2], "tag_mismatch"))))
  \o Step("restore", Text)

LttTests(tag) ==
  ForEach(FourTags, LAMBDA e :
    Access("ltt", A, e, Success) \o << [op |-> "differ", code |-> Text, etag |-> e, value |-> e - tag] >>)
Sct(etag, ntag, ecause) == Access("sct", A, 4 * etag + ntag, ecause)

m_basic_sct_test ==
  Tag(SectionA, T_NORMAL)
  \o Sct(T_NORMAL, T_NORMAL, Success)
  \o ForEach(Tail(FourTags), LAMBDA e : Sct(e, T_NORMAL, "tag_mismatch"))
  \o ForEach(FourTags, LAMBDA e :
       Sct(e, (e + 1) % 4, Success) \o Access("lct", A, (e + 1) % 4, Success))
  \o ForEach(FourTags, LAMBDA t : LttTests(t) \o Sct(t, (t + 1) % 4, Success))

m_prepare_tags ==
  Tag(Global, T_CALLABLE) \o Tag({Trusted}, T_CALLABLE) \o Tag({Normal}, T_NORMAL)
  \o Tag({Test}, T_NORMAL) \o Tag({Data}, T_NORMAL)

m_init_test ==
  SetStatus({"UE", "EN"}) \o AssertStatus({"UE", "EN"}, {})
  \o ClearStatus({"UE"}) \o AssertStatus({"UE", "EN"}, {"EN"})

m_supervisor_main ==
  ForEach(<<0, 1, 2, 3, 4, 5, 6, 7>>, LAMBDA i : SetPmp(Text, "m", i, 0, 0, {}))
  \o SetPmp(Text, "m", 7, Text, LastRegion + 1, {"X", "ST"})
  \o m_init_test
  \o Step("enter_s", Text)

ClearPmps == ForEach(<<0, 1, 2, 3>>, LAMBDA i : SetPmp(Text, "m", i, 0, 0, {}))
m_test_main ==
  ClearPmps \o m_basic_lstag_test \o m_basic_lc_test \o m_basic_sct_test
  \o m_prepare_tags \o m_supervisor_main

-----------------------------------------------------------------------------
NormalWrappers == Tag({Test}, T_NORMAL) \o Tag({Data}, T_NORMAL)
Fetch(ecause) == Access("fetch", X, 0, ecause)

st_modeswitch_sn ==
  Tag({Test}, T_CALLABLE)
  \o ForEach(FourTags, LAMBDA t : Tag({X}, t) \o Fetch(If(t # T_UTRUSTED, "tag_mismatch")))
  \o NormalWrappers
  \o ForEach(FourTags, LAMBDA t :
       Tag({X}, t) \o Fetch(If(t \in {T_NORMAL, T_CALLABLE}, "tag_mismatch")))

LoadsAndStores(ecause) ==
  ForEach(<<"load", "store">>, LAMBDA k : Access(k, A, 0, ecause) \o Access(k, ARest, 0, ecause))
st_access_test_trusted ==
  Tag({Test}, T_CALLABLE)
  \o ForEach(FourTags, LAMBDA t : Tag(SectionA, t) \o LoadsAndStores(Success))

sn_access_test_normal ==
  NormalWrappers
  \o ForEach(FourTags, LAMBDA t :
       Tag(SectionA, t) \o LoadsAndStores(If(t = T_NORMAL, "tag_mismatch"))
       \o Access("ltag", A, 0, Success)
       \o generic_stag_test(IF t = T_NORMAL THEN {T_NORMAL} ELSE {}))

st_pmp_test_ttcb ==
  Tag({Test}, T_CALLABLE) \o Tag({D}, T_STRUSTED) \o Access("sttcb", D, 0, Success)
  \o NormalWrappers \o Access("sttcb", D, 0, "illegal")

AOrB(slot, flags) ==
  IF slot % 2 = 0 THEN [base |-> A, bound |-> ARest + 1, flags |-> flags]
                  ELSE [base |-> B, bound |-> B + 1, flags |-> flags]
SetAB(code, slot, flags) ==
  LET entry == AOrB(slot, flags) IN SetPmp(code, "s", slot, entry.base, entry.bound, flags)
VerifyAB(slot, flags) == VerifyPmp(slot, AOrB(slot, flags))
st_pmp_test_ack ==
  ForEach(<<0, 1, 2, 3>>, LAMBDA i : SetAB(Text, i, F))
  \o ForEach(<<0, 1, 2, 3>>, LAMBDA i : VerifyAB(i, F))
  \o SetAB(Normal, 0, F) \o SetAB(Normal, 1, {"R", "T", "A"}) \o SetAB(Normal, 2, {})
  \o VerifyAB(0, F \ {"A"}) \o VerifyAB(1, {"R", "T"}) \o VerifyAB(2, {}) \o VerifyAB(3, F)

s_supervisor_main ==
  st_modeswitch_sn \o st_pmp_test_ttcb \o st_pmp_test_ack
  \o st_access_test_trusted \o sn_access_test_normal
  \o Step("usertest", Text)

-----------------------------------------------------------------------------
RWX == {"R", "W", "X"}
\* Mutant: buffer_x is forgotten.
M_MapBuffers(a, b, c) ==
  SetPmp(Text, "s", 1, A, ARest + 1, RWX \cup a) \o SetPmp(Text, "s", 2, B, B + 1, RWX \cup b)

MapBuffers(a, b, c) ==
  SetPmp(Text, "s", 1, A, ARest + 1, RWX \cup a) \o SetPmp(Text, "s", 2, B, B + 1, RWX \cup b)
  \o SetPmp(Text, "s", 3, X, X + 1, RWX \cup c)
TA == {"T", "A"}
AccessMask(mask, tagfault) == Globals([access_mask |-> mask, expect_tagfault |-> tagfault])
TagMask(mask) == Globals([tag_mask |-> mask])
Each(tag) == Tag(SectionA, tag) \o Tag({B}, tag) \o Tag({X}, tag)

(* s_usertest_main: what each test sets up on top of the ones before. *)
Setup == [n \in 0..18 |->
  CASE n = 0 -> Tag(Global, T_CALLABLE) \o Tag({Data}, T_UTRUSTED) \o Tag({Test}, T_CALLABLE)
                \o MapBuffers({"T"}, {"A"}, {"T"}) \o Each(T_UTRUSTED) \o AccessMask({"R", "W"}, FALSE)
    [] n = 1 -> MapBuffers(TA, TA, TA) \o AccessMask(RWX, TRUE)
    [] n = 2 -> Each(T_STRUSTED) \o AccessMask({}, TRUE)
    [] n = 3 -> Each(T_NORMAL) \o SetStatus({"UE"}) \o AssertStatus({"UE", "EN"}, {})
                \o AccessMask(RWX, TRUE)
    [] n = 4 -> Each(T_CALLABLE) \o AccessMask({"R", "X"}, TRUE)
    [] n \in {5, 7} -> Tag(SectionA, FourTags[n - 4]) \o TagMask({T_NORMAL, T_UTRUSTED})
    [] n \in {6, 8} -> Tag(SectionA, FourTags[n - 4]) \o TagMask({})
    [] n = 9 -> NormalWrappers \o MapBuffers({"T"}, {"A"}, {"T"}) \o Each(T_NORMAL)
                \o AccessMask(RWX, TRUE)
    [] n = 10 -> MapBuffers(TA, TA, TA) \o Each(T_UTRUSTED) \o AccessMask({}, TRUE)
    [] n = 11 -> Each(T_STRUSTED) \o AccessMask({}, TRUE)
    [] n = 12 -> Each(T_CALLABLE) \o AccessMask({"X"}, TRUE)
    [] n = 13 -> Tag(SectionA, T_NORMAL) \o TagMask({T_NORMAL})
    [] n \in 14..16 -> Tag(SectionA, FourTags[n - 12]) \o TagMask({})
    [] n = 17 -> MapBuffers(TA, TA, TA) \o Tag(Global, T_NORMAL) \o Tag(SectionA, T_NORMAL)
                 \o Tag({B}, T_NORMAL) \o Tag({X}, T_CALLABLE)
                 \o SetStatus({"UE", "UI"}) \o AssertStatus({"UE", "UI", "EN"}, {})
                 \o AccessMask({"R", "W"}, TRUE)
    [] n = 18 -> ClearStatus({"UE", "UI"}) \o AssertStatus({"UE", "UI", "EN"}, {"EN"})
                 \o AccessMask({"R", "W"}, TRUE)]

(* The tests of a user function; what they expect is read when they run.   *)
Expecting(kind, ptr) == << [op |-> "generic", code |-> Test, kind |-> kind, ptr |-> ptr, value |-> 0] >>
u_access_test_generic ==
  ForEach(<<"load", "store">>, LAMBDA k :
    ForEach(<<A, ARest, B, B>>, LAMBDA r : Expecting(k, r)))
  \o Expecting("fetch", X)
u_stag_test ==
  ForEach(FourTags, LAMBDA t :
    << [op |-> "masked", code |-> Test, kind |-> "stag", ptr |-> A, value |-> t] >>)

(* Map the kernel for the user and drop to user mode; the last operation,  *)
(* in user mode, calls the machine, which unmaps it and enters the next.   *)
switch_usermode == SetPmp(Trusted, "s", 0, Text, Test + 1, F) \o Step("sret", Trusted)
\* Mutant: the kernel stays mapped for the user.
M_m_usertest_main == Step("usertest", Normal)

m_usertest_main == SetPmp(Normal, "s", 0, 0, 0, {}) \o Step("usertest", Normal)
UserTest(n) ==
  Setup[n] \o switch_usermode
  \o (IF n \in 5..8 \cup 13..16 THEN u_stag_test ELSE u_access_test_generic)
  \o Step("usertest_exit", Test) \o m_usertest_main

MachineFlow == -2
SupervisorFlow == -1
LastFlow == 19
Script == [f \in MachineFlow..LastFlow |->
  CASE f = MachineFlow -> m_test_main
    [] f = SupervisorFlow -> s_supervisor_main
    [] f \in 0..18 -> UserTest(f)
    [] f = LastFlow -> Step("SUCCESS", Text)]
(* What every test is called with is among the constants of FaultHarness.  *)
Calls == {"test", "generic", "masked"}
ParametersListed ==
  /\ {"illegal", "tag_mismatch"} \subseteq Causes
  /\ \A f \in DOMAIN Script : \A i \in DOMAIN Script[f] :
       LET o == Script[f][i]
       IN o.op \in Calls =>
            /\ o.kind \in Kinds /\ o.ptr \in Ptrs /\ o.value \in Values
            /\ o.op = "test" => o.ecause \in Causes \cup {Success}
            /\ o.op = "generic" => MapCause[o.kind] \in Causes

(* A suite ends in an operation that leaves it, and a user test counts     *)
(* itself once.                                                            *)
Endings == {"enter_s", "usertest", "SUCCESS"}
EndingOf(f) == CASE f = MachineFlow -> "enter_s" [] f = LastFlow -> "SUCCESS" [] OTHER -> "usertest"
Counted(f, i) == \E j \in DOMAIN Script[f] : j < i /\ Script[f][j].op = "usertest_exit"
SuitesEnd ==
  \A f \in DOMAIN Script :
    /\ 1 \in DOMAIN Script[f] /\ DOMAIN Script[f] \subseteq Nat \ {0}
    /\ \A i \in DOMAIN Script[f] :
         LET o == Script[f][i].op
         IN /\ IF o \in Endings THEN o = EndingOf(f) ELSE i + 1 \in DOMAIN Script[f]
            /\ o = "usertest_exit" => f \in 0..18 /\ ~Counted(f, i)
            /\ o = "usertest" => (Counted(f, i) <=> f \in 0..18)

ScriptAssumption == ParametersListed /\ SuitesEnd
ASSUME ScriptAssumption

-----------------------------------------------------------------------------
op == Script[flow][step]
Run(name) == Between /\ op.op = name
Advance == step' = step + 1 /\ UNCHANGED flow
EnterFlow(f) == flow' = f /\ step' = 1
OtherSteps == UNCHANGED <<harnessVars, sound, deviated>>

NoSlot == [base |-> 0, bound |-> 0, flags |-> {}]

TestsInit ==
  /\ Init
  /\ test = [kind |-> "load", ptr |-> A, value |-> 0, ecause |-> Success]
  /\ tags = [r \in Regions |-> T_NORMAL]
  /\ spmp = [i \in 0..3 |-> NoSlot]
  /\ mpmp = [i \in 0..7 |-> NoSlot]
  /\ ststatus = {}
  /\ mode = "M"
  /\ flow = MachineFlow /\ step = 1
  /\ globals = [access_mask |-> {}, expect_tagfault |-> FALSE, tag_mask |-> {}]
  /\ current_usertest = 0
  /\ poked = {}
  /\ sound \in BOOLEAN
  /\ deviated = FALSE

(* Until EN is set, and for the stores of tagify_mem, code is trusted. *)
DomainOf(region) == IF "EN" \in ststatus THEN Domain(mode, tags[region]) ELSE "ST"

(* What the policy says of an access by code in a region. *)
Outcome(kind, ptr, value, code) ==
  LET domain == DomainOf(code)
  IN CASE ~TagAllows(kind, value, domain, tags[ptr], ststatus) -> TagCause(kind)
       [] ~MapAllows(kind, mode, domain, tags[ptr], ptr, spmp, mpmp) -> MapCause[kind]
       [] OTHER -> Success

(* A stored tag keeps two bits. *)
\* Mutant: a wide tag is kept as it is.
M_Stored(tag) == tag

Stored(tag) == tag % 4
tagify_mem ==
  /\ Run("tag") /\ Advance
  /\ tags' = [r \in Regions |-> IF r \in op.regions THEN Stored(op.tag) ELSE tags[r]]
  /\ OtherSteps
  /\ UNCHANGED <<spmp, mpmp, ststatus, mode, globals, current_usertest, poked>>

(* Checks that read the machine: a broken processor may return anything.   *)
Checks == {"verify", "differ", "readpmp", "status"}
Holds ==
  CASE op.op = "verify" -> \A r \in op.regions : tags[r] = op.tag
    [] op.op = "differ" -> op.etag - tags[A] = op.value
    [] op.op = "readpmp" -> spmp[op.slot] = op.entry
    [] op.op = "status" -> IF op.bits = {} THEN ststatus \cap op.of # {} ELSE ststatus \cap op.of = op.bits
Check ==
  /\ \E name \in Checks : Run(name)
  /\ \E holds \in BOOLEAN :
       /\ sound => (holds <=> Holds)
       /\ deviated' = (deviated \/ holds # Holds)
       /\ \/ holds /\ Advance /\ UNCHANGED harnessVars
          \/ ~holds /\ Shutdown("failed") /\ UNCHANGED <<flow, step>>
  /\ UNCHANGED <<machine, globals, current_usertest, poked, sound>>

WriteStatus ==
  /\ \/ Run("set") /\ ststatus' = ststatus \cup op.bits
     \/ Run("clear") /\ ststatus' = ststatus \ op.bits
  /\ Advance /\ OtherSteps
  /\ UNCHANGED <<tags, spmp, mpmp, mode, globals, current_usertest, poked>>

(* One of the three writes of SET_PMP; another write keeps flags it does   *)
(* not set, but for the acknowledgement.                                   *)
Written(slot) ==
  LET new == [slot EXCEPT ![op.op] = op.value]
  IN [new EXCEPT !.flags = Acknowledged(DomainOf(op.code), @)]
WritePmp ==
  /\ \E field \in {"base", "bound", "flags"} : Run(field)
  /\ IF op.unit = "s" THEN spmp' = [spmp EXCEPT ![op.slot] = Written(@)] /\ UNCHANGED mpmp
                      ELSE mpmp' = [mpmp EXCEPT ![op.slot] = Written(@)] /\ UNCHANGED spmp
  /\ Advance /\ OtherSteps
  /\ UNCHANGED <<tags, ststatus, mode, globals, current_usertest, poked>>

SetGlobals ==
  /\ Run("globals") /\ Advance
  /\ globals' = [g \in DOMAIN globals |-> IF g \in DOMAIN op.fields THEN op.fields[g] ELSE globals[g]]
  /\ OtherSteps
  /\ UNCHANGED <<machine, current_usertest, poked>>

Restore ==
  /\ Run("restore") /\ Advance
  /\ poked' = poked \ {X}
  /\ OtherSteps
  /\ UNCHANGED <<machine, globals, current_usertest>>

-----------------------------------------------------------------------------
EnterS ==
  /\ Run("enter_s")
  /\ mode' = "S" /\ EnterFlow(SupervisorFlow)
  /\ OtherSteps
  /\ UNCHANGED <<tags, spmp, mpmp, ststatus, globals, current_usertest, poked>>

(* s_usertest_main(test), called or entered from the machine. *)
UserTestMain ==
  /\ Run("usertest")
  /\ mode' = "S" /\ EnterFlow(IF current_usertest > 18 THEN LastFlow ELSE current_usertest)
  /\ OtherSteps
  /\ UNCHANGED <<tags, spmp, mpmp, ststatus, globals, current_usertest, poked>>

Sret ==
  /\ Run("sret") /\ Advance
  /\ mode' = "U"
  /\ OtherSteps
  /\ UNCHANGED <<tags, spmp, mpmp, ststatus, globals, current_usertest, poked>>

(* USERTEST_EXIT counts and makes the call; mcall_trap clears UI. *)
AfterTrap == ststatus \ {"UI"}
UsertestExit ==
  /\ Run("usertest_exit") /\ Advance
  /\ current_usertest' = current_usertest + 1
  /\ mode' = "M"
  /\ ststatus' = AfterTrap
  /\ OtherSteps
  /\ UNCHANGED <<tags, spmp, mpmp, globals, poked>>

Succeed ==
  /\ Run("SUCCESS")
  /\ Shutdown("success")
  /\ UNCHANGED <<machine, program, sound, deviated>>

-----------------------------------------------------------------------------
Masked == [load |-> "R", store |-> "W", fetch |-> "X"]
Ecause ==
  CASE op.op = "test" -> op.ecause
    [] op.op = "generic" ->
         If(Masked[op.kind] \in globals.access_mask,
            IF globals.expect_tagfault THEN "tag_mismatch" ELSE MapCause[op.kind])
    [] op.op = "masked" -> If(op.value \in globals.tag_mask, "illegal")

(* The loads and stores that check tags write their target before. *)
CallTest ==
  /\ \E name \in Calls : Run(name)
  /\ Begin([kind |-> op.kind, ptr |-> op.ptr, value |-> op.value, ecause |-> Ecause])
  /\ poked' = IF op.kind = "sct" \/ (op.kind = "lct" /\ Ecause = Success) THEN poked \cup {op.ptr} ELSE poked
  /\ UNCHANGED <<machine, flow, step, globals, current_usertest, sound, deviated>>

Prepare ==
  /\ SetCause \/ SetEpc \/ SetResume \/ CountFault
  /\ UNCHANGED <<machine, program, sound, deviated>>

ByPolicy == Outcome(test.kind, test.ptr, test.value, Test)
Answers(outcome) ==
  /\ sound => outcome = ByPolicy
  /\ deviated' = (deviated \/ outcome # ByPolicy)
  /\ UNCHANGED <<spmp, mpmp, mode, program, sound>>

NewTag ==
  CASE test.kind = "stag" -> test.value
    [] test.kind = "sct" -> test.value % 4
    [] OTHER -> tags[test.ptr]
AccessAllowed ==
  /\ AccessDone /\ Answers(Success)
  /\ tags' = [tags EXCEPT ![test.ptr] = NewTag]
  /\ UNCHANGED ststatus

(* test_fault clears UI when it resumes. *)
ClearUI == ststatus' = IF verdict' = "died" \/ expected_fault.resume_pc = Zero THEN ststatus ELSE AfterTrap
AccessDenied ==
  /\ \E c \in Causes : AccessFaults(c) /\ Answers(c)
  /\ ClearUI /\ UNCHANGED tags

(* A broken processor faults wherever it likes. *)
Spurious ==
  /\ ~sound /\ deviated' = TRUE
  /\ \E c \in Causes : Stray(c)
  /\ ClearUI
  /\ UNCHANGED <<tags, spmp, mpmp, mode, program, sound>>

Judge ==
  /\ \/ TestEnd /\ Advance
     \/ TestFail /\ UNCHANGED <<flow, step>>
  /\ UNCHANGED <<machine, globals, current_usertest, poked, sound, deviated>>

TestsNext ==
  \/ tagify_mem \/ Check \/ WriteStatus \/ WritePmp \/ SetGlobals \/ Restore
  \/ EnterS \/ UserTestMain \/ Sret \/ UsertestExit \/ Succeed
  \/ CallTest \/ Prepare \/ AccessAllowed \/ AccessDenied \/ Spurious \/ Judge

TestsSpec == TestsInit /\ [][TestsNext]_vars
(* One hart runs the tests, and does not stop. *)
FairTests == TestsSpec /\ WF_vars(TestsNext)

-----------------------------------------------------------------------------
(* The code that performs a step may run, may call printm and the wrapper, *)
(* and may use its data: whatever tags, slots (half-written ones too) and  *)
(* bits the tests have set, they never take the harness's own ground away. *)
(* switch_usermode calls nothing once it maps the kernel for the user      *)
(* (mpu_tag.c:715-726), and no fetch test runs an overwritten buffer_x.    *)
Uses(code) == IF code = Trusted THEN {} ELSE {Text, code}
MayRun(code) == MapAllows("fetch", mode, DomainOf(code), tags[code], code, spmp, mpmp)
HarnessRuns ==
  (verdict = "running" /\ mode # "M") =>
    /\ MayRun(op.code)
    /\ \A c \in Uses(op.code) :
         /\ Outcome("fetch", c, 0, op.code) = Success
         /\ \A k \in {"load", "store"} : Outcome(k, Data, 0, c) = Success
    /\ op.code = Test /\ op.op # "usertest_exit" => (op.kind = "fetch" => X \notin poked)

(* What a test expects, and what a check compares with, is what the policy *)
(* says in the state that all operations before it have left, as long as   *)
(* the processor has kept to the policy.                                   *)
ExpectationsAgree ==
  (verdict = "running" /\ ~deviated) =>
    /\ pc[1] = "access" => test.ecause = ByPolicy
    /\ pc = Idle /\ op.op \in Checks => Holds

(* SUCCESS, exit status 0, is reached only by a processor that did what    *)
(* the policy says at every tested access, after all nineteen user tests.  *)
SuccessMeansConforming ==
  verdict = "success" => ~deviated /\ current_usertest = LastFlow

(* On a processor that keeps to the policy all tests pass and the run ends *)
(* in SUCCESS: what one test leaves behind never spoils a later one.       *)
ConformingSucceeds == sound => <>(verdict = "success")
=============================================================================
