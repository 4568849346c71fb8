--------------------------- MODULE StartupProofs ---------------------------
(***************************************************************************)
(* Proofs about Boot and Startup, for any harts, any mask and every device *)
(* tree.  First Boot alone: the two conditions below are what the code     *)
(* takes for granted; the run boot_detected shows a machine where the      *)
(* second one fails.  Then Startup: with the scans in it, the boot is      *)
(* still a behaviour of Boot, and what is proved of Boot holds.            *)
(***************************************************************************)
EXTENDS Startup, TLAPS


\* At most one hart finds its bit in do_reset.
OneFirst == \A g, h \in Harts : First(g) /\ First(h) => g = h

\* The device tree lists the booting hart, and the CLINT every listed hart.
Complete ==
  /\ \A h \in Harts : First(h) => h \in Listed \cap Slots
  /\ Listed \cap Slots \subseteq Wired

\* Only the first hart boots, the others wait in the loop.
RoleInv == \A h \in Harts :
  /\ pc[h] \in Booting \cup {"main", "died"} => First(h)
  /\ pc[h] \in {"loop", "parked"} => ~First(h)

\* Until the first hart wakes the others, nobody is called or past the loop.
EarlyInv == \A g \in Harts :
  First(g) /\ pc[g] \in {"reset", "hart_init", "query_harts", "query_clint"} =>
    \A h \in Harts : ipi[h] = 0 /\ pc[h] \notin Past

\* From then on every hart of hart_mask has its pointer, and the first hart is
\* one of them.
MaskInv ==
  /\ hart_mask \subseteq Listed \cap Slots
  /\ \A g \in Harts : pc[g] = "query_clint" => g \in hart_mask
  /\ \A g \in Harts : pc[g] = "wake" => g \in hart_mask /\ \A h \in hart_mask : hls[h]

\* Whoever is called or past the loop has its pointer, and wake_harts is past
\* it, unless it is the first hart, which is past wake_harts.
CalledInv == \A h \in Harts :
  /\ ipi[h] = 1 \/ pc[h] \in Past => hls[h] /\ h \in hart_mask /\ ~Masked(h)
  /\ ipi[h] = 1 \/ (pc[h] \in Past /\ ~First(h)) => h < next

IInv == TypeOK /\ RoleInv /\ EarlyInv /\ MaskInv /\ CalledInv /\ NoNullStore /\ QuietStart

\* The initial states satisfy the invariant.
LEMMA InitInv == Init => IInv
<1> SUFFICES ASSUME Init PROVE IInv
  OBVIOUS
<1>1. TypeOK
  BY MaskAssumption DEF Init, TypeOK, Places
<1>2. RoleInv /\ EarlyInv /\ MaskInv /\ CalledInv /\ NoNullStore /\ QuietStart
  BY DEF Init, RoleInv, EarlyInv, MaskInv, CalledInv, NoNullStore, QuietStart, Booting, Past
<1>3. QED
  BY <1>1, <1>2 DEF IInv

\* Every step preserves the types.
LEMMA NextTypeOK ==
  ASSUME IInv, NEW h \in Harts, Step(h)
  PROVE  TypeOK'
<1> USE DEF IInv, TypeOK, Go
<1>1. CASE Reset(h)
  BY <1>1 DEF Reset, Places
<1>2. CASE HartInit(h)
  BY <1>2, HartsAssumption DEF HartInit, Places
<1>3. CASE QueryHarts(h)
  <2>1. AfterHarts(h, hart_mask \cup (Listed \cap Slots)) \in Places
    BY DEF AfterHarts, Places
  <2>2. QED
    BY <1>3, <2>1, HartsAssumption, TreeAssumption DEF QueryHarts, Slots
<1>4. CASE QueryClint(h)
  BY <1>4 DEF QueryClint, Places
<1>5. CASE Wake(h)
  BY <1>5, MaskAssumption DEF Wake, Places
<1>6. CASE WakeDone(h)
  BY <1>6 DEF WakeDone, Places
<1>7. CASE Leave(h)
  BY <1>7 DEF Leave, Places
<1>8. CASE HartPlicInit(h)
  BY <1>8 DEF HartPlicInit, Pending, Places
<1>9. QED
  BY <1>1, <1>2, <1>3, <1>4, <1>5, <1>6, <1>7, <1>8 DEF Step

\* The first hart is not disabled.
LEMMA FirstRuns == \A h \in Harts : First(h) => ~Masked(h)
BY DEF First

\* Every step preserves the rest.
LEMMA StepInv ==
  ASSUME OneFirst, Complete, IInv, NEW h \in Harts, Step(h)
  PROVE  IInv'
<1>0. TypeOK'
  BY NextTypeOK
<1> USE HartsAssumption, TreeAssumption, MaskAssumption, FirstRuns
    DEF OneFirst, Complete, IInv, TypeOK, Go, Booting, Past
<1>1. CASE Reset(h)
  <2>1. RoleInv'
    BY <1>0, <1>1 DEF Reset, RoleInv
  <2>2. EarlyInv'
    BY <1>0, <1>1 DEF Reset, EarlyInv, RoleInv, CalledInv
  <2>3. MaskInv'
    BY <1>0, <1>1 DEF Reset, MaskInv, RoleInv, EarlyInv
  <2>4. CalledInv'
    BY <1>0, <1>1 DEF Reset, CalledInv, RoleInv, EarlyInv, MaskInv
  <2>5. NoNullStore'
    BY <1>0, <1>1 DEF Reset, NoNullStore, MaskInv, CalledInv
  <2>6. QuietStart'
    BY <1>0, <1>1 DEF Reset, QuietStart, RoleInv, CalledInv
  <2>7. QED
    BY <1>0, <2>1, <2>2, <2>3, <2>4, <2>5, <2>6
<1>2. CASE HartInit(h)
  <2>1. RoleInv'
    BY <1>0, <1>2 DEF HartInit, RoleInv
  <2>2. EarlyInv'
    BY <1>0, <1>2 DEF HartInit, EarlyInv, RoleInv, CalledInv
  <2>3. MaskInv'
    BY <1>0, <1>2 DEF HartInit, MaskInv, RoleInv, EarlyInv
  <2>4. CalledInv'
    BY <1>0, <1>2 DEF HartInit, CalledInv, RoleInv, EarlyInv, MaskInv
  <2>5. NoNullStore'
    BY <1>0, <1>2 DEF HartInit, NoNullStore, MaskInv, CalledInv
  <2>6. QuietStart'
    BY <1>0, <1>2 DEF HartInit, QuietStart, RoleInv, CalledInv
  <2>7. QED
    BY <1>0, <2>1, <2>2, <2>3, <2>4, <2>5, <2>6
<1>3. CASE QueryHarts(h)
  <2>1. RoleInv'
    BY <1>0, <1>3 DEF QueryHarts, AfterHarts, RoleInv
  <2>2. EarlyInv'
    BY <1>0, <1>3 DEF QueryHarts, AfterHarts, EarlyInv, RoleInv, CalledInv
  <2>3. MaskInv'
    BY <1>0, <1>3 DEF QueryHarts, AfterHarts, MaskInv, RoleInv, EarlyInv
  <2>4. CalledInv'
    BY <1>0, <1>3 DEF QueryHarts, AfterHarts, CalledInv, RoleInv, EarlyInv, MaskInv
  <2>5. NoNullStore'
    BY <1>0, <1>3 DEF QueryHarts, AfterHarts, NoNullStore, MaskInv, CalledInv
  <2>6. QuietStart'
    BY <1>0, <1>3 DEF QueryHarts, AfterHarts, QuietStart, RoleInv, CalledInv
  <2>7. QED
    BY <1>0, <2>1, <2>2, <2>3, <2>4, <2>5, <2>6
<1>4. CASE QueryClint(h)
  <2>1. RoleInv'
    BY <1>0, <1>4 DEF QueryClint, RoleInv
  <2>2. EarlyInv'
    BY <1>0, <1>4 DEF QueryClint, EarlyInv, RoleInv, CalledInv
  <2>3. MaskInv'
    BY <1>0, <1>4 DEF QueryClint, MaskInv, RoleInv, EarlyInv
  <2>4. CalledInv'
    BY <1>0, <1>4 DEF QueryClint, CalledInv, RoleInv, EarlyInv, MaskInv
  <2>5. NoNullStore'
    BY <1>0, <1>4 DEF QueryClint, NoNullStore, MaskInv, CalledInv
  <2>6. QuietStart'
    BY <1>0, <1>4 DEF QueryClint, QuietStart, RoleInv, CalledInv
  <2>7. QED
    BY <1>0, <2>1, <2>2, <2>3, <2>4, <2>5, <2>6
<1>5. CASE Wake(h)
  <2>1. RoleInv'
    BY <1>0, <1>5 DEF Wake, Woken, RoleInv
  <2>2. EarlyInv'
    BY <1>0, <1>5 DEF Wake, Woken, EarlyInv, RoleInv, CalledInv
  <2>3. MaskInv'
    BY <1>0, <1>5 DEF Wake, Woken, MaskInv, RoleInv, EarlyInv
  <2>4. CalledInv'
    BY <1>0, <1>5 DEF Wake, Woken, CalledInv, RoleInv, EarlyInv, MaskInv
  <2>5. NoNullStore'
    BY <1>0, <1>5 DEF Wake, Woken, NoNullStore, MaskInv, CalledInv
  <2>6. QuietStart'
    BY <1>0, <1>5 DEF Wake, Woken, QuietStart, RoleInv, CalledInv
  <2>7. QED
    BY <1>0, <2>1, <2>2, <2>3, <2>4, <2>5, <2>6
<1>6. CASE WakeDone(h)
  <2>1. RoleInv'
    BY <1>0, <1>6 DEF WakeDone, RoleInv
  <2>2. EarlyInv'
    BY <1>0, <1>6 DEF WakeDone, EarlyInv, RoleInv, CalledInv
  <2>3. MaskInv'
    BY <1>0, <1>6 DEF WakeDone, MaskInv, RoleInv, EarlyInv
  <2>4. CalledInv'
    BY <1>0, <1>6 DEF WakeDone, CalledInv, RoleInv, EarlyInv, MaskInv
  <2>5. NoNullStore'
    BY <1>0, <1>6 DEF WakeDone, NoNullStore, MaskInv, CalledInv
  <2>6. QuietStart'
    BY <1>0, <1>6 DEF WakeDone, QuietStart, RoleInv, CalledInv
  <2>7. QED
    BY <1>0, <2>1, <2>2, <2>3, <2>4, <2>5, <2>6
<1>7. CASE Leave(h)
  <2>1. RoleInv'
    BY <1>0, <1>7 DEF Leave, Called, Slots, RoleInv
  <2>2. EarlyInv'
    BY <1>0, <1>7 DEF Leave, Called, Slots, EarlyInv, RoleInv, CalledInv
  <2>3. MaskInv'
    BY <1>0, <1>7 DEF Leave, Called, Slots, MaskInv, RoleInv, EarlyInv
  <2>4. CalledInv'
    BY <1>0, <1>7 DEF Leave, Called, Slots, CalledInv, RoleInv, EarlyInv, MaskInv
  <2>5. NoNullStore'
    BY <1>0, <1>7 DEF Leave, Called, Slots, NoNullStore, MaskInv, CalledInv
  <2>6. QuietStart'
    BY <1>0, <1>7 DEF Leave, Called, Slots, QuietStart, RoleInv, CalledInv
  <2>7. QED
    BY <1>0, <2>1, <2>2, <2>3, <2>4, <2>5, <2>6
<1>8. CASE HartPlicInit(h)
  <2>1. RoleInv'
    BY <1>0, <1>8 DEF HartPlicInit, Pending, RoleInv
  <2>2. EarlyInv'
    BY <1>0, <1>8 DEF HartPlicInit, Pending, EarlyInv, RoleInv, CalledInv
  <2>3. MaskInv'
    BY <1>0, <1>8 DEF HartPlicInit, Pending, MaskInv, RoleInv, EarlyInv
  <2>4. CalledInv'
    BY <1>0, <1>8 DEF HartPlicInit, Pending, CalledInv, RoleInv, EarlyInv, MaskInv
  <2>5. NoNullStore'
    BY <1>0, <1>8 DEF HartPlicInit, Pending, NoNullStore, MaskInv, CalledInv
  <2>6. QuietStart'
    BY <1>0, <1>8 DEF HartPlicInit, Pending, QuietStart, RoleInv, CalledInv
  <2>7. QED
    BY <1>0, <2>1, <2>2, <2>3, <2>4, <2>5, <2>6
<1>9. QED
  BY <1>1, <1>2, <1>3, <1>4, <1>5, <1>6, <1>7, <1>8 DEF Step

\* The invariant holds on every machine that meets the two conditions.
LEMMA Inductive == ASSUME OneFirst, Complete PROVE Spec => []IInv
<1>1. ASSUME IInv, [Next]_vars PROVE IInv'
  <2>1. CASE UNCHANGED vars
    BY <1>1, <2>1 DEF vars, IInv, TypeOK, RoleInv, EarlyInv, MaskInv, CalledInv, NoNullStore, QuietStart
  <2>2. ASSUME NEW h \in Harts, Step(h) PROVE IInv'
    BY <1>1, <2>2, StepInv
  <2>3. QED
    BY <1>1, <2>1, <2>2 DEF Next
<1>2. QED
  BY InitInv, <1>1, PTL DEF Spec

\* The variables of Boot keep their types.
THEOREM TypeCorrect == ASSUME OneFirst, Complete PROVE Spec => []TypeOK
<1>1. IInv => TypeOK
  BY DEF IInv
<1>2. QED
  BY Inductive, <1>1, PTL

\* hls->ipi is never used before query_clint has set it: not by wake_harts
\* and not by hart_plic_init on any hart.
THEOREM PointersSet == ASSUME OneFirst, Complete PROVE Spec => []NoNullStore
<1>1. IInv => NoNullStore
  BY DEF IInv
<1>2. QED
  BY Inductive, <1>1, PTL

\* One hart sets up what init_first_hart sets up, before anybody else works.
THEOREM SetUpAlone == ASSUME OneFirst, Complete PROVE Spec => []OneSetsUp
<1>1. ASSUME IInv, NEW g \in Harts, NEW h \in Harts, g # h, pc[g] \in Booting
      PROVE  /\ pc[h] \notin Booting \cup {"main"}
             /\ pc[g] # "wake" => pc[h] \in {"reset", "loop"}
  <2>1. First(g) /\ ~First(h)
    BY <1>1 DEF IInv, RoleInv, OneFirst
  <2>2. pc[h] \notin Booting \cup {"main"}
    BY <2>1, <1>1 DEF IInv, RoleInv
  <2>3. ASSUME pc[g] # "wake" PROVE pc[h] \notin Past
    BY <2>1, <2>3, <1>1 DEF IInv, EarlyInv, Booting
  <2>4. pc[h] # "died"
    BY <2>1, <1>1 DEF IInv, RoleInv
  <2>5. QED
    BY <2>2, <2>3, <2>4, <1>1 DEF IInv, TypeOK, Places, Booting, Past
<1>2. IInv => OneSetsUp
  BY <1>1 DEF OneSetsUp
<1>3. QED
  BY Inductive, <1>2, PTL

\* The wake-up interrupts are all gone when a hart has got where it goes.
THEOREM WakeUpsCleared == ASSUME OneFirst, Complete PROVE Spec => []QuietStart
<1>1. IInv => QuietStart
  BY DEF IInv
<1>2. QED
  BY Inductive, <1>1, PTL

\* Only harts that the tree lists, that have a slot, and that are not disabled
\* leave the loop.
THEOREM OthersStay == ASSUME OneFirst, Complete PROVE Spec => []OnlyListedStart
<1>1. IInv => OnlyListedStart
  BY DEF IInv, CalledInv, OnlyListedStart
<1>2. QED
  BY Inductive, <1>1, PTL

-----------------------------------------------------------------------------

(* The scans are steps that Boot does not see. *)
LEMMA StartStepBoots ==
  ASSUME NEW h \in Harts, StartStep(h)
  PROVE  Next \/ UNCHANGED vars
<1>1. CASE Scan(h)
  BY <1>1 DEF Scan
<1>2. CASE ConsoleFound(h)
  BY <1>2 DEF ConsoleFound, Next, Step
<1>3. CASE HartsFound(h)
  BY <1>3 DEF HartsFound, Next, Step
<1>4. CASE ClintFound(h)
  BY <1>4 DEF ClintFound, Next, Step
<1>5. CASE Scanned(h)
  BY <1>5 DEF Scanned, Next, Step
<1>6. QED
  BY <1>1, <1>2, <1>3, <1>4, <1>5 DEF StartStep

LEMMA NextBoots == [\E h \in Harts : StartStep(h)]_startVars => [Next]_vars
<1>1. ASSUME UNCHANGED startVars PROVE UNCHANGED vars
  BY <1>1 DEF startVars
<1>2. QED
  BY StartStepBoots, <1>1

\* The scans are conjoined with steps of Boot or leave its variables alone, so what is
\* proved of Boot holds while the tree is read.
LEMMA Boots == StartSpec => Spec
<1>1. StartInit => Init
  BY DEF StartInit
<1>2. QED
  BY <1>1, NextBoots, PTL DEF StartSpec, Spec

\* No hart stores through the NULL hls->ipi while the tree is read or after.
THEOREM StartPointersSet == ASSUME OneFirst, Complete PROVE StartSpec => []NoNullStore
BY Boots, PointersSet, PTL

\* No wake-up interrupt is left when a hart starts to work.
THEOREM StartWakeUpsCleared == ASSUME OneFirst, Complete PROVE StartSpec => []QuietStart
BY Boots, WakeUpsCleared, PTL

-----------------------------------------------------------------------------
(* The turns of wake_harts, and the first hart on its way out of them, come *)
(* after the scans.                                                         *)
WakeInv ==
  /\ next > 0 => query = "finished"
  /\ \A h \in Harts : First(h) /\ pc[h] \in {"wake"} \cup Past => query = "finished"

LEMMA WakeInvInit == StartInit => WakeInv
<1>1. ASSUME StartInit PROVE next = 0 /\ \A h \in Harts : pc[h] = "reset"
  BY <1>1 DEF StartInit, Init
<1>2. QED
  BY <1>1 DEF WakeInv, Past

\* The last scan is the last: no step goes back to one.
LEMMA FinishedStays ==
  ASSUME NEW h \in Harts, StartStep(h), query = "finished"
  PROVE  query' = "finished"
<1>1. ~Scan(h)
  BY DEF Scan, Place
<1>2. CASE ConsoleFound(h)
  BY <1>2 DEF ConsoleFound
<1>3. CASE Scanned(h)
  BY <1>3 DEF Scanned, fdtVars
<1>4. QED
  BY <1>1, <1>2, <1>3 DEF StartStep, HartsFound, ClintFound

\* Hart h alone moves, and next with it only in wake_harts.
LEMMA WakeInvNext ==
  ASSUME OneFirst, IInv, WakeInv, NEW h \in Harts, StartStep(h)
  PROVE  WakeInv'
<1>0. CASE query = "finished"
  BY <1>0, FinishedStays DEF WakeInv
<1>1. ASSUME query # "finished"
      PROVE  next = 0 /\ \A g \in Harts : First(g) => pc[g] \notin {"wake"} \cup Past
  BY <1>1 DEF WakeInv, IInv, TypeOK
<1>2. CASE Scan(h)
  BY <1>0, <1>1, <1>2 DEF Scan, vars, WakeInv, First, Masked
<1>3. CASE ConsoleFound(h)
  BY <1>0, <1>1, <1>3 DEF ConsoleFound, HartInit, Go, WakeInv, IInv, TypeOK, Past
<1>4. CASE HartsFound(h)
  BY <1>0, <1>1, <1>4 DEF HartsFound, QueryHarts, AfterHarts, Go, WakeInv, IInv, TypeOK, Past
<1>5. CASE ClintFound(h)
  BY <1>0, <1>5 DEF ClintFound, EndScan, ScanAsserts, NextScan, After, WakeInv
<1>6. CASE Scanned(h)
  <2> SUFFICES ASSUME query # "finished" PROVE WakeInv'
    BY <1>0
  <2>1. pc[h] # "wake"
    BY <1>1 DEF IInv, RoleInv, Booting
  <2>2. next' = next
    BY <2>1, <1>6 DEF Scanned, Reset, Wake, WakeDone, Leave, HartPlicInit
  <2>3. ASSUME NEW g \in Harts, First(g) PROVE pc'[g] \notin {"wake"} \cup Past
    <3>1. CASE Reset(h)
      BY <1>1, <2>3, <3>1 DEF Reset, Go, IInv, TypeOK, Past
    <3>2. CASE Leave(h)
      BY <1>1, <2>3, <3>2 DEF Leave, Go, IInv, TypeOK, RoleInv
    <3>3. CASE HartPlicInit(h)
      BY <1>1, <2>3, <3>3 DEF HartPlicInit, Go, IInv, TypeOK, Past
    <3>4. QED
      BY <2>1, <3>1, <3>2, <3>3, <1>6 DEF Scanned, Wake, WakeDone
  <2>4. QED
    BY <1>1, <2>2, <2>3 DEF WakeInv, First, Masked
<1>7. QED
  BY <1>2, <1>3, <1>4, <1>5, <1>6 DEF StartStep

LEMMA WakeInvHolds == ASSUME OneFirst, Complete PROVE StartSpec => []WakeInv
<1>1. IInv /\ WakeInv /\ [\E h \in Harts : StartStep(h)]_startVars => WakeInv'
  <2>1. ASSUME WakeInv, UNCHANGED startVars PROVE WakeInv'
    BY <2>1 DEF startVars, vars, fdtVars, WakeInv, First, Masked
  <2>2. QED
    BY <2>1, WakeInvNext
<1>2. StartSpec => []IInv
  BY Boots, Inductive, PTL
<1>3. QED
  BY <1>1, <1>2, WakeInvInit, PTL DEF StartSpec

\* No hart is woken, and none leaves the loop, before the last scan is over:
\* the others leave it when they are called, and next is past them then.
THEOREM ScansComeFirst == ASSUME OneFirst, Complete PROVE StartSpec => []ScansFirst
<1>1. IInv /\ WakeInv => ScansFirst
  <2>1. ASSUME IInv, WakeInv, NEW h \in Harts, pc[h] \in {"wake"} \cup Past
        PROVE  query = "finished"
    <3>1. CASE First(h)
      BY <2>1, <3>1 DEF WakeInv
    <3>2. CASE ~First(h)
      <4>1. pc[h] \in Past
        BY <2>1, <3>2 DEF IInv, RoleInv, Booting
      <4>2. h < next
        BY <2>1, <3>2, <4>1 DEF IInv, CalledInv
      <4>3. next > 0
        BY <2>1, <4>2, HartsAssumption, MaskAssumption DEF IInv, TypeOK
      <4>4. QED
        BY <2>1, <4>3 DEF WakeInv
    <3>3. QED
      BY <3>1, <3>2
  <2>2. QED
    BY <2>1 DEF ScansFirst
<1>2. StartSpec => []IInv
  BY Boots, Inductive, PTL
<1>3. QED
  BY <1>1, <1>2, WakeInvHolds, PTL
=============================================================================
