-------------------------------- MODULE Boot --------------------------------
(***************************************************************************)
(* From reset to the tests: do_reset and .LmultiHart (machine/mentry.S),   *)
(* init_first_hart and init_other_hart (machine/minit.c) on all harts at   *)
(* once.  One hart reads the device tree, fills in the hart-local storage  *)
(* of every hart, and wakes the others through their CLINT registers.      *)
(* What the device tree says is a parameter here.                          *)
(***************************************************************************)
EXTENDS Integers

CONSTANTS
  Harts,      \* the mhartid of every hart of the machine
  Listed,     \* harts with a cpu node and an interrupt controller
  Wired,      \* harts that the CLINT's interrupts-extended lists
  Mask,       \* disabled_hart_mask
  MaxHarts    \* MAX_HARTS

Xlen == 64

ASSUME HartsAssumption == Harts \subseteq Nat /\ 0 \in Harts
ASSUME TreeAssumption == Listed \subseteq Harts /\ Wired \subseteq Listed
ASSUME MaskAssumption == Mask \in Nat /\ MaxHarts \in Nat

VARIABLES
  pc,
  ipi,        \* the CLINT registers
  hls,        \* hart-local storage: whether hls->ipi is set
  hart_mask,
  next        \* the loop variable of wake_harts

vars == <<pc, ipi, hls, hart_mask, next>>

\* (x >> h) & 1: a shift looks at the low bits of its amount only.
Bit(x, h) == (x \div 2 ^ (h % Xlen)) % 2
Masked(h) == Bit(Mask, h) = 1

\* The bit of ~disabled_hart_mask & (disabled_hart_mask + 1)
First(h) == ~Masked(h) /\ Bit(Mask + 1, h) = 1

\* Mutant: no check against MAX_HARTS.
M_Slots == Harts

\* Harts with a slot in the arrays of the monitor
Slots == {h \in Harts : h < MaxHarts}

Init ==
  /\ pc = [h \in Harts |-> "reset"]
  /\ ipi = [h \in Harts |-> 0]
  /\ hls = [h \in Harts |-> FALSE]
  /\ hart_mask = {}
  /\ next = 0

Go(h, place) == pc' = [pc EXCEPT ![h] = place]

Reset(h) ==
  /\ pc[h] = "reset"
  /\ Go(h, IF First(h) THEN "hart_init" ELSE "loop")
  /\ UNCHANGED <<ipi, hls, hart_mask, next>>

-----------------------------------------------------------------------------
(* init_first_hart *)

\* hart_init(); hls_init(0)
HartInit(h) ==
  /\ pc[h] = "hart_init"
  /\ hls' = [hls EXCEPT ![0] = FALSE]
  /\ Go(h, "query_harts")
  /\ UNCHANGED <<ipi, hart_mask, next>>

\* assert ((hart_mask >> mhartid) != 0), for a hart_mask of these harts
Detected(h, mask) == \E g \in mask : g >= h % Xlen

\* Mutant: the harts are woken before query_clint.
M_AfterHarts(h, mask) == "wake"

AfterHarts(h, mask) == IF Detected(h, mask) THEN "query_clint" ELSE "died"

\* hart_done, for every cpu node, and the assertion
QueryHarts(h) ==
  /\ pc[h] = "query_harts"
  /\ LET found == Listed \cap Slots IN
       /\ hart_mask' = hart_mask \cup found
       /\ hls' = [g \in Harts |-> hls[g] /\ g \notin found]
       /\ Go(h, AfterHarts(h, hart_mask \cup found))
  /\ UNCHANGED <<ipi, next>>

\* clint_done, for every entry of interrupts-extended
QueryClint(h) ==
  /\ pc[h] = "query_clint"
  /\ hls' = [g \in Harts |-> hls[g] \/ g \in Wired \cap Slots]
  /\ Go(h, "wake")
  /\ UNCHANGED <<ipi, hart_mask, next>>

\* Mutant: the harts without a bit in the mask are woken as well.
M_Woken(h) == h \in hart_mask /\ h # 2

Woken(h) == h \in hart_mask /\ ~Masked(h)

\* One turn of wake_harts
Wake(h) ==
  /\ pc[h] = "wake" /\ next < MaxHarts
  /\ next' = next + 1
  /\ IF Woken(next) /\ ~hls[next]
     THEN Go(h, "null") /\ ipi' = ipi
     ELSE /\ ipi' = IF Woken(next) THEN [ipi EXCEPT ![next] = 1] ELSE ipi
          /\ pc' = pc
  /\ UNCHANGED <<hls, hart_mask>>

WakeDone(h) ==
  /\ pc[h] = "wake" /\ next = MaxHarts
  /\ Go(h, "hart_plic_init")
  /\ UNCHANGED <<ipi, hls, hart_mask, next>>

-----------------------------------------------------------------------------
(* .LmultiHart.  wfi may end at any time: the loop's checks are what counts. *)

\* Mutant: a hart that wfi lets go starts without a look at mip.
M_Called(h) == TRUE

Called(h) == ipi[h] = 1

Leave(h) ==
  /\ pc[h] = "loop" /\ ~Masked(h) /\ Called(h) /\ h < MaxHarts
  /\ Go(h, "hart_plic_init")
  /\ UNCHANGED <<ipi, hls, hart_mask, next>>

\* Mutant: pending interrupts are not cleared.
M_Pending(h) == ipi[h]

\* *HLS()->ipi = 0
Pending(h) == 0

\* hart_plic_init, on every hart; then m_test_main or boot_other_hart
HartPlicInit(h) ==
  /\ pc[h] = "hart_plic_init"
  /\ IF hls[h]
     THEN /\ ipi' = [ipi EXCEPT ![h] = Pending(h)]
          /\ Go(h, IF First(h) THEN "main" ELSE "parked")
     ELSE Go(h, "null") /\ ipi' = ipi
  /\ UNCHANGED <<hls, hart_mask, next>>

Step(h) ==
  \/ Reset(h) \/ HartInit(h) \/ QueryHarts(h) \/ QueryClint(h) \/ Wake(h)
  \/ WakeDone(h) \/ Leave(h) \/ HartPlicInit(h)

Next == \E h \in Harts : Step(h)

Spec == Init /\ [][Next]_vars

(* Every hart runs; wfi need not sleep. *)
FairSpec == Spec /\ \A h \in Harts : WF_vars(Step(h))

-----------------------------------------------------------------------------
(* Properties *)

Places == {"reset", "hart_init", "query_harts", "query_clint", "wake", "loop",
           "hart_plic_init", "main", "parked", "null", "died"}

\* The variables keep their types.
TypeOK ==
  /\ pc \in [Harts -> Places]
  /\ ipi \in [Harts -> {0, 1}]
  /\ hls \in [Harts -> BOOLEAN]
  /\ hart_mask \subseteq Listed /\ \A h \in hart_mask : h < MaxHarts
  /\ next \in 0 .. MaxHarts

\* No hart ever stores through the NULL hls->ipi that hls_init leaves: all are
\* filled in before wake_harts lets anybody go.
NoNullStore == \A h \in Harts : pc[h] # "null"

\* Places where a hart may change what the harts share
Booting == {"hart_init", "query_harts", "query_clint", "wake"}

\* While one hart sets up the shared state, no other does, and no other has
\* left the loop before wake_harts.
OneSetsUp == \A g, h \in Harts :
  g # h /\ pc[g] \in Booting =>
    /\ pc[h] \notin Booting \cup {"main"}
    /\ pc[g] # "wake" => pc[h] \in {"reset", "loop"}

\* A hart that has started the tests or is parked has no interrupt pending
\* from its own wake-up, and none is on the way.
QuietStart == \A h \in Harts : pc[h] \in {"main", "parked"} => ipi[h] = 0

\* Places of a hart that has begun to work
Past == {"hart_plic_init", "main", "parked", "null"}

\* Disabled harts, harts the device tree does not list, and harts without a
\* slot in the arrays stay in the loop.
OnlyListedStart == \A h \in Harts :
  pc[h] \in Past => ~Masked(h) /\ h \in hart_mask

\* fdt.c:290: "The current hart should have been detected".
CurrentDetected == \A h \in Harts : pc[h] = "query_clint" => h \in hart_mask

\* Every hart of the device tree that is not disabled reaches its place: the
\* first one the tests, the others the final wait.
EachStarts == \A h \in Listed \cap Slots :
  ~Masked(h) => <>(pc[h] = IF First(h) THEN "main" ELSE "parked")
=============================================================================
