-------------------------------- MODULE Ipi --------------------------------
(***************************************************************************)
(* Inter-processor interrupts of the machine-mode monitor: the SBI calls   *)
(* that end in send_ipi_many (machine/mtrap.c) and the software-interrupt  *)
(* path of trap_vector (machine/mentry.S), at the grain of their accesses  *)
(* to shared memory.                                                       *)
(*                                                                         *)
(* A sender ORs its event into mipi_pending of every target and raises the *)
(* target's CLINT register ipi; for a fence it then polls every target's   *)
(* register until it reads 0, swapping its own register to 0 meanwhile and *)
(* putting it back before it returns.  A target clears its register, takes *)
(* its pending events with one swap, and runs them.                        *)
(***************************************************************************)
EXTENDS Integers

CONSTANTS
  Harts,      \* hart_mask: the harts the device tree lists
  Running,    \* the harts that leave machine mode (the others end in boot_other_hart)
  Disabled,   \* disabled_hart_mask
  Kinds,      \* bound: the events the payloads' calls send
  MaxCalls    \* bound: how many SBI calls each hart makes

ASSUME HartsAssumption == Harts \subseteq Nat
ASSUME RunningAssumption == Running \subseteq Harts \ Disabled

Fences == {"fence_i", "sfence_vma"}
Events == Fences \cup {"soft"}

ASSUME BoundsAssumption == Kinds \subseteq Events /\ MaxCalls \in [Harts -> Nat]

VARIABLES
  pc,         \* where a hart is; "user" is S- or U-mode code
  ipi,        \* the CLINT register *HLS()->ipi
  mip,        \* mip.MSIP as the hart sees it: lags behind a remote write of ipi
  pending,    \* HLS()->mipi_pending
  ssip,       \* mip.SSIP
  taken,      \* a0 in the handler: the events swapped out of pending
  event,      \* send_ipi_many's argument
  targets,    \* mask
  todo,       \* the bits left in m, the rest of the mask
  incoming,   \* incoming_ipi
  calls       \* number of SBI calls made (the bound)

\* History of the fences, read by no action: owed[t] are the callers that
\* posted to t in a call not yet returned and not yet served by t; promised[t]
\* are the fences t has still to run for calls that have returned.
VARIABLES owed, promised

code == <<pc, ipi, mip, pending, ssip, taken, event, targets, todo, incoming, calls>>
vars == <<code, owed, promised>>

Init ==
  /\ pc = [h \in Harts |-> IF h \in Running THEN "user" ELSE "multihart"]
  /\ ipi = [h \in Harts |-> IF h \in Running \cup Disabled THEN 0 ELSE 1]
  /\ mip = [h \in Harts |-> 0]
  /\ pending = [h \in Harts |-> {}]
  /\ ssip = [h \in Harts |-> 0]
  /\ taken = [h \in Harts |-> {}]
  /\ event = [h \in Harts |-> "soft"]
  /\ targets = [h \in Harts |-> {}]
  /\ todo = [h \in Harts |-> {}]
  /\ incoming = [h \in Harts |-> 0]
  /\ calls = [h \in Harts |-> 0]
  /\ owed = [h \in Harts |-> {}]
  /\ promised = [h \in Harts |-> {}]

Lowest(i, S) == i \in S /\ \A j \in S : i <= j

\* A hart runs lower-mode instructions only while no interrupt is visible to
\* it: machine interrupts are always enabled outside machine mode.
Free(h) == pc[h] = "user" /\ mip[h] = 0

Begin(h) ==
  /\ Free(h)
  /\ calls[h] < MaxCalls[h]
  /\ calls' = [calls EXCEPT ![h] = @ + 1]

-----------------------------------------------------------------------------
(* The sender: mcall_trap, send_ipi_many, send_ipi.                        *)

\* An SBI call that sends; a null pmask stands for every hart.
Ecall(h) ==
  /\ Begin(h)
  /\ \E e \in Kinds, T \in SUBSET Harts :
       /\ event' = [event EXCEPT ![h] = e]
       /\ targets' = [targets EXCEPT ![h] = T]
       /\ todo' = [todo EXCEPT ![h] = T]
  /\ pc' = [pc EXCEPT ![h] = "post"]
  /\ UNCHANGED <<ipi, mip, pending, ssip, taken, incoming, owed, promised>>

SkipDisabled(h, i) ==
  /\ pc[h] = "post" /\ Lowest(i, todo[h]) /\ i \in Disabled
  /\ todo' = [todo EXCEPT ![h] = @ \ {i}]
  /\ UNCHANGED <<pc, ipi, mip, pending, ssip, taken, event, targets, incoming, calls,
                 owed, promised>>

\* atomic_or(&OTHER_HLS(recipient)->mipi_pending, event)
Post(h, i) ==
  /\ pc[h] = "post" /\ Lowest(i, todo[h]) /\ i \notin Disabled
  /\ pending' = [pending EXCEPT ![i] = @ \cup {event[h]}]
  /\ owed' = IF event[h] \in Fences THEN [owed EXCEPT ![i] = @ \cup {h}] ELSE owed
  /\ pc' = [pc EXCEPT ![h] = "raise"]
  /\ UNCHANGED <<ipi, mip, ssip, taken, event, targets, todo, incoming, calls, promised>>

\* *OTHER_HLS(recipient)->ipi = 1; a hart sees its own write at once.
Raise(h, i) ==
  /\ pc[h] = "raise" /\ Lowest(i, todo[h])
  /\ ipi' = [ipi EXCEPT ![i] = 1]
  /\ mip' = IF i = h THEN [mip EXCEPT ![h] = 1] ELSE mip
  /\ todo' = [todo EXCEPT ![h] = @ \ {i}]
  /\ pc' = [pc EXCEPT ![h] = "post"]
  /\ UNCHANGED <<pending, ssip, taken, event, targets, incoming, calls, owed, promised>>

\* mret: the locals of send_ipi_many are gone.
Leave(h) ==
  /\ pc' = [pc EXCEPT ![h] = "user"]
  /\ event' = [event EXCEPT ![h] = "soft"]
  /\ targets' = [targets EXCEPT ![h] = {}]
  /\ incoming' = [incoming EXCEPT ![h] = 0]

\* Mutant: the early return dropped.
M_FireAndForget(e) == FALSE

\* if (event == IPI_SOFT) return
FireAndForget(e) == e = "soft"

ReturnSoft(h) ==
  /\ pc[h] = "post" /\ todo[h] = {} /\ FireAndForget(event[h])
  /\ Leave(h)
  /\ UNCHANGED <<ipi, mip, pending, ssip, taken, todo, calls, owed, promised>>

\* Mutant: the second loop goes on with the m the first one left at 0.
M_WaitSet(h) == todo[h]

\* m = mask
WaitSet(h) == targets[h]

\* A fence starts over the mask, waiting.
StartWait(h) ==
  /\ pc[h] = "post" /\ todo[h] = {} /\ ~FireAndForget(event[h])
  /\ todo' = [todo EXCEPT ![h] = WaitSet(h)]
  /\ incoming' = [incoming EXCEPT ![h] = 0]
  /\ targets' = [targets EXCEPT ![h] = {}]
  /\ pc' = [pc EXCEPT ![h] = "wait"]
  /\ UNCHANGED <<ipi, mip, pending, ssip, taken, event, calls, owed, promised>>

\* while (*OTHER_HLS(i)->ipi)
Poll(h, i) ==
  /\ pc[h] = "wait" /\ Lowest(i, todo[h])
  /\ \/ ipi[i] = 0 /\ todo' = [todo EXCEPT ![h] = @ \ {i}] /\ pc' = pc
     \/ ipi[i] # 0 /\ pc' = [pc EXCEPT ![h] = "swap"] /\ todo' = todo
  /\ UNCHANGED <<ipi, mip, pending, ssip, taken, event, targets, incoming, calls,
                 owed, promised>>

\* Mutants: a counter instead of a flag; the swapped-out value thrown away.
M_Consumed(h) == incoming[h] + ipi[h]
M_Forgotten(h) == incoming[h]

\* incoming_ipi |= atomic_swap(HLS()->ipi, 0)
Consumed(h) == IF ipi[h] # 0 THEN 1 ELSE incoming[h]

\* Mutant: polling without consuming one's own interrupt.
M_SwapOwn(h) ==
  /\ pc[h] = "swap"
  /\ pc' = [pc EXCEPT ![h] = "wait"]
  /\ UNCHANGED <<ipi, mip, pending, ssip, taken, event, targets, todo, incoming, calls,
                 owed, promised>>

SwapOwn(h) ==
  /\ pc[h] = "swap"
  /\ incoming' = [incoming EXCEPT ![h] = Consumed(h)]
  /\ ipi' = [ipi EXCEPT ![h] = 0]
  /\ mip' = [mip EXCEPT ![h] = 0]
  /\ pc' = [pc EXCEPT ![h] = "wait"]
  /\ UNCHANGED <<pending, ssip, taken, event, targets, todo, calls, owed, promised>>

\* Mutant: the consumed interrupt is not put back.
M_RestoreOwn(h) == ipi' = ipi /\ mip' = mip

\* The end of a fence call: put a consumed interrupt back, and mret.
RestoreOwn(h) ==
  IF incoming[h] # 0
  THEN ipi' = [ipi EXCEPT ![h] = 1] /\ mip' = [mip EXCEPT ![h] = 1]
  ELSE ipi' = ipi /\ mip' = mip

ReturnFence(h) ==
  /\ pc[h] = "wait" /\ todo[h] = {}
  /\ RestoreOwn(h)
  /\ Leave(h)
  /\ promised' = [t \in Harts |->
                    IF h \in owed[t] THEN promised[t] \cup {event[h]} ELSE promised[t]]
  /\ owed' = [t \in Harts |-> owed[t] \ {h}]
  /\ UNCHANGED <<pending, ssip, taken, todo, calls>>

-----------------------------------------------------------------------------
(* The receiver: the software-interrupt path of trap_vector.               *)

\* mip.MSIP follows the register.
Propagate(h) ==
  /\ mip[h] # ipi[h]
  /\ mip' = [mip EXCEPT ![h] = ipi[h]]
  /\ UNCHANGED <<pc, ipi, pending, ssip, taken, event, targets, todo, incoming, calls,
                 owed, promised>>

\* The trap, and "First, clear the MIPI bit".
IrqClear(h) ==
  /\ pc[h] = "user" /\ mip[h] # 0
  /\ ipi' = [ipi EXCEPT ![h] = 0]
  /\ mip' = [mip EXCEPT ![h] = 0]
  /\ pc' = [pc EXCEPT ![h] = "irq_take"]
  /\ UNCHANGED <<pending, ssip, taken, event, targets, todo, incoming, calls,
                 owed, promised>>

\* amoswap.w a0, x0, (mipi_pending)
IrqTake(h) ==
  /\ pc[h] = "irq_take"
  /\ taken' = [taken EXCEPT ![h] = pending[h]]
  /\ pending' = [pending EXCEPT ![h] = {}]
  /\ pc' = [pc EXCEPT ![h] = "irq_run"]
  /\ UNCHANGED <<ipi, mip, ssip, event, targets, todo, incoming, calls, owed, promised>>

\* Mutant: mipi_pending is stored 0 after the events were decoded, too.
M_IrqRun(h) ==
  /\ pc[h] = "irq_run"
  /\ pending' = [pending EXCEPT ![h] = {}]
  /\ ssip' = IF "soft" \in taken[h] THEN [ssip EXCEPT ![h] = 1] ELSE ssip
  /\ owed' = [owed EXCEPT ![h] = {s \in @ : event[s] \notin taken[h]}]
  /\ promised' = [promised EXCEPT ![h] = @ \ taken[h]]
  /\ taken' = [taken EXCEPT ![h] = {}]
  /\ pc' = [pc EXCEPT ![h] = "user"]
  /\ UNCHANGED <<ipi, mip, event, targets, todo, incoming, calls>>

\* Raise SSIP, run the fences asked for, mret.
IrqRun(h) ==
  /\ pc[h] = "irq_run"
  /\ ssip' = IF "soft" \in taken[h] THEN [ssip EXCEPT ![h] = 1] ELSE ssip
  /\ owed' = [owed EXCEPT ![h] = {s \in @ : event[s] \notin taken[h]}]
  /\ promised' = [promised EXCEPT ![h] = @ \ taken[h]]
  /\ taken' = [taken EXCEPT ![h] = {}]
  /\ pc' = [pc EXCEPT ![h] = "user"]
  /\ UNCHANGED <<ipi, mip, pending, event, targets, todo, incoming, calls>>

\* SBI_CLEAR_IPI
ClearIpi(h) ==
  /\ Begin(h)
  /\ ssip' = [ssip EXCEPT ![h] = 0]
  /\ UNCHANGED <<pc, ipi, mip, pending, taken, event, targets, todo, incoming,
                 owed, promised>>

-----------------------------------------------------------------------------
(* A hart that is not Running waits in .LmultiHart for the interrupt of    *)
(* wake_harts, clears it in hart_plic_init and stays in boot_other_hart    *)
(* for ever, in machine mode with interrupts off.                          *)

LeaveMultiHart(h) ==
  /\ pc[h] = "multihart" /\ h \notin Disabled /\ mip[h] # 0
  /\ pc' = [pc EXCEPT ![h] = "init_other"]
  /\ UNCHANGED <<ipi, mip, pending, ssip, taken, event, targets, todo, incoming, calls,
                 owed, promised>>

HartPlicInit(h) ==
  /\ pc[h] = "init_other"
  /\ ipi' = [ipi EXCEPT ![h] = 0]
  /\ mip' = [mip EXCEPT ![h] = 0]
  /\ ssip' = [ssip EXCEPT ![h] = 0]
  /\ pc' = [pc EXCEPT ![h] = "parked"]
  /\ UNCHANGED <<pending, taken, event, targets, todo, incoming, calls, owed, promised>>

-----------------------------------------------------------------------------
\* The steps hart h takes by itself once it is in machine mode or interrupted.
Step(h) ==
  \/ \E i \in Harts : SkipDisabled(h, i) \/ Post(h, i) \/ Raise(h, i) \/ Poll(h, i)
  \/ ReturnSoft(h) \/ StartWait(h) \/ SwapOwn(h) \/ ReturnFence(h)
  \/ IrqClear(h) \/ IrqTake(h) \/ IrqRun(h)
  \/ LeaveMultiHart(h) \/ HartPlicInit(h)

Next == \E h \in Harts : Ecall(h) \/ ClearIpi(h) \/ Step(h) \/ Propagate(h)

Spec == Init /\ [][Next]_vars

\* Every hart is its own processor, and a register write reaches mip in the end;
\* that a payload makes a call is not assumed.
Fairness == \A h \in Harts : WF_vars(Step(h)) /\ WF_vars(Propagate(h))
FairSpec == Spec /\ Fairness
-----------------------------------------------------------------------------
(* Properties.                                                             *)

TypeOK ==
  /\ pc \in [Harts -> {"user", "post", "raise", "wait", "swap", "irq_take", "irq_run",
                       "multihart", "init_other", "parked"}]
  /\ ipi \in [Harts -> {0, 1}]
  /\ mip \in [Harts -> {0, 1}]
  /\ pending \in [Harts -> SUBSET Events]
  /\ ssip \in [Harts -> {0, 1}]
  /\ taken \in [Harts -> SUBSET Events]
  /\ event \in [Harts -> Events]
  /\ targets \in [Harts -> SUBSET Harts]
  /\ todo \in [Harts -> SUBSET Harts]
  /\ incoming \in [Harts -> {0, 1}]
  /\ calls \in [Harts -> Nat]
  /\ owed \in [Harts -> SUBSET Harts]
  /\ promised \in [Harts -> SUBSET Events]

\* An interrupt consumed by the polling loop is only in incoming_ipi.
Held(h) == pc[h] \in {"wait", "swap"} /\ incoming[h] = 1

\* No wake-up is lost: whenever a running hart has an event pending, something
\* will still make it look: its register is up, the interrupt is being handled
\* before the swap of mipi_pending, its own send_ipi_many holds it in
\* incoming_ipi, or a sender is between the two steps of send_ipi to it.
EventNotLost ==
  \A h \in Running :
    pending[h] # {} => \/ ipi[h] = 1
                       \/ Held(h)
                       \/ pc[h] = "irq_take"
                       \/ \E s \in Harts : pc[s] = "raise" /\ Lowest(h, todo[s])

\* The promise of a remote fence: no hart executes lower-mode code with the
\* fence of a call that has returned still to run ("it will be taken after
\* returning", machine/mtrap.c:149).
NoStaleExecution ==
  \A h \in Running : Free(h) => promised[h] = {}

\* Hart h waits for the register of a hart that takes no interrupts.
Hangs(h) == pc[h] \in {"wait", "swap"} /\ ~(todo[h] \subseteq Running \cup Disabled)

\* The polling loops of harts that wait for each other do not deadlock ("prevent
\* deadlock by consuming incoming IPIs"): an SBI call returns unless it is a
\* fence to a parked hart, even while another hart hangs in such a fence.
CallsReturn ==
  \A h \in Running :
    pc[h] = "post" /\ (event[h] = "soft" \/ targets[h] \subseteq Running \cup Disabled)
      ~> pc[h] = "user"

\* The comment without its condition: every call returns.
NoDeadlock ==
  \A h \in Running : pc[h] = "post" ~> pc[h] = "user"

\* A posted event is handled, whatever the hart was doing when it arrived.
EventsHandled ==
  \A h \in Running, e \in Kinds :
    e \in pending[h] ~> (pc[h] = "irq_run" /\ e \in taken[h]) \/ Hangs(h)

\* The code keeps the promise of RemoteFence.
Promise == INSTANCE RemoteFence WITH running <- {h \in Running : Free(h)}
KeepsPromise == Promise!Spec
-----------------------------------------------------------------------------
(* The inductive invariant behind the two safety properties.               *)

RunningInv ==
  \A h \in Harts : h \in Running <=> pc[h] \notin {"multihart", "init_other", "parked"}

MipInv == \A h \in Harts : mip[h] = 1 => ipi[h] = 1

CallInv ==
  \A h \in Harts :
    /\ pc[h] \in {"post", "raise"} => todo[h] \subseteq targets[h]
    /\ pc[h] \in {"wait", "swap"} => event[h] \in Fences
    /\ promised[h] \subseteq Fences

\* Hart t runs fence e before it runs any lower-mode code.
Secured(t, e) ==
  \/ pc[t] = "irq_run" /\ e \in taken[t]
  \/ e \in pending[t] /\ \/ pc[t] = "irq_take"
                         \/ Held(t)
                         \/ pc[t] = "user" /\ mip[t] = 1

PromisedInv == \A t \in Running : \A e \in promised[t] : Secured(t, e)

\* Caller s has not yet seen the register of t at 0.
Watching(s, t) == pc[s] \in {"post", "raise"} \/ t \in todo[s]

OwedInv ==
  \A t \in Running : \A s \in owed[t] :
    /\ event[s] \in Fences
    /\ pc[s] \in {"post", "raise", "wait", "swap"}
    /\ pc[s] = "post" => t \in targets[s] \ todo[s]
    /\ pc[s] = "raise" => t \in targets[s] /\ (t \in todo[s] => Lowest(t, todo[s]))
    /\ \/ Secured(t, event[s])
       \/ /\ event[s] \in pending[t]
          /\ \/ pc[s] = "raise" /\ Lowest(t, todo[s])
             \/ ipi[t] = 1 /\ Watching(s, t)

IInv == TypeOK /\ RunningInv /\ MipInv /\ CallInv /\ PromisedInv /\ OwedInv
=============================================================================
