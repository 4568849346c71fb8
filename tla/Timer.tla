-------------------------------- MODULE Timer --------------------------------
(***************************************************************************)
(* The timer of one hart: mcall_set_timer (machine/mtrap.c) and the timer  *)
(* interrupt of trap_vector (machine/mentry.S), against the clock and the  *)
(* CLINT, which raises MTIP while mtime has reached timecmp.  A hart only  *)
(* touches its own timer.  Machine mode runs with interrupts disabled, so  *)
(* both handlers run to their end, but the clock does not wait for them.   *)
(***************************************************************************)
EXTENDS Integers

CONSTANTS
  Half,      \* half of a uint64_t counts from 0 to Half - 1
  MaxTime    \* bound: mtime stops here

Times == 0 .. Half * Half - 1
Never == Half * Half - 1     \* -1ULL
None == -1                   \* no request made

ASSUME TimeAssumption == Half \in Nat \ {0, 1} /\ MaxTime \in Nat /\ MaxTime < Half * Half

VARIABLES
  split,     \* the build: whether timecmp is written in two halves, as on RV32
  prompt,    \* the machine: whether MTIP always agrees with the comparison
  mode,      \* "lower", or the place in a handler
  when,      \* argument of mcall_set_timer
  timecmp,
  mtie,      \* mie.MTIE
  stip,      \* mip.STIP
  mtip,      \* mip.MTIP
  mtime,
  asked      \* the time of the last finished request; only properties read it

vars == <<split, prompt, mode, when, timecmp, mtie, stip, mtip, mtime, asked>>
csrs == <<mtie, stip>>
machine == <<split, prompt>>   \* never changes

Low(t) == t % Half
High(t) == t \div Half

\* The state that hart_plic_init leaves, for each build and machine.
Init ==
  /\ split \in BOOLEAN /\ prompt \in BOOLEAN
  /\ mode = "lower" /\ when = 0 /\ timecmp = Never
  /\ mtie = FALSE /\ stip = FALSE /\ mtip = FALSE
  /\ mtime = 0 /\ asked = None

-----------------------------------------------------------------------------
(* The clock and the CLINT *)

\* MTIP after a change of mtime or timecmp to these.
Compare(now, then) == IF prompt THEN mtip' = (now >= then) ELSE mtip' = mtip

Tick ==
  /\ mtime < MaxTime
  /\ mtime' = mtime + 1
  /\ Compare(mtime + 1, timecmp)
  /\ UNCHANGED <<machine, mode, when, timecmp, csrs, asked>>

\* A CLINT that is not prompt
Latch ==
  /\ mtip # (mtime >= timecmp)
  /\ mtip' = (mtime >= timecmp)
  /\ UNCHANGED <<machine, mode, when, timecmp, csrs, mtime, asked>>

-----------------------------------------------------------------------------
(* mcall_set_timer *)

SetTimer(w) ==
  /\ mode = "lower"
  /\ mode' = "store" /\ when' = w
  /\ UNCHANGED <<machine, timecmp, csrs, mtip, mtime, asked>>

\* *HLS()->timecmp = when
Store ==
  /\ mode = "store" /\ ~split
  /\ timecmp' = when
  /\ Compare(mtime, when)
  /\ mode' = "clear"
  /\ UNCHANGED <<machine, when, csrs, mtime, asked>>

\* ... in two halves, the low one first
StoreLow ==
  /\ mode = "store" /\ split
  /\ LET half == High(timecmp) * Half + Low(when) IN
       timecmp' = half /\ Compare(mtime, half)
  /\ mode' = "high"
  /\ UNCHANGED <<machine, when, csrs, mtime, asked>>

StoreHigh ==
  /\ mode = "high"
  /\ timecmp' = when
  /\ Compare(mtime, when)
  /\ mode' = "clear"
  /\ UNCHANGED <<machine, when, csrs, mtime, asked>>

\* Mutant: STIP is left as it was.
M_Cleared == stip

Cleared == FALSE

ClearStip ==
  /\ mode = "clear"
  /\ stip' = Cleared
  /\ mode' = "enable"
  /\ UNCHANGED <<machine, when, timecmp, mtie, mtip, mtime, asked>>

\* Mutant: MTIE is left as it was.
M_EnabledMtie == mtie

EnabledMtie == TRUE

SetMtie ==
  /\ mode = "enable"
  /\ mtie' = EnabledMtie /\ asked' = when
  /\ mode' = "lower"
  /\ UNCHANGED <<machine, when, timecmp, stip, mtip, mtime>>

-----------------------------------------------------------------------------
(* The interrupt *)

\* Mutant: the interrupt is left enabled.
M_MaskedMtie == mtie

MaskedMtie == FALSE

Interrupt ==
  /\ mode = "lower" /\ mtie /\ mtip
  /\ mtie' = MaskedMtie
  /\ mode' = "raise"
  /\ UNCHANGED <<machine, when, timecmp, stip, mtip, mtime, asked>>

\* Mutant: the supervisor's bit is not raised.
M_Raised == stip

Raised == TRUE

RaiseStip ==
  /\ mode = "raise"
  /\ stip' = Raised
  /\ mode' = "lower"
  /\ UNCHANGED <<machine, when, timecmp, mtie, mtip, mtime, asked>>

Handler == Store \/ StoreLow \/ StoreHigh \/ ClearStip \/ SetMtie \/ Interrupt \/ RaiseStip

Next == Tick \/ Latch \/ Handler \/ \E w \in Times : SetTimer(w)

Spec == Init /\ [][Next]_vars

(* The clock ticks, the CLINT compares, and the hart executes its handlers. *)
FairSpec == Spec /\ WF_vars(Tick) /\ WF_vars(Latch) /\ WF_vars(Handler)

-----------------------------------------------------------------------------
(* Properties *)

Modes == {"lower", "store", "high", "clear", "enable", "raise"}

\* The variables keep their types.
TypeOK ==
  /\ split \in BOOLEAN /\ prompt \in BOOLEAN
  /\ mode \in Modes /\ when \in Times /\ timecmp \in Times
  /\ mtie \in BOOLEAN /\ stip \in BOOLEAN /\ mtip \in BOOLEAN
  /\ mtime \in 0 .. MaxTime /\ asked \in Times \cup {None}

\* While the lower mode runs after a request, either the timer is armed for
\* exactly that time or its interrupt has been passed on: a request is not
\* lost, however the clock moves during the handlers.
RequestKept ==
  mode = "lower" /\ asked # None => stip \/ (mtie /\ timecmp = asked)

\* The machine-level interrupt stays masked while the supervisor's is pending,
\* so an expired timer does not interrupt the lower mode again and again.
NoStorm == mode = "lower" => ~(stip /\ mtie)

\* With a prompt CLINT the lower mode never sees its timer early, although half
\* a store may leave a time long past in timecmp.
NoEarly == prompt /\ mode = "lower" /\ stip => asked # None /\ mtime >= asked

\* A request whose time the clock reaches is passed on, unless the lower mode
\* makes another.
Delivered == (mode = "lower" /\ asked \in 0 .. MaxTime) ~> (stip \/ mode = "store")
=============================================================================
