---------------------------- MODULE TimerProofs ----------------------------
(***************************************************************************)
(* Proofs about Timer, for any width, bound, build and CLINT.           *)
(***************************************************************************)
EXTENDS Timer, TLAPS

\* What each place of the handlers knows.  Behind the store, timecmp is the
\* time asked for; where the interrupt is enabled in the lower mode, it has
\* been asked for and not passed on.
PlaceInv ==
  /\ mode \in {"clear", "enable"} => timecmp = when
  /\ mode = "enable" => ~stip
  /\ mode = "raise" => ~mtie /\ asked # None
  /\ mode = "lower" /\ asked = None => ~stip /\ ~mtie

\* With a prompt CLINT, MTIP is the comparison, and the interrupt handler runs
\* in the time it was set for.
PromptInv == prompt =>
  /\ (mtip <=> mtime >= timecmp)
  /\ mode = "raise" => mtime >= asked
  /\ NoEarly

IInv == TypeOK /\ PlaceInv /\ RequestKept /\ NoStorm

\* Half a uint64_t and half of another make a uint64_t.
LEMMA Halves == \A t, w \in Times : High(t) * Half + Low(w) \in Times
<1> SUFFICES ASSUME NEW t \in Times, NEW w \in Times PROVE High(t) * Half + Low(w) \in Times
  OBVIOUS
<1> DEFINE q == High(t)  r == Low(w)
<1>1. Half \in Nat /\ Half > 1
  BY TimeAssumption
<1>2. r \in Nat /\ r <= Half - 1
  BY <1>1 DEF Times, Low
<1>3. q \in Nat /\ q <= Half - 1
  BY <1>1, Z3 DEF Times, High
<1>4. q * Half \in Nat /\ q * Half <= (Half - 1) * Half
  BY <1>1, <1>3, Z3
<1> HIDE DEF q, r
<1>5. QED
  BY <1>1, <1>2, <1>4, Z3 DEF Times, q, r

\* The comparison is a Boolean.
LEMMA CompareType ==
  ASSUME TypeOK, NEW now \in Int, NEW then \in Int, Compare(now, then)
  PROVE  mtip' \in BOOLEAN
<1>1. CASE prompt
  <2>1. mtip' = (now >= then)
    BY <1>1, Zenon DEF Compare
  <2>2. CASE now >= then
    BY <2>1, <2>2
  <2>3. CASE ~(now >= then)
    BY <2>1, <2>3
  <2>4. QED
    BY <2>2, <2>3
<1>2. CASE ~prompt
  BY <1>2 DEF Compare, TypeOK
<1>3. QED
  BY <1>1, <1>2

\* Every step preserves the types.
LEMMA NextTypeOK == TypeOK /\ [Next]_vars => TypeOK'
<1> SUFFICES ASSUME TypeOK, [Next]_vars PROVE TypeOK'
  OBVIOUS
<1> USE TimeAssumption DEF TypeOK, Modes, csrs, machine
<1>1. CASE Tick
  <2>1. mtip' \in BOOLEAN
    <3>1. mtime + 1 \in Int /\ timecmp \in Int /\ Compare(mtime + 1, timecmp)
      BY <1>1 DEF Tick, Times
    <3>2. QED
      BY <3>1, CompareType
  <2>2. QED
    BY <1>1, <2>1 DEF Tick
<1>2. CASE Latch
  BY <1>2 DEF Latch
<1>3. ASSUME NEW w \in Times, SetTimer(w) PROVE TypeOK'
  BY <1>3 DEF SetTimer
<1>4. CASE Store
  <2>1. mtip' \in BOOLEAN
    <3>1. mtime \in Int /\ when \in Int /\ Compare(mtime, when)
      BY <1>4 DEF Store, Times
    <3>2. QED
      BY <3>1, CompareType
  <2>2. QED
    BY <1>4, <2>1 DEF Store
<1>5. CASE StoreLow
  <2>1. High(timecmp) * Half + Low(when) \in Times
    BY Halves
  <2>2. PICK half \in Times : timecmp' = half /\ Compare(mtime, half)
    BY <1>5, <2>1 DEF StoreLow
  <2>3. mtime \in Int /\ half \in Int
    BY DEF Times
  <2>4. mtip' \in BOOLEAN
    BY <2>2, <2>3, CompareType
  <2>5. QED
    BY <1>5, <2>2, <2>4 DEF StoreLow
<1>6. CASE StoreHigh
  <2>1. mtip' \in BOOLEAN
    <3>1. mtime \in Int /\ when \in Int /\ Compare(mtime, when)
      BY <1>6 DEF StoreHigh, Times
    <3>2. QED
      BY <3>1, CompareType
  <2>2. QED
    BY <1>6, <2>1 DEF StoreHigh
<1>7. CASE ClearStip
  BY <1>7 DEF ClearStip, Cleared
<1>8. CASE SetMtie
  BY <1>8 DEF SetMtie, EnabledMtie
<1>9. CASE Interrupt
  BY <1>9 DEF Interrupt, MaskedMtie
<1>10. CASE RaiseStip
  BY <1>10 DEF RaiseStip, Raised
<1>11. CASE UNCHANGED vars
  BY <1>11 DEF vars
<1>12. QED
  BY <1>1, <1>2, <1>3, <1>4, <1>5, <1>6, <1>7, <1>8, <1>9, <1>10, <1>11 DEF Next, Handler

\* Every step preserves what the places know, the request and the mask.
LEMMA NextInv == IInv /\ [Next]_vars => IInv'
<1> SUFFICES ASSUME IInv, [Next]_vars PROVE (PlaceInv /\ RequestKept /\ NoStorm)'
  BY NextTypeOK DEF IInv
<1> USE DEF IInv, TypeOK, Modes, PlaceInv, RequestKept, NoStorm, csrs, machine
<1>1. CASE Tick
  BY <1>1 DEF Tick
<1>2. CASE Latch
  BY <1>2 DEF Latch
<1>3. ASSUME NEW w \in Times, SetTimer(w) PROVE (PlaceInv /\ RequestKept /\ NoStorm)'
  BY <1>3 DEF SetTimer
<1>4. CASE Store
  BY <1>4 DEF Store
<1>5. CASE StoreLow
  BY <1>5 DEF StoreLow
<1>6. CASE StoreHigh
  BY <1>6 DEF StoreHigh
<1>7. CASE ClearStip
  BY <1>7 DEF ClearStip, Cleared
<1>8. CASE SetMtie
  BY <1>8, TimeAssumption DEF SetMtie, EnabledMtie, Times, None
<1>9. CASE Interrupt
  BY <1>9 DEF Interrupt, MaskedMtie
<1>10. CASE RaiseStip
  BY <1>10 DEF RaiseStip, Raised
<1>11. CASE UNCHANGED vars
  BY <1>11 DEF vars
<1>12. QED
  BY <1>1, <1>2, <1>3, <1>4, <1>5, <1>6, <1>7, <1>8, <1>9, <1>10, <1>11 DEF Next, Handler

\* The build and the machine stay what they are.
LEMMA Unchanging == [Next]_vars => UNCHANGED machine
BY DEF Next, Handler, Tick, Latch, SetTimer, Store, StoreLow, StoreHigh, ClearStip, SetMtie, Interrupt, RaiseStip, vars, machine

\* Every step preserves the agreement of MTIP and the clock.
LEMMA NextPrompt == IInv /\ PromptInv /\ [Next]_vars => PromptInv'
<1> SUFFICES ASSUME IInv, PromptInv, prompt, prompt', [Next]_vars
             PROVE  ((mtip <=> mtime >= timecmp) /\ (mode = "raise" => mtime >= asked) /\ NoEarly)'
  <2>1. [Next]_vars => prompt' = prompt
    BY Unchanging DEF machine
  <2>2. QED
    BY <2>1 DEF PromptInv
<1> USE TimeAssumption DEF PromptInv, IInv, TypeOK, Modes, Times, PlaceInv, RequestKept, NoStorm, NoEarly, csrs, machine, Compare, None
<1>1. CASE Tick
  <2>1. mtip' = (mtime + 1 >= timecmp)
    BY <1>1 DEF Tick
  <2>2. mtime' = mtime + 1 /\ timecmp' = timecmp /\ mode' = mode /\ asked' = asked /\ stip' = stip
    BY <1>1 DEF Tick
  <2>3. (mtip <=> mtime >= timecmp)'
    BY <2>1, <2>2
  <2>4. (mode = "raise" => mtime >= asked)' /\ NoEarly'
    BY <2>2
  <2>5. QED
    BY <2>3, <2>4
<1>2. CASE Latch
  BY <1>2 DEF Latch
<1>3. ASSUME NEW w \in Times, SetTimer(w)
      PROVE  ((mtip <=> mtime >= timecmp) /\ (mode = "raise" => mtime >= asked) /\ NoEarly)'
  BY <1>3 DEF SetTimer
<1>4. CASE Store
  BY <1>4 DEF Store
<1>5. CASE StoreLow
  BY <1>5 DEF StoreLow
<1>6. CASE StoreHigh
  BY <1>6 DEF StoreHigh
<1>7. CASE ClearStip
  BY <1>7 DEF ClearStip, Cleared
<1>8. CASE SetMtie
  BY <1>8 DEF SetMtie, EnabledMtie
<1>9. CASE Interrupt
  BY <1>9 DEF Interrupt, MaskedMtie
<1>10. CASE RaiseStip
  BY <1>10 DEF RaiseStip, Raised
<1>11. CASE UNCHANGED vars
  BY <1>11 DEF vars
<1>12. QED
  BY <1>1, <1>2, <1>3, <1>4, <1>5, <1>6, <1>7, <1>8, <1>9, <1>10, <1>11 DEF Next, Handler

\* The initial states satisfy the invariants.
LEMMA InitInv == Init => IInv /\ PromptInv
<1> SUFFICES ASSUME Init PROVE IInv /\ PromptInv
  OBVIOUS
<1>1. Never \in Times /\ 0 \in Times /\ ~(0 >= Never)
  BY TimeAssumption, Z3 DEF Never, Times
<1>2. QED
  <2>1. IInv
    <3>1. TypeOK
      <4>1. mode \in Modes /\ when \in Times /\ timecmp \in Times
        BY <1>1 DEF Init, Modes
      <4>2. mtie \in BOOLEAN /\ stip \in BOOLEAN /\ mtip \in BOOLEAN
        BY DEF Init
      <4>3. mtime \in 0 .. MaxTime /\ asked \in Times \cup {None}
        BY TimeAssumption DEF Init
      <4>4. split \in BOOLEAN /\ prompt \in BOOLEAN
        BY DEF Init
      <4>5. QED
        BY <4>1, <4>2, <4>3, <4>4 DEF TypeOK
    <3>2. PlaceInv /\ RequestKept /\ NoStorm
      BY DEF Init, PlaceInv, RequestKept, NoStorm
    <3>3. QED
      BY <3>1, <3>2 DEF IInv
  <2>2. (mtip <=> mtime >= timecmp)
    <3>1. ~(mtime >= timecmp)
      BY <1>1 DEF Init
    <3>2. QED
      BY <3>1 DEF Init
  <2>3. QED
    BY <2>1, <2>2 DEF Init, PromptInv, NoEarly

\* The invariants hold in every reachable state.
LEMMA Inductive == Spec => []IInv /\ []PromptInv
BY InitInv, NextInv, NextPrompt, PTL DEF Spec

\* The variables of Timer keep their types.
THEOREM TypeCorrect == Spec => []TypeOK
<1>1. IInv => TypeOK
  BY DEF IInv
<1>2. QED
  BY Inductive, <1>1, PTL

\* A request stays armed or has been passed on whenever the lower mode runs.
THEOREM NothingLost == Spec => []RequestKept
<1>1. IInv => RequestKept
  BY DEF IInv
<1>2. QED
  BY Inductive, <1>1, PTL

\* The machine-level interrupt is masked while the supervisor's is pending.
THEOREM MaskedWhilePending == Spec => []NoStorm
<1>1. IInv => NoStorm
  BY DEF IInv
<1>2. QED
  BY Inductive, <1>1, PTL

\* With a prompt CLINT no timer is early, although the store may be split.
THEOREM OnTime == Spec => []NoEarly
<1>1. PromptInv => NoEarly
  BY DEF PromptInv, NoEarly
<1>2. QED
  BY Inductive, <1>1, PTL
=============================================================================
