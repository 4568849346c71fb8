----------------------------- MODULE IpiProofs -----------------------------
(***************************************************************************)
(* Proofs about Ipi, for every set of harts, every choice of running and   *)
(* disabled harts and every bound.                                         *)
(***************************************************************************)
EXTENDS Ipi, TLAPS

\* The initial state is well typed.
LEMMA InitType == Init => TypeOK
  BY RunningAssumption DEF Init, TypeOK, Events, Fences

\* Every action preserves the types.
LEMMA NextType == TypeOK /\ [Next]_vars => TypeOK'
<1> SUFFICES ASSUME TypeOK, [Next]_vars PROVE TypeOK'
  OBVIOUS
<1> USE DEF TypeOK, Events, Fences
<1>1. CASE UNCHANGED vars
  BY <1>1 DEF vars, code
<1>2. ASSUME NEW h \in Harts, Ecall(h) PROVE TypeOK'
  BY <1>2, BoundsAssumption DEF Ecall, Begin
<1>3. ASSUME NEW h \in Harts, NEW i \in Harts, SkipDisabled(h, i) PROVE TypeOK'
  BY <1>3 DEF SkipDisabled
<1>4. ASSUME NEW h \in Harts, NEW i \in Harts, Post(h, i) PROVE TypeOK'
  BY <1>4 DEF Post
<1>5. ASSUME NEW h \in Harts, NEW i \in Harts, Raise(h, i) PROVE TypeOK'
  BY <1>5 DEF Raise
<1>6. ASSUME NEW h \in Harts, NEW i \in Harts, Poll(h, i) PROVE TypeOK'
  BY <1>6 DEF Poll
<1>7. ASSUME NEW h \in Harts, ReturnSoft(h) PROVE TypeOK'
  BY <1>7 DEF ReturnSoft, Leave
<1>8. ASSUME NEW h \in Harts, StartWait(h) PROVE TypeOK'
  BY <1>8 DEF StartWait, WaitSet
<1>9. ASSUME NEW h \in Harts, SwapOwn(h) PROVE TypeOK'
  BY <1>9 DEF SwapOwn, Consumed
<1>10. ASSUME NEW h \in Harts, ReturnFence(h) PROVE TypeOK'
  BY <1>10 DEF ReturnFence, Leave, RestoreOwn
<1>11. ASSUME NEW h \in Harts, Propagate(h) PROVE TypeOK'
  BY <1>11 DEF Propagate
<1>12. ASSUME NEW h \in Harts, IrqClear(h) PROVE TypeOK'
  BY <1>12 DEF IrqClear
<1>13. ASSUME NEW h \in Harts, IrqTake(h) PROVE TypeOK'
  BY <1>13 DEF IrqTake
<1>14. ASSUME NEW h \in Harts, IrqRun(h) PROVE TypeOK'
  BY <1>14 DEF IrqRun
<1>15. ASSUME NEW h \in Harts, ClearIpi(h) PROVE TypeOK'
  BY <1>15 DEF ClearIpi, Begin
<1>16. ASSUME NEW h \in Harts, LeaveMultiHart(h) PROVE TypeOK'
  BY <1>16 DEF LeaveMultiHart
<1>17. ASSUME NEW h \in Harts, HartPlicInit(h) PROVE TypeOK'
  BY <1>17 DEF HartPlicInit
<1>18. QED
  BY <1>1, <1>2, <1>3, <1>4, <1>5, <1>6, <1>7, <1>8, <1>9, <1>10, <1>11, <1>12, <1>13,
     <1>14, <1>15, <1>16, <1>17 DEF Next, Step

\* Only running harts reach lower-mode code, the senders and the handler.
LEMMA NextRunningInv == TypeOK /\ RunningInv /\ [Next]_vars => RunningInv'
<1> SUFFICES ASSUME TypeOK, RunningInv, [Next]_vars PROVE RunningInv'
  OBVIOUS
<1> USE HartsAssumption, RunningAssumption DEF TypeOK, RunningInv
<1>1. CASE UNCHANGED vars
  BY <1>1 DEF vars, code
<1>2. ASSUME NEW h \in Harts, Ecall(h) PROVE RunningInv'
  BY <1>2 DEF Ecall, Begin, Free
<1>3. ASSUME NEW h \in Harts, NEW i \in Harts, SkipDisabled(h, i) PROVE RunningInv'
  BY <1>3 DEF SkipDisabled
<1>4. ASSUME NEW h \in Harts, NEW i \in Harts, Post(h, i) PROVE RunningInv'
  BY <1>4 DEF Post
<1>5. ASSUME NEW h \in Harts, NEW i \in Harts, Raise(h, i) PROVE RunningInv'
  BY <1>5 DEF Raise
<1>6. ASSUME NEW h \in Harts, NEW i \in Harts, Poll(h, i) PROVE RunningInv'
  BY <1>6 DEF Poll
<1>7. ASSUME NEW h \in Harts, ReturnSoft(h) PROVE RunningInv'
  BY <1>7 DEF ReturnSoft, Leave, FireAndForget
<1>8. ASSUME NEW h \in Harts, StartWait(h) PROVE RunningInv'
  BY <1>8 DEF StartWait, WaitSet, FireAndForget
<1>9. ASSUME NEW h \in Harts, SwapOwn(h) PROVE RunningInv'
  BY <1>9 DEF SwapOwn, Consumed
<1>10. ASSUME NEW h \in Harts, ReturnFence(h) PROVE RunningInv'
  BY <1>10 DEF ReturnFence, Leave, RestoreOwn
<1>11. ASSUME NEW h \in Harts, Propagate(h) PROVE RunningInv'
  BY <1>11 DEF Propagate
<1>12. ASSUME NEW h \in Harts, IrqClear(h) PROVE RunningInv'
  BY <1>12 DEF IrqClear
<1>13. ASSUME NEW h \in Harts, IrqTake(h) PROVE RunningInv'
  BY <1>13 DEF IrqTake
<1>14. ASSUME NEW h \in Harts, IrqRun(h) PROVE RunningInv'
  BY <1>14 DEF IrqRun
<1>15. ASSUME NEW h \in Harts, ClearIpi(h) PROVE RunningInv'
  BY <1>15 DEF ClearIpi, Begin, Free
<1>16. ASSUME NEW h \in Harts, LeaveMultiHart(h) PROVE RunningInv'
  BY <1>16 DEF LeaveMultiHart
<1>17. ASSUME NEW h \in Harts, HartPlicInit(h) PROVE RunningInv'
  BY <1>17 DEF HartPlicInit
<1>18. QED
  BY <1>1, <1>2, <1>3, <1>4, <1>5, <1>6, <1>7, <1>8, <1>9, <1>10, <1>11, <1>12, <1>13, <1>14, <1>15, <1>16, <1>17 DEF Next, Step

\* A visible interrupt is one whose register is up: mip never outlives ipi.
LEMMA NextMipInv == TypeOK /\ MipInv /\ [Next]_vars => MipInv'
<1> SUFFICES ASSUME TypeOK, MipInv, [Next]_vars PROVE MipInv'
  OBVIOUS
<1> USE HartsAssumption, RunningAssumption DEF TypeOK, MipInv
<1>1. CASE UNCHANGED vars
  BY <1>1 DEF vars, code
<1>2. ASSUME NEW h \in Harts, Ecall(h) PROVE MipInv'
  BY <1>2 DEF Ecall, Begin, Free
<1>3. ASSUME NEW h \in Harts, NEW i \in Harts, SkipDisabled(h, i) PROVE MipInv'
  BY <1>3 DEF SkipDisabled
<1>4. ASSUME NEW h \in Harts, NEW i \in Harts, Post(h, i) PROVE MipInv'
  BY <1>4 DEF Post
<1>5. ASSUME NEW h \in Harts, NEW i \in Harts, Raise(h, i) PROVE MipInv'
  BY <1>5 DEF Raise
<1>6. ASSUME NEW h \in Harts, NEW i \in Harts, Poll(h, i) PROVE MipInv'
  BY <1>6 DEF Poll
<1>7. ASSUME NEW h \in Harts, ReturnSoft(h) PROVE MipInv'
  BY <1>7 DEF ReturnSoft, Leave, FireAndForget
<1>8. ASSUME NEW h \in Harts, StartWait(h) PROVE MipInv'
  BY <1>8 DEF StartWait, WaitSet, FireAndForget
<1>9. ASSUME NEW h \in Harts, SwapOwn(h) PROVE MipInv'
  BY <1>9 DEF SwapOwn, Consumed
<1>10. ASSUME NEW h \in Harts, ReturnFence(h) PROVE MipInv'
  BY <1>10 DEF ReturnFence, Leave, RestoreOwn
<1>11. ASSUME NEW h \in Harts, Propagate(h) PROVE MipInv'
  BY <1>11 DEF Propagate
<1>12. ASSUME NEW h \in Harts, IrqClear(h) PROVE MipInv'
  BY <1>12 DEF IrqClear
<1>13. ASSUME NEW h \in Harts, IrqTake(h) PROVE MipInv'
  BY <1>13 DEF IrqTake
<1>14. ASSUME NEW h \in Harts, IrqRun(h) PROVE MipInv'
  BY <1>14 DEF IrqRun
<1>15. ASSUME NEW h \in Harts, ClearIpi(h) PROVE MipInv'
  BY <1>15 DEF ClearIpi, Begin, Free
<1>16. ASSUME NEW h \in Harts, LeaveMultiHart(h) PROVE MipInv'
  BY <1>16 DEF LeaveMultiHart
<1>17. ASSUME NEW h \in Harts, HartPlicInit(h) PROVE MipInv'
  BY <1>17 DEF HartPlicInit
<1>18. QED
  BY <1>1, <1>2, <1>3, <1>4, <1>5, <1>6, <1>7, <1>8, <1>9, <1>10, <1>11, <1>12, <1>13, <1>14, <1>15, <1>16, <1>17 DEF Next, Step

\* The rest of a mask is part of the mask, and only fences wait or are promised.
LEMMA NextCallInv == TypeOK /\ CallInv /\ [Next]_vars => CallInv'
<1> SUFFICES ASSUME TypeOK, CallInv, [Next]_vars PROVE CallInv'
  OBVIOUS
<1> USE HartsAssumption, RunningAssumption DEF TypeOK, CallInv, Events, Fences
<1>1. CASE UNCHANGED vars
  BY <1>1 DEF vars, code
<1>2. ASSUME NEW h \in Harts, Ecall(h) PROVE CallInv'
  BY <1>2 DEF Ecall, Begin, Free
<1>3. ASSUME NEW h \in Harts, NEW i \in Harts, SkipDisabled(h, i) PROVE CallInv'
  BY <1>3 DEF SkipDisabled
<1>4. ASSUME NEW h \in Harts, NEW i \in Harts, Post(h, i) PROVE CallInv'
  BY <1>4 DEF Post
<1>5. ASSUME NEW h \in Harts, NEW i \in Harts, Raise(h, i) PROVE CallInv'
  BY <1>5 DEF Raise
<1>6. ASSUME NEW h \in Harts, NEW i \in Harts, Poll(h, i) PROVE CallInv'
  BY <1>6 DEF Poll
<1>7. ASSUME NEW h \in Harts, ReturnSoft(h) PROVE CallInv'
  BY <1>7 DEF ReturnSoft, Leave, FireAndForget
<1>8. ASSUME NEW h \in Harts, StartWait(h) PROVE CallInv'
  BY <1>8 DEF StartWait, WaitSet, FireAndForget
<1>9. ASSUME NEW h \in Harts, SwapOwn(h) PROVE CallInv'
  BY <1>9 DEF SwapOwn, Consumed
<1>10. ASSUME NEW h \in Harts, ReturnFence(h) PROVE CallInv'
  BY <1>10 DEF ReturnFence, Leave, RestoreOwn
<1>11. ASSUME NEW h \in Harts, Propagate(h) PROVE CallInv'
  BY <1>11 DEF Propagate
<1>12. ASSUME NEW h \in Harts, IrqClear(h) PROVE CallInv'
  BY <1>12 DEF IrqClear
<1>13. ASSUME NEW h \in Harts, IrqTake(h) PROVE CallInv'
  BY <1>13 DEF IrqTake
<1>14. ASSUME NEW h \in Harts, IrqRun(h) PROVE CallInv'
  BY <1>14 DEF IrqRun
<1>15. ASSUME NEW h \in Harts, ClearIpi(h) PROVE CallInv'
  BY <1>15 DEF ClearIpi, Begin, Free
<1>16. ASSUME NEW h \in Harts, LeaveMultiHart(h) PROVE CallInv'
  BY <1>16 DEF LeaveMultiHart
<1>17. ASSUME NEW h \in Harts, HartPlicInit(h) PROVE CallInv'
  BY <1>17 DEF HartPlicInit
<1>18. QED
  BY <1>1, <1>2, <1>3, <1>4, <1>5, <1>6, <1>7, <1>8, <1>9, <1>10, <1>11, <1>12, <1>13, <1>14, <1>15, <1>16, <1>17 DEF Next, Step

\* A promised fence stays secured until it is run.
LEMMA NextPromisedInv == TypeOK /\ IInv /\ [Next]_vars => PromisedInv'
<1> SUFFICES ASSUME TypeOK, IInv, [Next]_vars PROVE PromisedInv'
  OBVIOUS
<1> USE HartsAssumption, RunningAssumption DEF TypeOK, IInv, RunningInv, MipInv, CallInv, PromisedInv, OwedInv, Events, Fences, Secured, Held
<1>1. CASE UNCHANGED vars
  BY <1>1 DEF vars, code
<1>2. ASSUME NEW h \in Harts, Ecall(h) PROVE PromisedInv'
  BY <1>2 DEF Ecall, Begin, Free
<1>3. ASSUME NEW h \in Harts, NEW i \in Harts, SkipDisabled(h, i) PROVE PromisedInv'
  BY <1>3 DEF SkipDisabled
<1>4. ASSUME NEW h \in Harts, NEW i \in Harts, Post(h, i) PROVE PromisedInv'
  BY <1>4 DEF Post
<1>5. ASSUME NEW h \in Harts, NEW i \in Harts, Raise(h, i) PROVE PromisedInv'
  BY <1>5 DEF Raise
<1>6. ASSUME NEW h \in Harts, NEW i \in Harts, Poll(h, i) PROVE PromisedInv'
  BY <1>6 DEF Poll
<1>7. ASSUME NEW h \in Harts, ReturnSoft(h) PROVE PromisedInv'
  BY <1>7 DEF ReturnSoft, Leave, FireAndForget
<1>8. ASSUME NEW h \in Harts, StartWait(h) PROVE PromisedInv'
  BY <1>8 DEF StartWait, WaitSet, FireAndForget
<1>9. ASSUME NEW h \in Harts, SwapOwn(h) PROVE PromisedInv'
  BY <1>9 DEF SwapOwn, Consumed
<1>10. ASSUME NEW h \in Harts, ReturnFence(h) PROVE PromisedInv'
  <2> SUFFICES ASSUME NEW t \in Running, NEW e \in promised'[t] PROVE Secured(t, e)'
    OBVIOUS
  <2>1. Secured(t, e)
    <3>1. CASE e \in promised[t]
      BY <3>1
    <3>2. CASE h \in owed[t] /\ e = event[h]
      \* The caller's loop is over, so its targets have been secured.
      <4>1. pc[h] = "wait" /\ todo[h] = {}
        BY <1>10 DEF ReturnFence
      <4>2. QED
        BY <3>2, <4>1 DEF Watching
    <3>3. e \in promised[t] \/ (h \in owed[t] /\ e = event[h])
      BY <1>10 DEF ReturnFence
    <3>4. QED
      BY <3>1, <3>2, <3>3
  <2>2. CASE t = h
    \* The interrupt the hart consumed is visible to it again.
    BY <2>1, <2>2, <1>10 DEF ReturnFence, Leave, RestoreOwn
  <2>3. CASE t # h
    BY <2>1, <2>3, <1>10 DEF ReturnFence, Leave, RestoreOwn
  <2>4. QED
    BY <2>2, <2>3
<1>11. ASSUME NEW h \in Harts, Propagate(h) PROVE PromisedInv'
  BY <1>11 DEF Propagate
<1>12. ASSUME NEW h \in Harts, IrqClear(h) PROVE PromisedInv'
  BY <1>12 DEF IrqClear
<1>13. ASSUME NEW h \in Harts, IrqTake(h) PROVE PromisedInv'
  BY <1>13 DEF IrqTake
<1>14. ASSUME NEW h \in Harts, IrqRun(h) PROVE PromisedInv'
  BY <1>14 DEF IrqRun
<1>15. ASSUME NEW h \in Harts, ClearIpi(h) PROVE PromisedInv'
  BY <1>15 DEF ClearIpi, Begin, Free
<1>16. ASSUME NEW h \in Harts, LeaveMultiHart(h) PROVE PromisedInv'
  BY <1>16 DEF LeaveMultiHart
<1>17. ASSUME NEW h \in Harts, HartPlicInit(h) PROVE PromisedInv'
  BY <1>17 DEF HartPlicInit
<1>18. QED
  BY <1>1, <1>2, <1>3, <1>4, <1>5, <1>6, <1>7, <1>8, <1>9, <1>10, <1>11, <1>12, <1>13, <1>14, <1>15, <1>16, <1>17 DEF Next, Step

\* While a caller is owed a fence it is posted, and seen or secured, in every state.
LEMMA NextOwedInv == TypeOK /\ IInv /\ [Next]_vars => OwedInv'
<1> SUFFICES ASSUME TypeOK, IInv, [Next]_vars PROVE OwedInv'
  OBVIOUS
<1> USE HartsAssumption, RunningAssumption DEF TypeOK, IInv, RunningInv, MipInv, CallInv, PromisedInv, OwedInv, Events, Fences, Lowest, Secured, Held, Watching
<1>1. CASE UNCHANGED vars
  BY <1>1 DEF vars, code
<1>2. ASSUME NEW h \in Harts, Ecall(h) PROVE OwedInv'
  BY <1>2 DEF Ecall, Begin, Free
<1>3. ASSUME NEW h \in Harts, NEW i \in Harts, SkipDisabled(h, i) PROVE OwedInv'
  BY <1>3 DEF SkipDisabled
<1>4. ASSUME NEW h \in Harts, NEW i \in Harts, Post(h, i) PROVE OwedInv'
  BY <1>4 DEF Post
<1>5. ASSUME NEW h \in Harts, NEW i \in Harts, Raise(h, i) PROVE OwedInv'
  BY <1>5 DEF Raise
<1>6. ASSUME NEW h \in Harts, NEW i \in Harts, Poll(h, i) PROVE OwedInv'
  <2>1. CASE ipi[i] # 0
    <3>1. pc' = [pc EXCEPT ![h] = "swap"] /\ pc[h] = "wait" /\ todo' = todo
      BY <1>6, <2>1 DEF Poll
    <3>2. QED
      BY <1>6, <3>1 DEF Poll
  <2>2. CASE ipi[i] = 0
    \* Only the watch of h over i ends, and with its register at 0 hart i is secured.
    <3>1. /\ pc[h] = "wait" /\ pc' = pc
          /\ todo' = [todo EXCEPT ![h] = @ \ {i}]
      BY <1>6, <2>2 DEF Poll
    <3>2. QED
      BY <1>6, <2>2, <3>1 DEF Poll
  <2>3. QED
    BY <2>1, <2>2
<1>7. ASSUME NEW h \in Harts, ReturnSoft(h) PROVE OwedInv'
  BY <1>7 DEF ReturnSoft, Leave, FireAndForget
<1>8. ASSUME NEW h \in Harts, StartWait(h) PROVE OwedInv'
  BY <1>8 DEF StartWait, WaitSet, FireAndForget
<1>9. ASSUME NEW h \in Harts, SwapOwn(h) PROVE OwedInv'
  BY <1>9 DEF SwapOwn, Consumed
<1>10. ASSUME NEW h \in Harts, ReturnFence(h) PROVE OwedInv'
  BY <1>10 DEF ReturnFence, Leave, RestoreOwn
<1>11. ASSUME NEW h \in Harts, Propagate(h) PROVE OwedInv'
  BY <1>11 DEF Propagate
<1>12. ASSUME NEW h \in Harts, IrqClear(h) PROVE OwedInv'
  BY <1>12 DEF IrqClear
<1>13. ASSUME NEW h \in Harts, IrqTake(h) PROVE OwedInv'
  BY <1>13 DEF IrqTake
<1>14. ASSUME NEW h \in Harts, IrqRun(h) PROVE OwedInv'
  BY <1>14 DEF IrqRun
<1>15. ASSUME NEW h \in Harts, ClearIpi(h) PROVE OwedInv'
  BY <1>15 DEF ClearIpi, Begin, Free
<1>16. ASSUME NEW h \in Harts, LeaveMultiHart(h) PROVE OwedInv'
  BY <1>16 DEF LeaveMultiHart
<1>17. ASSUME NEW h \in Harts, HartPlicInit(h) PROVE OwedInv'
  BY <1>17 DEF HartPlicInit
<1>18. QED
  BY <1>1, <1>2, <1>3, <1>4, <1>5, <1>6, <1>7, <1>8, <1>9, <1>10, <1>11, <1>12, <1>13, <1>14, <1>15, <1>16, <1>17 DEF Next, Step

\* No step separates a pending event from what will make the hart look at it.
LEMMA NextEventNotLost == TypeOK /\ EventNotLost /\ RunningInv /\ [Next]_vars => EventNotLost'
<1> SUFFICES ASSUME TypeOK, EventNotLost /\ RunningInv, [Next]_vars PROVE EventNotLost'
  OBVIOUS
<1> USE HartsAssumption, RunningAssumption DEF TypeOK, EventNotLost, RunningInv, Lowest, Events, Fences, Held
<1>1. CASE UNCHANGED vars
  BY <1>1 DEF vars, code
<1>2. ASSUME NEW h \in Harts, Ecall(h) PROVE EventNotLost'
  BY <1>2 DEF Ecall, Begin, Free
<1>3. ASSUME NEW h \in Harts, NEW i \in Harts, SkipDisabled(h, i) PROVE EventNotLost'
  BY <1>3 DEF SkipDisabled
<1>4. ASSUME NEW h \in Harts, NEW i \in Harts, Post(h, i) PROVE EventNotLost'
  BY <1>4 DEF Post
<1>5. ASSUME NEW h \in Harts, NEW i \in Harts, Raise(h, i) PROVE EventNotLost'
  BY <1>5 DEF Raise
<1>6. ASSUME NEW h \in Harts, NEW i \in Harts, Poll(h, i) PROVE EventNotLost'
  <2>1. /\ pc[h] = "wait" /\ pc'[h] \in {"wait", "swap"}
        /\ \A s \in Harts : s # h => pc'[s] = pc[s] /\ todo'[s] = todo[s]
    BY <1>6 DEF Poll
  <2>2. \A s \in Harts : pc[s] = "raise" => pc'[s] = pc[s] /\ todo'[s] = todo[s]
    BY <2>1
  <2>3. \A s \in Harts : Held(s) => Held(s)'
    BY <1>6, <2>1 DEF Poll
  <2>4. \A s \in Harts : pc[s] = "irq_take" => pc'[s] = pc[s]
    BY <2>1
  <2>5. ipi' = ipi /\ pending' = pending
    BY <1>6 DEF Poll
  <2>6. QED
    BY <2>2, <2>3, <2>4, <2>5
<1>7. ASSUME NEW h \in Harts, ReturnSoft(h) PROVE EventNotLost'
  BY <1>7 DEF ReturnSoft, Leave, FireAndForget
<1>8. ASSUME NEW h \in Harts, StartWait(h) PROVE EventNotLost'
  BY <1>8 DEF StartWait, WaitSet, FireAndForget
<1>9. ASSUME NEW h \in Harts, SwapOwn(h) PROVE EventNotLost'
  BY <1>9 DEF SwapOwn, Consumed
<1>10. ASSUME NEW h \in Harts, ReturnFence(h) PROVE EventNotLost'
  BY <1>10 DEF ReturnFence, Leave, RestoreOwn
<1>11. ASSUME NEW h \in Harts, Propagate(h) PROVE EventNotLost'
  BY <1>11 DEF Propagate
<1>12. ASSUME NEW h \in Harts, IrqClear(h) PROVE EventNotLost'
  BY <1>12 DEF IrqClear
<1>13. ASSUME NEW h \in Harts, IrqTake(h) PROVE EventNotLost'
  BY <1>13 DEF IrqTake
<1>14. ASSUME NEW h \in Harts, IrqRun(h) PROVE EventNotLost'
  BY <1>14 DEF IrqRun
<1>15. ASSUME NEW h \in Harts, ClearIpi(h) PROVE EventNotLost'
  BY <1>15 DEF ClearIpi, Begin, Free
<1>16. ASSUME NEW h \in Harts, LeaveMultiHart(h) PROVE EventNotLost'
  BY <1>16 DEF LeaveMultiHart
<1>17. ASSUME NEW h \in Harts, HartPlicInit(h) PROVE EventNotLost'
  BY <1>17 DEF HartPlicInit
<1>18. QED
  BY <1>1, <1>2, <1>3, <1>4, <1>5, <1>6, <1>7, <1>8, <1>9, <1>10, <1>11, <1>12, <1>13, <1>14, <1>15, <1>16, <1>17 DEF Next, Step

-----------------------------------------------------------------------------
(* The theorems.                                                           *)

\* The type invariant.
THEOREM TypeCorrect == Spec => []TypeOK
  BY InitType, NextType, PTL DEF Spec

\* The inductive invariant holds initially: nothing is owed.
LEMMA InitIInv == Init => IInv
<1> SUFFICES ASSUME Init PROVE IInv
  OBVIOUS
<1> USE RunningAssumption DEF Init
<1>1. TypeOK
  BY InitType
<1>2. RunningInv /\ MipInv /\ CallInv
  BY DEF RunningInv, MipInv, CallInv
<1>3. PromisedInv /\ OwedInv
  BY DEF PromisedInv, OwedInv
<1>4. QED
  BY <1>1, <1>2, <1>3 DEF IInv

\* The parts of the inductive invariant are inductive together.
LEMMA NextIInv == IInv /\ [Next]_vars => IInv'
  BY NextType, NextRunningInv, NextMipInv, NextCallInv, NextPromisedInv, NextOwedInv
  DEF IInv

\* The inductive invariant: what secures a fence that is owed or promised.
LEMMA Inductive == Spec => []IInv
  BY InitIInv, NextIInv, PTL DEF Spec

\* No hart executes lower-mode code with the fence of a returned call still to run.
THEOREM NoStale == Spec => []NoStaleExecution
<1>1. IInv => NoStaleExecution
  BY RunningAssumption DEF IInv, NoStaleExecution, PromisedInv, Secured, Held, Free, TypeOK
<1>2. QED
  BY <1>1, Inductive, PTL

\* No posted event is left without something that makes the hart look at it.
THEOREM NoEventLost == Spec => []EventNotLost
<1>1. Init => EventNotLost
  BY RunningAssumption DEF Init, EventNotLost
<1>2. TypeOK /\ RunningInv /\ EventNotLost /\ [Next]_vars => EventNotLost'
  BY NextEventNotLost
<1>3. IInv => TypeOK /\ RunningInv
  BY DEF IInv
<1>4. QED
  BY <1>1, <1>2, <1>3, Inductive, PTL DEF Spec
-----------------------------------------------------------------------------
(* The refinement of RemoteFence.                                          *)

Free_ == {h \in Running : Free(h)}

\* A step that changes neither who runs nor the history is a stutter.
LEMMA Stutter ==
  ASSUME owed' = owed, promised' = promised, Free_' = Free_
  PROVE  UNCHANGED Promise!vars
  BY DEF Promise!vars, Free_

\* The initial states are initial states of RemoteFence.
LEMMA RefinesInit == Init => Promise!Init
  BY RunningAssumption DEF Init, Promise!Init

\* Every step of the code is a step of RemoteFence or a stutter.
LEMMA RefinesNext ==
  IInv /\ NoStaleExecution /\ NoStaleExecution' /\ [Next]_vars
    => [Promise!Next]_(Promise!vars)
<1> SUFFICES ASSUME IInv, NoStaleExecution, NoStaleExecution', [Next]_vars
             PROVE  [Promise!Next]_(Promise!vars)
  OBVIOUS
<1> USE RunningAssumption DEF IInv, TypeOK, Free_, Free
<1>1. CASE UNCHANGED vars
  BY <1>1, Stutter DEF vars, code
<1>2. ASSUME NEW h \in Harts, Ecall(h) PROVE Promise!Enter(h)
  BY <1>2 DEF Ecall, Begin, Promise!Enter
<1>3. ASSUME NEW h \in Harts, NEW i \in Harts, SkipDisabled(h, i) PROVE UNCHANGED Promise!vars
  BY <1>3, Stutter DEF SkipDisabled
<1>4. ASSUME NEW h \in Harts, NEW i \in Harts, Post(h, i)
      PROVE  Promise!Ask(h, i) \/ UNCHANGED Promise!vars
  <2>1. Free_' = Free_ /\ promised' = promised /\ h \notin Free_
    BY <1>4 DEF Post
  <2>2. CASE event[h] \in Fences
    BY <2>1, <2>2, <1>4 DEF Post, Promise!Ask
  <2>3. CASE event[h] \notin Fences
    BY <2>1, <2>3, <1>4, Stutter DEF Post
  <2>4. QED
    BY <2>2, <2>3
<1>5. ASSUME NEW h \in Harts, NEW i \in Harts, Raise(h, i) PROVE UNCHANGED Promise!vars
  BY <1>5, Stutter DEF Raise
<1>6. ASSUME NEW h \in Harts, NEW i \in Harts, Poll(h, i) PROVE UNCHANGED Promise!vars
  BY <1>6, Stutter DEF Poll
<1>7. ASSUME NEW h \in Harts, ReturnSoft(h)
      PROVE  Promise!Resume(h) \/ UNCHANGED Promise!vars
  <2>1. /\ owed' = owed /\ promised' = promised
        /\ \A t \in Harts : t # h => (Free(t)' <=> Free(t))
    BY <1>7 DEF ReturnSoft, Leave
  <2>2. CASE Free(h)' /\ h \in Running
    BY <2>1, <2>2 DEF NoStaleExecution, Promise!Resume, Promise!Ready
  <2>3. CASE ~(Free(h)' /\ h \in Running)
    BY <2>1, <2>3, <1>7, Stutter DEF ReturnSoft
  <2>4. QED
    BY <2>2, <2>3
<1>8. ASSUME NEW h \in Harts, StartWait(h) PROVE UNCHANGED Promise!vars
  BY <1>8, Stutter DEF StartWait
<1>9. ASSUME NEW h \in Harts, SwapOwn(h) PROVE UNCHANGED Promise!vars
  BY <1>9, Stutter DEF SwapOwn
<1>10. ASSUME NEW h \in Harts, ReturnFence(h) PROVE Promise!Next
  <2>1. /\ pc[h] = "wait" /\ todo[h] = {} /\ pc'[h] = "user" /\ h \in Running
        /\ \A t \in Harts : t # h => (Free(t)' <=> Free(t))
    BY <1>10 DEF ReturnFence, Leave, RestoreOwn, RunningInv
  <2>2. PICK e \in Fences : e = event[h]
    BY <2>1 DEF CallInv
  <2>3. \A t \in Free_ : h \notin owed[t]
    BY <2>1 DEF OwedInv, Secured, Held, Watching
  <2>4. Free_' = IF Free(h)' THEN Free_ \cup {h} ELSE Free_
    BY <2>1
  <2>5. Free(h)' => promised'[h] = {}
    BY <2>1 DEF NoStaleExecution
  <2>6. Promise!Return(h, e)
    BY <2>1, <2>2, <2>3, <2>4, <2>5, <1>10 DEF ReturnFence, Promise!Return, Promise!Ready
  <2>7. QED
    BY <2>6 DEF Promise!Next
<1>11. ASSUME NEW h \in Harts, Propagate(h)
       PROVE  Promise!Enter(h) \/ UNCHANGED Promise!vars
  <2>1. mip[h] = 0 /\ mip'[h] = 1 /\ (\A t \in Harts : t # h => mip'[t] = mip[t])
    BY <1>11 DEF Propagate, MipInv
  <2>2. Free_' = Free_ \ {h}
    BY <2>1, <1>11 DEF Propagate
  <2>3. QED
    BY <2>2, <1>11 DEF Propagate, Promise!Enter
<1>12. ASSUME NEW h \in Harts, IrqClear(h) PROVE UNCHANGED Promise!vars
  BY <1>12, Stutter DEF IrqClear
<1>13. ASSUME NEW h \in Harts, IrqTake(h) PROVE UNCHANGED Promise!vars
  BY <1>13, Stutter DEF IrqTake
<1>14. ASSUME NEW h \in Harts, IrqRun(h) PROVE Promise!Next
  <2>1. PICK F \in SUBSET Fences : F = taken[h] \cap Fences
    OBVIOUS
  <2>2. PICK S \in SUBSET Harts : S = {s \in owed[h] : event[s] \in taken[h]}
    OBVIOUS
  <2>3. /\ pc[h] = "irq_run" /\ pc'[h] = "user" /\ h \in Running
        /\ \A t \in Harts : t # h => (Free(t)' <=> Free(t))
    BY <1>14 DEF IrqRun, RunningInv
  <2>4. Free_' = IF Free(h)' THEN Free_ \cup {h} ELSE Free_
    BY <2>3
  <2>5. Free(h)' => promised'[h] = {}
    BY <2>3 DEF NoStaleExecution
  <2>6. promised' = [promised EXCEPT ![h] = @ \ F]
    BY <1>14, <2>1 DEF IrqRun, CallInv
  <2>7. owed' = [owed EXCEPT ![h] = @ \ S]
    BY <1>14, <2>2 DEF IrqRun
  <2>8. Promise!Serve(h, F, S)
    BY <2>3, <2>4, <2>5, <2>6, <2>7 DEF Promise!Serve, Promise!Ready
  <2>9. QED
    BY <2>8 DEF Promise!Next
<1>15. ASSUME NEW h \in Harts, ClearIpi(h) PROVE UNCHANGED Promise!vars
  BY <1>15, Stutter DEF ClearIpi
<1>16. ASSUME NEW h \in Harts, LeaveMultiHart(h) PROVE UNCHANGED Promise!vars
  BY <1>16, Stutter DEF LeaveMultiHart
<1>17. ASSUME NEW h \in Harts, HartPlicInit(h) PROVE UNCHANGED Promise!vars
  BY <1>17, Stutter DEF HartPlicInit
<1>18. ASSUME NEW h \in Harts, Step(h) PROVE Promise!Next \/ UNCHANGED Promise!vars
  <2>1. ASSUME NEW i \in Harts, SkipDisabled(h, i) \/ Post(h, i) \/ Raise(h, i) \/ Poll(h, i)
        PROVE  Promise!Next \/ UNCHANGED Promise!vars
    BY <2>1, <1>3, <1>4, <1>5, <1>6 DEF Promise!Next
  <2>2. CASE ReturnFence(h)
    BY <2>2, <1>10
  <2>3. CASE IrqRun(h)
    BY <2>3, <1>14
  <2>4. CASE ReturnSoft(h)
    BY <2>4, <1>7 DEF Promise!Next
  <2>5. QED
    BY <1>18, <2>1, <2>2, <2>3, <2>4, <1>8, <1>9, <1>12, <1>13, <1>16, <1>17 DEF Step
<1>19. ASSUME NEW h \in Harts, Ecall(h) \/ ClearIpi(h) \/ Propagate(h)
       PROVE  Promise!Next \/ UNCHANGED Promise!vars
  BY <1>19, <1>2, <1>11, <1>15 DEF Promise!Next
<1>20. QED
  BY <1>1, <1>18, <1>19 DEF Next

\* The interrupt protocol implements the remote fence.
THEOREM FenceImplemented == Spec => KeepsPromise
  BY RefinesInit, RefinesNext, Inductive, NoStale, PTL DEF Spec, KeepsPromise, Promise!Spec
=============================================================================
