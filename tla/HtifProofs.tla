---------------------------- MODULE HtifProofs ----------------------------
(***************************************************************************)
(* Proofs about Htif, for any harts, calls and bounds: the locks and the   *)
(* shared words, then what the calls promise (the keyboard buffer, system  *)
(* calls and shutdown), and that Htif implements Console.  The second part *)
(* leaves out htif_poweroff, which takes no lock.                          *)
(***************************************************************************)
EXTENDS Htif, FiniteSetTheorems, TLAPS

\* The places that only system calls reach.
InSyscall(h) == pc[h] \in {"sys_spin", "sys_try", "sys_fill", "sys_ret", "sys_unlock"}

\* Whoever is between lock and unlock holds the lock, alone.
LockInv ==
  /\ \A h \in Harts : InHtif(h) => lock["htif"] = -1
  /\ \A h \in Harts : InFrontend(h) => lock["frontend"] = -1
  /\ \A g, h \in Harts :
       g # h => ~(InHtif(g) /\ InHtif(h)) /\ ~(InFrontend(g) /\ InFrontend(h))
  /\ \A h \in Harts : InSyscall(h) => SysOp(h)

\* The messages the code and the host build are messages.
LEMMA MsgTypes ==
  ASSUME TypeOK
  PROVE  /\ None \in Msgs /\ Exit \in Msgs
         /\ \A n \in Nat : Msg(1, 0, n) \in Msgs /\ Msg(1, 1, n) \in Msgs
         /\ Msg(0, 0, 1) \in Msgs /\ Msg(0, 0, MagicMem) \in Msgs
         /\ \A h \in Harts : Tag(h) \in Nat
<1>1. \A h \in Harts : Tag(h) \in Nat
  BY HartsAssumption DEF TypeOK, HartTypes, Tag
<1>2. QED
  BY <1>1 DEF Msgs, Msg, None, Exit, MagicMem

\* Every action preserves the types.
LEMMA NextTypeOK == TypeOK /\ [Next]_vars => TypeOK'
<1> SUFFICES ASSUME TypeOK, [Next]_vars PROVE TypeOK'
  OBVIOUS
<1> USE DEF TypeOK
<1>1. ASSUME NEW h \in Harts, Call(h) PROVE HartTypes' /\ SharedTypes' /\ UNCHANGED host
  <2>1. HartTypes'
    BY <1>1, OpsAssumption DEF Call, HartTypes, Go, Places, Calls
  <2>2. SharedTypes' /\ UNCHANGED host
    BY <1>1, MsgTypes DEF Call, SysOp, HartTypes, SharedTypes, HostTypes
  <2>3. QED
    BY <2>1, <2>2
<1>2. ASSUME NEW h \in Harts, NEW l \in {"htif", "frontend"}, Spin(h, l) PROVE HartTypes' /\ SharedTypes' /\ UNCHANGED host
  <2>1. HartTypes'
    BY <1>2, MsgTypes DEF Spin, SpinAt, TryAt, HartTypes, Go, Places, hart
  <2>2. SharedTypes' /\ UNCHANGED host
    BY <1>2, MsgTypes DEF Spin, SpinAt, TryAt, HartTypes, SharedTypes, HostTypes
  <2>3. QED
    BY <2>1, <2>2
<1>3. ASSUME NEW h \in Harts, NEW l \in {"htif", "frontend"}, Try(h, l) PROVE HartTypes' /\ SharedTypes' /\ UNCHANGED host
  <2>1. HartTypes'
    BY <1>3, MsgTypes DEF Try, SpinAt, TryAt, Got, Taken, HartTypes, Go, Places, hart
  <2>2. SharedTypes' /\ UNCHANGED host
    BY <1>3, MsgTypes DEF Try, SpinAt, TryAt, Got, Taken, HartTypes, SharedTypes, HostTypes
  <2>3. QED
    BY <2>1, <2>2
<1>4. ASSUME NEW h \in Harts, SysFill(h) PROVE HartTypes' /\ SharedTypes' /\ UNCHANGED host
  <2>1. HartTypes'
    BY <1>4, MsgTypes DEF SysFill, SysOp, HartTypes, Go, Places, hart
  <2>2. SharedTypes' /\ UNCHANGED host
    BY <1>4, MsgTypes DEF SysFill, SysOp, HartTypes, SharedTypes, HostTypes
  <2>3. QED
    BY <2>1, <2>2
<1>5. ASSUME NEW h \in Harts, Set(h) PROVE HartTypes' /\ SharedTypes' /\ UNCHANGED host
  <2>1. HartTypes'
    BY <1>5, MsgTypes DEF Set, Vacant, HartTypes, Go, Places, hart
  <2>2. SharedTypes' /\ UNCHANGED host
    BY <1>5, MsgTypes DEF Set, Vacant, HartTypes, SharedTypes, HostTypes
  <2>3. QED
    BY <2>1, <2>2
<1>6. ASSUME NEW h \in Harts, Send(h) PROVE HartTypes' /\ SharedTypes' /\ UNCHANGED host
  <2>1. HartTypes'
    BY <1>6, MsgTypes DEF Send, Request, SysOp, HartTypes, Go, Places, hart
  <2>2. SharedTypes' /\ UNCHANGED host
    BY <1>6, MsgTypes DEF Send, Request, SysOp, HartTypes, SharedTypes, HostTypes
  <2>3. QED
    BY <2>1, <2>2
<1>7. ASSUME NEW h \in Harts, Check(h) PROVE HartTypes' /\ SharedTypes' /\ UNCHANGED host
  <2>1. HartTypes'
    BY <1>7, MsgTypes DEF Check, SharedTypes, HartTypes, Go, Places, hart
  <2>2. SharedTypes' /\ UNCHANGED host
    BY <1>7, MsgTypes DEF Check, SharedTypes, HartTypes, SharedTypes, HostTypes
  <2>3. QED
    BY <2>1, <2>2
<1>8. ASSUME NEW h \in Harts, Consume(h) PROVE HartTypes' /\ SharedTypes' /\ UNCHANGED host
  <2>1. HartTypes'
    BY <1>8, MsgTypes DEF Consume, Stored, Msgs, HartTypes, Go, Places, hart
  <2>2. fh[h].data \in Nat
    BY DEF HartTypes, Msgs
  <2>3. buf' \in Int /\ buf' >= -1
    BY <1>8, <2>2 DEF Consume, Stored, SharedTypes
  <2>4. SharedTypes' /\ UNCHANGED host
    BY <1>8, <2>3, MsgTypes DEF Consume, SharedTypes
  <2>5. QED
    BY <2>1, <2>4
<1>9. ASSUME NEW h \in Harts, Get(h) PROVE HartTypes' /\ SharedTypes' /\ UNCHANGED host
  <2>1. HartTypes'
    BY <1>9, MsgTypes DEF Get, Asks, SharedTypes, HartTypes, Go, Places, hart
  <2>2. SharedTypes' /\ UNCHANGED host
    BY <1>9, MsgTypes DEF Get, Asks, SharedTypes, HartTypes, SharedTypes, HostTypes
  <2>3. QED
    BY <2>1, <2>2
<1>10. ASSUME NEW h \in Harts, Answer(h) PROVE HartTypes' /\ SharedTypes' /\ UNCHANGED host
  <2>1. HartTypes'
    BY <1>10, MsgTypes DEF Answer, Mine, HartTypes, SharedTypes, Go, Places, hart
  <2>2. SharedTypes' /\ UNCHANGED host
    BY <1>10, MsgTypes DEF Answer, Mine, HartTypes, SharedTypes, HostTypes
  <2>3. QED
    BY <2>1, <2>2
<1>11. ASSUME NEW h \in Harts, Unlock(h) PROVE HartTypes' /\ SharedTypes' /\ UNCHANGED host
  <2>1. HartTypes'
    BY <1>11, MsgTypes DEF Unlock, HartTypes, Go, Places, hart
  <2>2. SharedTypes' /\ UNCHANGED host
    BY <1>11, MsgTypes DEF Unlock, HartTypes, SharedTypes, HostTypes
  <2>3. QED
    BY <2>1, <2>2
<1>12. ASSUME NEW h \in Harts, SysRet(h) PROVE HartTypes' /\ SharedTypes' /\ UNCHANGED host
  <2>1. HartTypes'
    BY <1>12, MsgTypes DEF SysRet, SharedTypes, HartTypes, Go, Places, hart
  <2>2. SharedTypes' /\ UNCHANGED host
    BY <1>12, MsgTypes DEF SysRet, SharedTypes, HartTypes, SharedTypes, HostTypes
  <2>3. QED
    BY <2>1, <2>2
<1>13. ASSUME NEW h \in Harts, SysUnlock(h) PROVE HartTypes' /\ SharedTypes' /\ UNCHANGED host
  <2>1. HartTypes'
    BY <1>13, MsgTypes DEF SysUnlock, HartTypes, Go, Places, hart
  <2>2. SharedTypes' /\ UNCHANGED host
    BY <1>13, MsgTypes DEF SysUnlock, HartTypes, SharedTypes, HostTypes
  <2>3. QED
    BY <2>1, <2>2
<1>14. ASSUME NEW h \in Harts, PowerOffClear(h) PROVE HartTypes' /\ SharedTypes' /\ UNCHANGED host
  <2>1. HartTypes'
    BY <1>14, MsgTypes DEF PowerOffClear, HartTypes, Go, Places, hart
  <2>2. SharedTypes' /\ UNCHANGED host
    BY <1>14, MsgTypes DEF PowerOffClear, HartTypes, SharedTypes, HostTypes
  <2>3. QED
    BY <2>1, <2>2
<1>15. ASSUME NEW h \in Harts, PowerOffSend(h) PROVE HartTypes' /\ SharedTypes' /\ UNCHANGED host
  <2>1. HartTypes'
    BY <1>15, MsgTypes DEF PowerOffSend, Again, HartTypes, Go, Places, hart
  <2>2. SharedTypes' /\ UNCHANGED host
    BY <1>15, MsgTypes DEF PowerOffSend, Again, HartTypes, SharedTypes, HostTypes
  <2>3. QED
    BY <2>1, <2>2
<1>15a. ASSUME NEW h \in Harts, Accept(h) PROVE HartTypes' /\ SharedTypes' /\ UNCHANGED host
  <2>1. HartTypes'
    BY <1>15a, MsgTypes DEF Accept, HartTypes, Go, Places, hart
  <2>2. SharedTypes' /\ UNCHANGED host
    BY <1>15a, MsgTypes DEF Accept, HartTypes, SharedTypes, HostTypes
  <2>3. QED
    BY <2>1, <2>2
<1>15b. ASSUME PutTypes, NEW h \in Harts, Call(h) \/ Step(h) PROVE PutTypes'
  <2>1. Tag(h) \in Nat
    BY MsgTypes
  <2>2. put' = put \/ put' = Append(put, Tag(h))
    <3>1. ASSUME NEW l \in {"htif", "frontend"}, Spin(h, l) \/ Try(h, l) PROVE put' = put
      BY <3>1 DEF Spin, Try
    <3>2. CASE Call(h) \/ SysFill(h) \/ Set(h) \/ Send(h) \/ Check(h) \/ Consume(h)
      BY <3>2 DEF Call, SysFill, Set, Send, Check, Consume
    <3>3. CASE Get(h) \/ Answer(h) \/ Accept(h) \/ Unlock(h)
      BY <3>3 DEF Get, Answer, Accept, Unlock
    <3>4. CASE SysRet(h) \/ SysUnlock(h) \/ PowerOffClear(h) \/ PowerOffSend(h)
      BY <3>4 DEF SysRet, SysUnlock, PowerOffClear, PowerOffSend
    <3>5. QED
      BY <1>15b, <3>1, <3>2, <3>3, <3>4 DEF Step
  <2>3. QED
    BY <1>15b, <2>1, <2>2 DEF PutTypes
<1>15c. ASSUME PutTypes, put' = put PROVE PutTypes'
  BY <1>15c DEF PutTypes
<1>16. ASSUME HostTake PROVE TypeOK'
  <2>1. UNCHANGED hart /\ UNCHANGED <<lock, fromhost, buf, typed>> /\ tohost' = None
    BY <1>16 DEF HostTake
  <2>2. magic' \in [call : Nat, op : Calls, done : BOOLEAN]
    BY <1>16 DEF HostTake, HostWrite, HostRead, HostSyscall, HostExit, SharedTypes
  <2>3. tohost.data \in Nat
    BY DEF SharedTypes, Msgs
  <2>4. output' \in Seq(Nat) /\ queue' \in Seq(Msgs)
    <3>1. output' = output \/ output' = Append(output, tohost.data)
      BY <1>16 DEF HostTake, HostWrite, HostRead, HostSyscall, HostExit
    <3>2. \/ queue' = queue
          \/ queue' = Append(queue, Msg(1, 1, tohost.data))
          \/ queue' = Append(queue, Msg(0, 0, 1))
      BY <1>16 DEF HostTake, HostWrite, HostRead, HostSyscall, HostExit
    <3>3. Msg(1, 1, tohost.data) \in Msgs /\ Msg(0, 0, 1) \in Msgs
      BY <2>3, MsgTypes
    <3>4. output' \in Seq(Nat)
      BY <3>1, <2>3 DEF HostTypes
    <3>5. queue \in Seq(Msgs)
      BY DEF HostTypes
    <3>6. \A m \in Msgs : Append(queue, m) \in Seq(Msgs)
      BY <3>5
    <3>7. QED
      BY <3>2, <3>3, <3>4, <3>5, <3>6
  <2>5. reading' \in BOOLEAN /\ exited' \in {"no", "shutdown", "poweroff"}
    BY <1>16 DEF HostTake, HostWrite, HostRead, HostSyscall, HostExit, HostTypes
  <2>6. QED
    BY <1>16, <1>15c, <2>1, <2>2, <2>4, <2>5, MsgTypes DEF HostTake, hart, HartTypes, SharedTypes, HostTypes
<1>17. ASSUME HostType PROVE TypeOK'
  <2>1. typed + 1 \in Nat /\ queue' \in Seq(Msgs)
    BY <1>17, MsgTypes DEF HostType, HostTypes
  <2>2. QED
    BY <1>17, <1>15c, <2>1 DEF HostType, hart, HartTypes, SharedTypes, HostTypes
<1>18. ASSUME HostGive PROVE TypeOK'
  <2>1. Head(queue) \in Msgs /\ Tail(queue) \in Seq(Msgs)
    BY <1>18 DEF HostGive, HostTypes
  <2>2. QED
    BY <1>18, <1>15c, <2>1 DEF HostGive, hart, HartTypes, SharedTypes, HostTypes
<1>19. CASE UNCHANGED vars
  BY <1>19, <1>15c DEF vars, hart, host, HartTypes, SharedTypes, HostTypes
<1>20. ASSUME UNCHANGED host PROVE HostTypes'
  BY <1>20 DEF host, HostTypes
<1>21. ASSUME NEW h \in Harts, Call(h) \/ Step(h) PROVE TypeOK'
  <2>1. HartTypes' /\ SharedTypes' /\ UNCHANGED host
    BY <1>21, <1>1, <1>2, <1>3, <1>4, <1>5, <1>6, <1>7, <1>8, <1>9, <1>10, <1>11, <1>12,
       <1>13, <1>14, <1>15, <1>15a DEF Step
  <2>2. QED
    BY <2>1, <1>20, <1>21, <1>15b
<1>22. QED
  BY <1>16, <1>17, <1>18, <1>19, <1>21 DEF Next

-----------------------------------------------------------------------------
(* Mutual exclusion. *)

\* A step of one hart that enters a critical section only by taking its lock.
LEMMA LockStep ==
  ASSUME LockInv, NEW h \in Harts,
         \A g \in Harts : g # h => pc'[g] = pc[g] /\ op'[g] = op[g],
         InSyscall(h)' => SysOp(h)',
         \/ lock'["htif"] = lock["htif"] /\ (InHtif(h)' => InHtif(h))
         \/ InHtif(h) /\ ~InHtif(h)'
         \/ lock["htif"] # -1 /\ lock'["htif"] = -1,
         \/ lock'["frontend"] = lock["frontend"] /\ (InFrontend(h)' => InFrontend(h))
         \/ InFrontend(h) /\ ~InFrontend(h)'
         \/ lock["frontend"] # -1 /\ lock'["frontend"] = -1
  PROVE  LockInv'
<1>1. ASSUME NEW g \in Harts, g # h
      PROVE  /\ InHtif(g)' = InHtif(g)
             /\ InFrontend(g)' = InFrontend(g)
             /\ InSyscall(g)' = InSyscall(g)
             /\ SysOp(g)' = SysOp(g)
  BY <1>1 DEF InHtif, InFrontend, InSyscall, SysOp
<1>2. \A g \in Harts : InHtif(g)' => lock'["htif"] = -1
  BY <1>1 DEF LockInv
<1>3. \A g \in Harts : InFrontend(g)' => lock'["frontend"] = -1
  BY <1>1 DEF LockInv
<1>4. \A f, g \in Harts : f # g => ~(InHtif(f)' /\ InHtif(g)')
  BY <1>1 DEF LockInv
<1>5. \A f, g \in Harts : f # g => ~(InFrontend(f)' /\ InFrontend(g)')
  BY <1>1 DEF LockInv
<1>6. QED
  BY <1>1, <1>2, <1>3, <1>4, <1>5 DEF LockInv

\* No step lets a second hart into a critical section.
LEMMA NextLockInv == TypeOK /\ LockInv /\ [Next]_vars => LockInv'
<1> SUFFICES ASSUME TypeOK, LockInv, [Next]_vars PROVE LockInv'
  OBVIOUS
<1> USE DEF TypeOK, HartTypes, SharedTypes, InHtif, InFrontend, InSyscall, SysOp, Go
<1>1. ASSUME UNCHANGED <<pc, op, lock>> PROVE LockInv'
  BY <1>1 DEF LockInv
<1>2. ASSUME NEW h \in Harts, Call(h) PROVE LockInv'
  <2>1. /\ pc[h] = "idle" /\ lock' = lock
        /\ \A g \in Harts : g # h => pc'[g] = pc[g] /\ op'[g] = op[g]
    BY <1>2 DEF Call
  <2>2. ~InHtif(h)' /\ ~InFrontend(h)' /\ (InSyscall(h)' => SysOp(h)')
    BY <1>2, OpsAssumption DEF Call
  <2>3. QED
    BY <2>1, <2>2, LockStep
<1>3. ASSUME NEW h \in Harts, Try(h, "htif") PROVE LockInv'
  <2>1. /\ pc[h] = "try" /\ lock' = [lock EXCEPT !["htif"] = -1] /\ op' = op
        /\ \A g \in Harts : g # h => pc'[g] = pc[g]
    BY <1>3 DEF Try, TryAt, Taken
  <2>2. lock["htif"] = -1 => ~InHtif(h)'
    BY <1>3 DEF Try, TryAt, Got, SpinAt
  <2>3. ~InSyscall(h)'
    BY <1>3 DEF Try, TryAt, SpinAt
  <2>4. QED
    BY <2>1, <2>2, <2>3, LockStep
<1>4. ASSUME NEW h \in Harts, Try(h, "frontend") PROVE LockInv'
  <2>1. /\ pc[h] = "sys_try" /\ lock' = [lock EXCEPT !["frontend"] = -1] /\ op' = op
        /\ ~InHtif(h)' /\ \A g \in Harts : g # h => pc'[g] = pc[g]
    BY <1>4 DEF Try, TryAt, Taken, SpinAt
  <2>2. lock["frontend"] = -1 => ~InFrontend(h)'
    BY <1>4 DEF Try, TryAt, Got, SpinAt
  <2>3. SysOp(h)
    BY <2>1 DEF LockInv
  <2>4. QED
    BY <2>1, <2>2, <2>3, LockStep
<1>5. ASSUME NEW h \in Harts, Unlock(h) PROVE LockInv'
  <2>1. /\ lock' = [lock EXCEPT !["htif"] = 0] /\ op' = op
        /\ \A g \in Harts : g # h => pc'[g] = pc[g]
    BY <1>5 DEF Unlock
  <2>2. /\ InHtif(h) /\ ~InHtif(h)' /\ (InFrontend(h)' => InFrontend(h))
        /\ InSyscall(h)' => SysOp(h)
    BY <1>5 DEF Unlock
  <2>3. QED
    BY <2>1, <2>2, LockStep
<1>6. ASSUME NEW h \in Harts, SysUnlock(h) PROVE LockInv'
  <2>1. /\ lock' = [lock EXCEPT !["frontend"] = 0] /\ op' = op
        /\ \A g \in Harts : g # h => pc'[g] = pc[g]
    BY <1>6 DEF SysUnlock
  <2>2. /\ pc'[h] = "idle" /\ pc[h] = "sys_unlock"
    BY <1>6 DEF SysUnlock
  <2>3. SysOp(h)
    BY <2>2 DEF LockInv
  <2>4. QED
    BY <2>1, <2>2, <2>3, LockStep
\* The other steps move a hart within, or outside, its critical sections.
<1>7. ASSUME NEW h \in Harts, lock' = lock, op' = op,
             \A g \in Harts : g # h => pc'[g] = pc[g],
             InHtif(h)' => InHtif(h), InFrontend(h)' => InFrontend(h),
             InSyscall(h)' => InSyscall(h)
      PROVE  LockInv'
  <2>1. InSyscall(h)' => SysOp(h)'
    BY <1>7 DEF LockInv
  <2>2. QED
    BY <1>7, <2>1, LockStep
<1>8. ASSUME NEW h \in Harts, Spin(h, "htif") \/ Spin(h, "frontend") PROVE LockInv'
  BY <1>7, <1>8 DEF Spin, SpinAt, TryAt
<1>9. ASSUME NEW h \in Harts, SysFill(h) \/ SysRet(h) PROVE LockInv'
  BY <1>7, <1>9 DEF SysFill, SysRet
<1>10. ASSUME NEW h \in Harts, Set(h) \/ Send(h) \/ Get(h) PROVE LockInv'
  BY <1>7, <1>10 DEF Set, Send, Get
<1>11. ASSUME NEW h \in Harts, Check(h) \/ Consume(h) PROVE LockInv'
  BY <1>7, <1>11 DEF Check, Consume
<1>12. ASSUME NEW h \in Harts, Answer(h) \/ Accept(h) PROVE LockInv'
  BY <1>7, <1>12 DEF Answer, Accept
<1>13. ASSUME NEW h \in Harts, PowerOffClear(h) \/ PowerOffSend(h) PROVE LockInv'
  BY <1>7, <1>13 DEF PowerOffClear, PowerOffSend, Again
<1>14. ASSUME NEW h \in Harts, Step(h) PROVE LockInv'
  BY <1>3, <1>4, <1>5, <1>6, <1>8, <1>9, <1>10, <1>11, <1>12, <1>13, <1>14 DEF Step
<1>15. CASE HostTake \/ HostType \/ HostGive \/ UNCHANGED vars
  BY <1>1, <1>15 DEF HostTake, HostType, HostGive, vars, hart
<1>16. QED
  BY <1>2, <1>14, <1>15 DEF Next

-----------------------------------------------------------------------------
(* Requests are not overwritten.  htif_poweroff, which takes no lock, is     *)
(* left out from here on.                                                    *)

\* A hart about to write tohost has seen it free, and it has stayed so.
SendInv ==
  \A h \in Harts : /\ op[h] # "poweroff" /\ pc[h] \notin {"off", "off_send", "off_wait"}
                   /\ pc[h] = "send" => tohost = None

\* A step of a hart changes only that hart's local state.
LEMMA OneMoves ==
  ASSUME TypeOK, NEW h \in Harts, Call(h) \/ Step(h)
  PROVE  /\ \A g \in Harts : g # h => /\ pc'[g] = pc[g] /\ op'[g] = op[g]
                                     /\ ret'[g] = ret[g] /\ fh'[g] = fh[g]
                                     /\ val'[g] = val[g] /\ calls'[g] = calls[g]
         /\ UNCHANGED host
<1> USE DEF TypeOK, HartTypes, Go
<1>1. CASE Call(h)
  BY <1>1 DEF Call
<1>2. ASSUME NEW l \in {"htif", "frontend"}, Spin(h, l) \/ Try(h, l)
      PROVE  /\ \A g \in Harts : g # h => pc'[g] = pc[g] /\ ret'[g] = ret[g]
             /\ op' = op /\ fh' = fh /\ val' = val /\ calls' = calls /\ UNCHANGED host
  BY <1>2 DEF Spin, Try
<1>3. CASE SysFill(h) \/ Set(h) \/ Send(h) \/ Check(h) \/ Unlock(h)
  BY <1>3 DEF SysFill, Set, Send, Check, Unlock
<1>4. CASE Consume(h) \/ Get(h) \/ Answer(h) \/ Accept(h)
  BY <1>4 DEF Consume, Get, Answer, Accept
<1>5. CASE SysRet(h) \/ SysUnlock(h) \/ PowerOffClear(h) \/ PowerOffSend(h)
  BY <1>5 DEF SysRet, SysUnlock, PowerOffClear, PowerOffSend
<1>6. QED
  BY <1>1, <1>2, <1>3, <1>4, <1>5 DEF Step

\* Who writes tohost: a hart at "send", or the host when it takes the command.
LEMMA Writers ==
  ASSUME SendInv, [Next]_vars
  PROVE  tohost' = tohost \/ tohost' = None \/ \E h \in Harts : Send(h)
<1>1. ASSUME NEW h \in Harts, Call(h) \/ Step(h) PROVE tohost' = tohost \/ Send(h)
  <2>1. ASSUME NEW l \in {"htif", "frontend"}, Spin(h, l) \/ Try(h, l) PROVE tohost' = tohost
    BY <2>1 DEF Spin, Try
  <2>2. CASE Call(h) \/ SysFill(h) \/ Set(h) \/ Check(h) \/ Unlock(h) \/ Consume(h)
    BY <2>2 DEF Call, SysFill, Set, Check, Unlock, Consume
  <2>3. CASE Get(h) \/ Answer(h) \/ Accept(h) \/ SysRet(h) \/ SysUnlock(h) \/ PowerOffClear(h)
    BY <2>3 DEF Get, Answer, Accept, SysRet, SysUnlock, PowerOffClear
  <2>4. ~PowerOffSend(h)
    BY DEF SendInv, PowerOffSend
  <2>5. QED
    BY <1>1, <2>1, <2>2, <2>3, <2>4 DEF Step
<1>2. QED
  BY <1>1 DEF Next, HostTake, HostType, HostGive, vars

\* No step spoils what a hart at "send" has seen: another writer would hold the lock.
LEMMA NextSendInv ==
  ASSUME "poweroff" \notin Ops, TypeOK, LockInv, SendInv, [Next]_vars
  PROVE  SendInv'
<1>1. \A h \in Harts : pc[h] = "send" => InHtif(h)
  BY DEF InHtif
<1>2. ASSUME NEW h \in Harts, Call(h) \/ Step(h) PROVE SendInv'
  <2>1. ASSUME NEW g \in Harts, g # h
        PROVE  /\ op'[g] # "poweroff" /\ pc'[g] \notin {"off", "off_send", "off_wait"}
               /\ pc'[g] = "send" => tohost' = None
    <3>1. pc'[g] = pc[g] /\ op'[g] = op[g]
      BY <1>2, <2>1, OneMoves
    <3>2. CASE pc[g] = "send"
      <4>1. tohost = None /\ ~InHtif(h)
        BY <3>2, <1>1, <2>1 DEF SendInv, LockInv
      <4>2. \A f \in Harts : Send(f) => f = h \/ tohost' = tohost
        BY <1>2, <3>1, <2>1, OneMoves, <1>1, <4>1, <3>2 DEF Send, Go, TypeOK, HartTypes, LockInv
      <4>3. ~Send(h)
        BY <4>1, <1>1 DEF Send
      <4>4. QED
        BY <3>1, <3>2, <4>1, <4>2, <4>3, Writers DEF SendInv
    <3>3. CASE pc[g] # "send"
      BY <3>1, <3>3 DEF SendInv
    <3>4. QED
      BY <3>2, <3>3
  <2>2. /\ op'[h] # "poweroff" /\ pc'[h] \notin {"off", "off_send", "off_wait"}
        /\ pc'[h] = "send" => tohost' = None
    <3> USE DEF TypeOK, HartTypes, Go, SendInv
    <3>1. CASE Call(h)
      BY <3>1, OpsAssumption DEF Call
    <3>2. ASSUME NEW l \in {"htif", "frontend"}, Spin(h, l) \/ Try(h, l)
          PROVE  op' = op /\ pc'[h] \notin {"off", "off_send", "off_wait", "send"}
      BY <3>2 DEF Spin, Try, SpinAt, TryAt
    <3>3. CASE SysFill(h) \/ Set(h) \/ Send(h) \/ Check(h) \/ Unlock(h)
      BY <3>3 DEF SysFill, Set, Send, Check, Unlock, Vacant
    <3>4. CASE Consume(h) \/ Get(h) \/ Answer(h) \/ Accept(h)
      BY <3>4 DEF Consume, Get, Answer, Accept
    <3>5. CASE SysRet(h) \/ SysUnlock(h) \/ PowerOffClear(h) \/ PowerOffSend(h)
      BY <3>5 DEF SysRet, SysUnlock, PowerOffClear, PowerOffSend
    <3>6. QED
      BY <1>2, <3>1, <3>2, <3>3, <3>4, <3>5 DEF Step
  <2>3. QED
    BY <2>1, <2>2 DEF SendInv
<1>3. CASE HostTake \/ HostType \/ HostGive \/ UNCHANGED vars
  BY <1>3 DEF SendInv, HostTake, HostType, HostGive, vars, hart
<1>4. QED
  BY <1>2, <1>3 DEF Next

-----------------------------------------------------------------------------
(* Answers to system calls.  A message of device 0 is a system call or the   *)
(* answer to one.  There is at most one, and while there is one, one hart is *)
(* in the loop of do_tohost_fromhost, with htif_lock, to take it away.       *)

IsSys(m) == m # None /\ m.dev = 0
SysQueued == \E i \in 1 .. Len(queue) : IsSys(queue[i])
SysFlight == IsSys(tohost) \/ IsSys(fromhost) \/ SysQueued
Awaits(h) == pc[h] \in {"answer", "accept"} \/ (pc[h] \in {"check", "consume"} /\ ret[h] = "answer")

\* At most one of the three places holds such a message, the queue at most one, and
\* all of them have command 0.
OneFlight ==
  /\ ~(IsSys(tohost) /\ IsSys(fromhost)) /\ ~(IsSys(tohost) /\ SysQueued)
  /\ ~(IsSys(fromhost) /\ SysQueued)
  /\ \A i, j \in 1 .. Len(queue) : IsSys(queue[i]) /\ IsSys(queue[j]) => i = j
  /\ IsSys(fromhost) => fromhost.cmd = 0
  /\ \A i \in 1 .. Len(queue) : queue[i] # None /\ (IsSys(queue[i]) => queue[i].cmd = 0)

\* What a hart in __check_fromhost, or about to clear the answer it waited for, knows.
LocalInv(h) ==
  /\ pc[h] = "consume" => fh[h] = fromhost /\ fromhost.dev = 1
  /\ pc[h] = "check" /\ ret[h] = "answer" => fromhost.dev = 1
  /\ pc[h] = "accept" => IsSys(fromhost)
  /\ pc[h] # "die"

FlightInv ==
  /\ SysFlight => \E h \in Harts : Awaits(h)
  /\ OneFlight
  /\ \A h \in Harts : LocalInv(h)

\* A hart that leaves both words alone.
LEMMA QuietStep ==
  ASSUME FlightInv, NEW h \in Harts,
         tohost' = tohost, fromhost' = fromhost, queue' = queue,
         \A g \in Harts : g # h => pc'[g] = pc[g] /\ ret'[g] = ret[g] /\ fh'[g] = fh[g],
         Awaits(h) => Awaits(h)', LocalInv(h)'
  PROVE  FlightInv'
<1>1. OneFlight' /\ (SysFlight' => SysFlight)
  BY DEF FlightInv, OneFlight, SysFlight, SysQueued, IsSys
<1>2. ASSUME NEW g \in Harts PROVE LocalInv(g)' /\ (Awaits(g) => Awaits(g)')
  BY DEF FlightInv, LocalInv, Awaits, IsSys
<1>3. QED
  BY <1>1, <1>2 DEF FlightInv

\* A hart that writes one of the words has the lock, so that no other hart is inside.
LEMMA OthersOut ==
  ASSUME LockInv, FlightInv, NEW h \in Harts, InHtif(h),
         \A g \in Harts : g # h => pc'[g] = pc[g] /\ ret'[g] = ret[g] /\ fh'[g] = fh[g]
  PROVE  \A g \in Harts : g # h => ~Awaits(g) /\ LocalInv(g)'
<1>1. ASSUME NEW g \in Harts, g # h PROVE ~InHtif(g)
  BY <1>1 DEF LockInv
<1>2. QED
  BY <1>1 DEF InHtif, Awaits, LocalInv, FlightInv

\* Steps of the harts keep the invariant.
LEMMA HartFlight ==
  ASSUME TypeOK, LockInv, SendInv, FlightInv, NEW h \in Harts, Call(h) \/ Step(h)
  PROVE  FlightInv'
<1>1. /\ \A g \in Harts : g # h => pc'[g] = pc[g] /\ ret'[g] = ret[g] /\ fh'[g] = fh[g]
      /\ queue' = queue
  BY OneMoves DEF host
<1>2. LocalInv(h) /\ ret[h] \in {"set", "get", "answer"}
  BY DEF FlightInv, TypeOK, HartTypes
<1>3. fromhost \in Msgs /\ fh[h] \in Msgs
  BY DEF TypeOK, HartTypes, SharedTypes
<1>4. InHtif(h) => \A g \in Harts : g # h => ~Awaits(g) /\ LocalInv(g)'
  BY <1>1, OthersOut
<1>5. ASSUME InHtif(h), ~Awaits(h) PROVE ~SysFlight
  BY <1>4, <1>5 DEF FlightInv
<1> USE DEF TypeOK, HartTypes, Go
<1>6. CASE Call(h)
  <2>1. LocalInv(h)' /\ ~Awaits(h)
    BY <1>6 DEF Call, LocalInv, Awaits
  <2>2. QED
    BY <1>1, <1>6, <2>1, QuietStep DEF Call
<1>7. ASSUME NEW l \in {"htif", "frontend"}, Spin(h, l) PROVE FlightInv'
  <2>1. LocalInv(h)' /\ ~Awaits(h)
    BY <1>7 DEF Spin, SpinAt, TryAt, LocalInv, Awaits
  <2>2. QED
    BY <1>1, <1>7, <2>1, QuietStep DEF Spin
<1>8. ASSUME NEW l \in {"htif", "frontend"}, Try(h, l) PROVE FlightInv'
  <2>1. LocalInv(h)' /\ ~Awaits(h)
    BY <1>8 DEF Try, SpinAt, TryAt, LocalInv, Awaits
  <2>2. QED
    BY <1>1, <1>8, <2>1, QuietStep DEF Try
<1>9. CASE SysFill(h) \/ Unlock(h) \/ SysRet(h) \/ SysUnlock(h)
  <2>1. LocalInv(h)' /\ ~Awaits(h) /\ tohost' = tohost /\ fromhost' = fromhost
    BY <1>9 DEF SysFill, Unlock, SysRet, SysUnlock, LocalInv, Awaits
  <2>2. QED
    BY <1>1, <2>1, QuietStep
<1>10. CASE Set(h) \/ Get(h)
  <2>1. LocalInv(h)' /\ ~Awaits(h) /\ tohost' = tohost /\ fromhost' = fromhost
    BY <1>10 DEF Set, Get, LocalInv, Awaits
  <2>2. QED
    BY <1>1, <2>1, QuietStep
<1>11. CASE Send(h)
  <2>1. InHtif(h) /\ ~Awaits(h)
    BY <1>11 DEF Send, InHtif, Awaits
  <2>2. IsSys(tohost') => Awaits(h)'
    <3>1. CASE SysOp(h)
      BY <1>11, <3>1 DEF Send, Awaits
    <3>2. CASE ~SysOp(h)
      BY <1>11, <3>2 DEF Send, Request, Msg, IsSys, SysOp, SendInv, Calls
    <3>3. QED
      BY <3>1, <3>2
  <2>3. ~SysFlight
    BY <1>5, <2>1
  <2>4. OneFlight' /\ (SysFlight' => IsSys(tohost'))
    BY <1>1, <1>11, <2>3 DEF Send, FlightInv, OneFlight, SysFlight, SysQueued, IsSys
  <2>5. LocalInv(h)'
    BY <1>11 DEF Send, LocalInv
  <2>6. QED
    BY <1>4, <2>1, <2>2, <2>4, <2>5 DEF FlightInv
<1>12. CASE Check(h)
  <2>1. Awaits(h) => Awaits(h)'
    BY <1>12, <1>2, <1>3 DEF Check, Awaits, LocalInv, None, Msg
  <2>2. fromhost # None => fromhost.dev = 1
    <3>1. InHtif(h) /\ (ret[h] # "answer" => ~Awaits(h))
      BY <1>12 DEF Check, InHtif, Awaits
    <3>2. ret[h] # "answer" => ~IsSys(fromhost)
      BY <3>1, <1>5 DEF SysFlight
    <3>3. QED
      BY <3>2, <1>2, <1>3, <1>12 DEF Check, LocalInv, IsSys, Msgs
  <2>3. LocalInv(h)'
    BY <1>12, <1>2, <2>2 DEF Check, LocalInv, IsSys, None, Msg
  <2>4. QED
    BY <1>1, <1>12, <2>1, <2>3, QuietStep DEF Check
<1>13. CASE Consume(h)
  <2>1. /\ InHtif(h) /\ fh[h] = fromhost /\ fromhost.dev = 1 /\ fh[h].cmd \in {0, 1}
        /\ pc'[h] = ret[h] /\ ret' = ret /\ fromhost' = None /\ tohost' = tohost
    BY <1>13, <1>2, <1>3 DEF Consume, InHtif, LocalInv, Msgs
  <2>2. OneFlight' /\ (SysFlight' => SysFlight)
    BY <1>1, <2>1 DEF FlightInv, OneFlight, SysFlight, SysQueued, IsSys
  <2>3. LocalInv(h)' /\ (Awaits(h) => Awaits(h)')
    BY <2>1, <1>2, <1>13 DEF Consume, LocalInv, Awaits
  <2>4. QED
    BY <1>4, <2>1, <2>2, <2>3 DEF FlightInv
<1>14. CASE Answer(h)
  <2>1. fromhost # None => (fromhost.dev = 1 \/ IsSys(fromhost)) /\ (IsSys(fromhost) => Mine(fromhost))
    BY <1>3 DEF FlightInv, OneFlight, IsSys, Mine, Msgs
  <2>2. LocalInv(h)' /\ Awaits(h)'
    BY <1>14, <2>1 DEF Answer, LocalInv, Awaits, Mine, IsSys
  <2>3. QED
    BY <1>1, <1>14, <2>2, QuietStep DEF Answer
<1>15. CASE Accept(h)
  <2>1. InHtif(h) /\ IsSys(fromhost) /\ fromhost' = None /\ tohost' = tohost /\ pc'[h] = "unlock"
    BY <1>15, <1>2 DEF Accept, InHtif, LocalInv
  <2>2. OneFlight' /\ ~SysFlight'
    BY <1>1, <2>1 DEF FlightInv, OneFlight, SysFlight, SysQueued, IsSys
  <2>3. LocalInv(h)'
    BY <2>1 DEF LocalInv
  <2>4. QED
    BY <1>4, <2>1, <2>2, <2>3 DEF FlightInv
<1>16. ~PowerOffClear(h) /\ ~PowerOffSend(h)
  BY DEF PowerOffClear, PowerOffSend, SendInv
<1>17. QED
  BY <1>6, <1>7, <1>8, <1>9, <1>10, <1>11, <1>12, <1>13, <1>14, <1>15, <1>16 DEF Step

\* What the end of a queue holds after Append, and its beginning after Tail.
LEMMA Queues ==
  ASSUME NEW q \in Seq(Msgs)
  PROVE  /\ \A m \in Msgs : /\ Len(Append(q, m)) = Len(q) + 1
                           /\ Append(q, m)[Len(q) + 1] = m
                           /\ \A i \in 1 .. Len(q) : Append(q, m)[i] = q[i]
         /\ q # <<>> => /\ Len(q) \in Nat \ {0} /\ Head(q) = q[1]
                        /\ Len(Tail(q)) = Len(q) - 1
                        /\ \A i \in 1 .. Len(q) - 1 : Tail(q)[i] = q[i + 1]
OBVIOUS

\* Steps of the host keep the invariant.
LEMMA HostFlight ==
  ASSUME TypeOK, FlightInv, HostTake \/ HostType \/ HostGive
  PROVE  FlightInv'
<1>1. UNCHANGED hart
  BY DEF HostTake, HostType, HostGive
<1>2. queue \in Seq(Msgs) /\ tohost.data \in Nat /\ typed + 1 \in Nat /\ Len(queue) \in Nat
  BY DEF TypeOK, SharedTypes, HostTypes, Msgs
<1>3. ASSUME fromhost' = fromhost PROVE \A h \in Harts : LocalInv(h)'
  BY <1>1, <1>3 DEF FlightInv, LocalInv, hart, IsSys
<1>4. ASSUME OneFlight', SysFlight' => SysFlight, \A h \in Harts : LocalInv(h)' PROVE FlightInv'
  BY <1>1, <1>4 DEF FlightInv, Awaits, hart
\* A message appended by the host: an answer to the call in tohost, or none.
<1>5. ASSUME NEW m \in Msgs, queue' = Append(queue, m), fromhost' = fromhost, m # None,
             tohost' = None \/ (tohost' = tohost /\ ~IsSys(m)),
             IsSys(m) => IsSys(tohost) /\ m.cmd = 0
      PROVE  FlightInv'
  <2>1. /\ Len(queue') = Len(queue) + 1 /\ queue'[Len(queue) + 1] = m
        /\ \A i \in 1 .. Len(queue) : queue'[i] = queue[i]
    BY <1>2, <1>5, Queues
  <2>2. \A i \in 1 .. Len(queue') : i \in 1 .. Len(queue) \/ i = Len(queue) + 1
    BY <1>2, <2>1
  <2>3. SysFlight' => SysFlight
    BY <1>5, <2>1, <2>2 DEF SysFlight, SysQueued, IsSys
  <2>4. IsSys(m) => ~IsSys(fromhost) /\ ~SysQueued
    BY <1>5 DEF FlightInv, OneFlight
  <2>5. \A i, j \in 1 .. Len(queue') : IsSys(queue'[i]) /\ IsSys(queue'[j]) => i = j
    BY <2>1, <2>2, <2>4 DEF FlightInv, OneFlight, SysQueued
  <2>6. \A i \in 1 .. Len(queue') : queue'[i] # None /\ (IsSys(queue'[i]) => queue'[i].cmd = 0)
    BY <1>5, <2>1, <2>2 DEF FlightInv, OneFlight
  <2>7. ~(IsSys(fromhost) /\ SysQueued')
    BY <1>5, <2>1, <2>2, <2>4 DEF FlightInv, OneFlight, SysQueued
  <2>8. ~(IsSys(tohost') /\ SysQueued')
    BY <1>5, <2>1, <2>2 DEF FlightInv, OneFlight, SysQueued, IsSys
  <2>9. OneFlight'
    BY <1>5, <2>5, <2>6, <2>7, <2>8 DEF FlightInv, OneFlight, IsSys
  <2>10. QED
    BY <1>3, <1>4, <1>5, <2>3, <2>9
<1>6. CASE HostTake
  <2>1. tohost' = None /\ fromhost' = fromhost /\ tohost # None
    BY <1>6 DEF HostTake
  <2>2. ~IsSys(tohost')
    BY <2>1 DEF IsSys
  <2>3. CASE queue' = queue
    <3>1. OneFlight' /\ (SysFlight' => SysFlight)
      BY <2>1, <2>2, <2>3 DEF FlightInv, OneFlight, SysFlight, SysQueued, IsSys
    <3>2. QED
      BY <1>3, <1>4, <2>1, <3>1
  <2>4. CASE HostWrite /\ queue' = Append(queue, Msg(1, 1, tohost.data))
    <3>1. Msg(1, 1, tohost.data) \in Msgs /\ Msg(1, 1, tohost.data).dev = 1
      BY <1>2, MsgTypes DEF Msg
    <3>2. Msg(1, 1, tohost.data) # None
      BY <3>1 DEF None, Msg
    <3>3. QED
      BY <1>5, <2>1, <2>2, <2>4, <3>1, <3>2 DEF IsSys
  <2>5. CASE HostSyscall /\ queue' = Append(queue, Msg(0, 0, 1))
    <3>1. Msg(0, 0, 1) \in Msgs /\ Msg(0, 0, 1).cmd = 0 /\ Msg(0, 0, 1) # None
      BY MsgTypes DEF Msg, None
    <3>2. IsSys(tohost)
      BY <2>1, <2>5 DEF HostSyscall, IsSys
    <3>3. QED
      BY <1>5, <2>1, <2>2, <2>5, <3>1, <3>2
  <2>6. QED
    BY <1>6, <2>3, <2>4, <2>5 DEF HostTake, HostWrite, HostRead, HostSyscall, HostExit
<1>7. CASE HostType
  <2>1. Msg(1, 0, typed + 1) \in Msgs /\ Msg(1, 0, typed + 1).dev = 1
    BY <1>2, MsgTypes DEF Msg
  <2>2. Msg(1, 0, typed + 1) # None
    BY <2>1 DEF None, Msg
  <2>3. QED
    BY <1>5, <1>7, <2>1, <2>2 DEF HostType, IsSys
<1>8. CASE HostGive
  <2>1. /\ queue # <<>> /\ fromhost = None /\ fromhost' = queue[1] /\ tohost' = tohost
        /\ Len(queue') = Len(queue) - 1 /\ Len(queue) \in Nat \ {0}
        /\ \A i \in 1 .. Len(queue) - 1 : queue'[i] = queue[i + 1]
    BY <1>8, <1>2, Queues DEF HostGive
  <2>2. 1 \in 1 .. Len(queue)
    BY <2>1
  <2>3. \A i \in 1 .. Len(queue') : i + 1 \in 1 .. Len(queue) /\ queue'[i] = queue[i + 1]
    BY <2>1
  <2>4. SysFlight' => SysFlight
    BY <2>1, <2>2, <2>3 DEF SysFlight, SysQueued, IsSys
  <2>5. \A i \in 1 .. Len(queue') : queue'[i] # None /\ (IsSys(queue'[i]) => queue'[i].cmd = 0)
    BY <2>3 DEF FlightInv, OneFlight
  <2>6. \A i, j \in 1 .. Len(queue') : IsSys(queue'[i]) /\ IsSys(queue'[j]) => i = j
    BY <2>1, <2>3 DEF FlightInv, OneFlight
  <2>7. ~(IsSys(fromhost') /\ SysQueued')
    BY <2>1, <2>2, <2>3 DEF FlightInv, OneFlight, SysQueued
  <2>8. IsSys(tohost) => ~IsSys(fromhost') /\ ~SysQueued'
    BY <2>1, <2>2, <2>3 DEF FlightInv, OneFlight, SysQueued
  <2>9. OneFlight'
    BY <2>1, <2>2, <2>5, <2>6, <2>7, <2>8 DEF FlightInv, OneFlight
  <2>10. ASSUME NEW h \in Harts PROVE LocalInv(h)'
    BY <1>1, <2>1 DEF FlightInv, LocalInv, hart, IsSys, None, Msg
  <2>11. QED
    BY <1>4, <2>4, <2>9, <2>10
<1>9. QED
  BY <1>6, <1>7, <1>8

-----------------------------------------------------------------------------
(* The theorems. *)

\* The initial state satisfies the invariants.
LEMMA InitInv == Init => TypeOK /\ LockInv /\ SendInv /\ FlightInv
<1> SUFFICES ASSUME Init PROVE TypeOK /\ LockInv /\ SendInv /\ FlightInv
  OBVIOUS
<1>1. None \in Msgs
  BY DEF None, Msg, Msgs
<1>2. HartTypes /\ SharedTypes /\ HostTypes
  <2>1. HartTypes
    BY <1>1 DEF Init, HartTypes, Places, Calls
  <2>2. SharedTypes
    BY <1>1 DEF Init, SharedTypes, Calls
  <2>3. output \in Seq(Nat) /\ queue \in Seq(Msgs)
    BY DEF Init
  <2>4. HostTypes
    BY <2>3 DEF Init, HostTypes
  <2>5. QED
    BY <2>1, <2>2, <2>4
<1>2a. PutTypes
  BY DEF Init, PutTypes
<1>3. LockInv /\ SendInv
  BY DEF Init, LockInv, SendInv, InHtif, InFrontend, InSyscall, SysOp
<1>4. ~SysFlight /\ OneFlight /\ \A h \in Harts : LocalInv(h)
  BY DEF Init, SysFlight, SysQueued, OneFlight, LocalInv, IsSys, None, Msg
<1>5. QED
  BY <1>2, <1>2a, <1>3, <1>4 DEF TypeOK, FlightInv

\* Every step keeps the answers where their callers find them.
LEMMA NextFlightInv ==
  ASSUME TypeOK, LockInv, SendInv, FlightInv, [Next]_vars
  PROVE  FlightInv'
<1>1. CASE UNCHANGED vars
  BY <1>1 DEF vars, hart, host, FlightInv, SysFlight, SysQueued, OneFlight, LocalInv,
     Awaits, IsSys
<1>2. QED
  BY <1>1, HartFlight, HostFlight DEF Next

\* The inductive invariant of the two words and the locks.
WordsInv == TypeOK /\ LockInv /\ SendInv /\ FlightInv

\* It holds in every behaviour in which nobody powers off.
LEMMA Inductive == ASSUME "poweroff" \notin Ops PROVE Spec => []WordsInv
<1>1. WordsInv /\ [Next]_vars => WordsInv'
  BY NextTypeOK, NextLockInv, NextSendInv, NextFlightInv DEF WordsInv
<1>2. Init => WordsInv
  BY InitInv DEF WordsInv
<1>3. QED
  BY <1>1, <1>2, PTL DEF Spec

\* Every variable stays in its set: no lock word but 0 and -1, no message but those
\* that TOHOST_CMD can build.
THEOREM TypeCorrect == Spec => []TypeOK
<1>1. QED
  BY InitInv, NextTypeOK, PTL DEF Spec

\* The locks of atomic.h exclude, for any number of harts and any mix of calls,
\* htif_poweroff included.
THEOREM LocksExclude == Spec => []MutualExclusion
<1>1. LockInv => MutualExclusion
  BY DEF LockInv, MutualExclusion
<1>2. QED
  BY <1>1, InitInv, NextTypeOK, NextLockInv, PTL DEF Spec

\* Without htif_poweroff, a request stays in tohost until the host takes it.
THEOREM RequestsKept == ASSUME "poweroff" \notin Ops PROVE Spec => NoOverwrite
<1>1. TypeOK /\ LockInv /\ SendInv /\ [Next]_vars
      => [tohost # None /\ tohost' # tohost => tohost' = None]_vars
  <2>1. \A h \in Harts : Send(h) /\ SendInv => tohost = None
    BY DEF Send, SendInv
  <2>2. QED
    BY <2>1, Writers
<1>2. QED
  BY <1>1, Inductive, PTL DEF Spec, WordsInv, NoOverwrite

\* Without htif_poweroff, the assertions of __check_fromhost hold: whoever meets the
\* answer to a system call is the hart that made it, in its own loop.
THEOREM NoAssertionFails == ASSUME "poweroff" \notin Ops PROVE Spec => []AssertionsHold
<1>1. FlightInv => AssertionsHold
  BY DEF FlightInv, LocalInv, AssertionsHold
<1>2. QED
  BY <1>1, Inductive, PTL DEF WordsInv

-----------------------------------------------------------------------------
(* What the calls promise.                                                 *)

\* A step of a hart changes a shared word only where the code says so.
LEMMA SharedWriters ==
  ASSUME TypeOK, SendInv, NEW h \in Harts, Call(h) \/ Step(h)
  PROVE  /\ tohost' = tohost \/ Send(h)
         /\ fromhost' = fromhost \/ Consume(h) \/ Accept(h)
         /\ buf' = buf \/ Consume(h) \/ Get(h)
         /\ magic' = magic \/ SysFill(h)
         /\ (op' = op /\ calls' = calls) \/ Call(h)
         /\ val' = val \/ Call(h) \/ Get(h) \/ SysRet(h)
<1>1. ASSUME NEW l \in {"htif", "frontend"}, Spin(h, l) \/ Try(h, l)
      PROVE  UNCHANGED <<op, calls, tohost, fromhost, buf, magic, val>>
  BY <1>1 DEF Spin, Try
<1>2. CASE Call(h) \/ SysFill(h) \/ Set(h) \/ Send(h) \/ Check(h) \/ Unlock(h)
  BY <1>2 DEF Call, SysFill, Set, Send, Check, Unlock
<1>3. CASE Consume(h) \/ Get(h) \/ Answer(h) \/ Accept(h)
  BY <1>3 DEF Consume, Get, Answer, Accept
<1>4. CASE SysRet(h) \/ SysUnlock(h)
  BY <1>4 DEF SysRet, SysUnlock
<1>5. ~PowerOffClear(h) /\ ~PowerOffSend(h)
  BY DEF SendInv, PowerOffClear, PowerOffSend
<1>6. QED
  BY <1>1, <1>2, <1>3, <1>4, <1>5 DEF Step

\* The host leaves the harts, the locks, and what only harts write, alone.
LEMMA HostSteps ==
  ASSUME HostTake \/ HostType \/ HostGive
  PROVE  UNCHANGED hart /\ UNCHANGED lock /\ UNCHANGED buf
BY DEF HostTake, HostType, HostGive

-----------------------------------------------------------------------------
(* Who is in __check_fromhost, and why. *)

\* Only htif_console_getchar comes from "get", only do_tohost_fromhost from "answer".
RetLocal(h) ==
  /\ pc[h] = "get" \/ (pc[h] \in {"check", "consume"} /\ ret[h] = "get") => op[h] = "getchar"
  /\ Awaits(h) => SysOp(h)
RetInv == \A h \in Harts : RetLocal(h)

\* Every step returns from __check_fromhost to where it was called.
LEMMA NextRetInv == WordsInv /\ RetInv /\ [Next]_vars => RetInv'
<1> SUFFICES ASSUME WordsInv, RetInv, [Next]_vars PROVE RetInv'
  OBVIOUS
<1>1. TypeOK /\ LockInv /\ SendInv
  BY DEF WordsInv
<1>2. CASE HostTake \/ HostType \/ HostGive \/ UNCHANGED vars
  BY <1>2, HostSteps DEF vars, hart, RetInv, RetLocal, Awaits, SysOp
<1>3. ASSUME NEW h \in Harts, Call(h) \/ Step(h) PROVE RetInv'
  <2>1. ASSUME NEW g \in Harts, g # h PROVE RetLocal(g)'
    BY <1>1, <1>3, <2>1, OneMoves DEF RetInv, RetLocal, Awaits, SysOp
  <2>2. RetLocal(h)'
    <3> USE DEF TypeOK, HartTypes, Go, RetLocal, Awaits, SysOp
    <3>1. RetLocal(h)
      BY DEF RetInv
    <3>2. CASE Call(h)
      BY <1>1, <3>2 DEF Call
    <3>3. ASSUME NEW l \in {"htif", "frontend"}, Spin(h, l) PROVE RetLocal(h)'
      BY <1>1, <3>3 DEF Spin, SpinAt, TryAt
    <3>4. ASSUME NEW l \in {"htif", "frontend"}, Try(h, l) PROVE RetLocal(h)'
      BY <1>1, <3>4 DEF Try, SpinAt, TryAt
    <3>5. CASE SysFill(h) \/ Set(h)
      BY <1>1, <3>1, <3>5 DEF SysFill, Set
    <3>6. CASE Send(h) \/ Unlock(h)
      BY <1>1, <3>1, <3>6 DEF Send, Unlock
    <3>7. CASE Check(h)
      BY <1>1, <3>1, <3>7 DEF Check
    <3>8. CASE Consume(h)
      BY <1>1, <3>1, <3>8 DEF Consume
    <3>9. CASE Get(h)
      BY <1>1, <3>1, <3>9 DEF Get
    <3>10. CASE Answer(h) \/ Accept(h)
      BY <1>1, <3>1, <3>10 DEF Answer, Accept
    <3>11. CASE SysRet(h) \/ SysUnlock(h)
      BY <1>1, <3>1, <3>11 DEF SysRet, SysUnlock
    <3>12. ~PowerOffClear(h) /\ ~PowerOffSend(h)
      BY <1>1 DEF SendInv, PowerOffClear, PowerOffSend
    <3>13. QED
      BY <1>3, <3>2, <3>3, <3>4, <3>5, <3>6, <3>7, <3>8, <3>9, <3>10, <3>11, <3>12 DEF Step
  <2>3. QED
    BY <2>1, <2>2 DEF RetInv
<1>4. QED
  BY <1>2, <1>3 DEF Next

-----------------------------------------------------------------------------
(* The keyboard.  At most one request for a character, or answer to it, is    *)
(* somewhere between the code and the host.                                  *)

KeyFlight == IsKey(tohost) \/ reading \/ IsKey(fromhost) \/ KeysQueued # {}
SomeAsking == \E h \in Harts : Asking(h)

\* It is in one place at a time.
OneKey ==
  /\ IsKey(tohost) => ~reading /\ ~IsKey(fromhost) /\ KeysQueued = {}
  /\ reading => ~IsKey(fromhost) /\ KeysQueued = {}
  /\ IsKey(fromhost) => KeysQueued = {}
  /\ \A i, j \in KeysQueued : i = j

\* An unread character is the last one typed.
LastKey ==
  /\ IsKey(fromhost) => fromhost.data = typed
  /\ \A i \in KeysQueued : queue[i].data = typed
  /\ buf > 0 => buf = typed + 1

KeyInv ==
  /\ OneKey /\ LastKey
  /\ ~(KeyFlight /\ SomeAsking)
  /\ buf = -1 <=> KeyFlight \/ SomeAsking

\* Which characters a queue holds after an append, and after its head is taken.
LEMMA KeysMove ==
  ASSUME TypeOK
  PROVE  /\ \A m \in Msgs : queue' = Append(queue, m) =>
              /\ ~IsKey(m) => KeysQueued' = KeysQueued
              /\ IsKey(m) => KeysQueued' = KeysQueued \cup {Len(queue) + 1}
              /\ queue'[Len(queue) + 1] = m
              /\ \A i \in KeysQueued : queue'[i] = queue[i]
         /\ queue # <<>> /\ queue' = Tail(queue) =>
              /\ \A i \in KeysQueued' : i + 1 \in KeysQueued /\ queue'[i] = queue[i + 1]
              /\ IsKey(Head(queue)) <=> 1 \in KeysQueued
              /\ Head(queue) = queue[1]
              /\ KeysQueued \subseteq {1} => KeysQueued' = {}
              /\ \A i \in KeysQueued : i = 1 \/ i - 1 \in KeysQueued'
<1>1. queue \in Seq(Msgs) /\ Len(queue) \in Nat
  BY DEF TypeOK, HostTypes
<1>2. ASSUME NEW m \in Msgs, queue' = Append(queue, m)
      PROVE  /\ ~IsKey(m) => KeysQueued' = KeysQueued
             /\ IsKey(m) => KeysQueued' = KeysQueued \cup {Len(queue) + 1}
             /\ queue'[Len(queue) + 1] = m
             /\ \A i \in KeysQueued : queue'[i] = queue[i]
  <2>1. /\ Len(queue') = Len(queue) + 1 /\ queue'[Len(queue) + 1] = m
        /\ \A i \in 1 .. Len(queue) : queue'[i] = queue[i]
    BY <1>1, <1>2, Queues
  <2>2. 1 .. Len(queue') = 1 .. Len(queue) \cup {Len(queue) + 1}
    BY <1>1, <2>1
  <2>3. QED
    BY <1>1, <2>1, <2>2 DEF KeysQueued, IsKey
<1>3. ASSUME queue # <<>>, queue' = Tail(queue)
      PROVE  /\ \A i \in KeysQueued' : i + 1 \in KeysQueued /\ queue'[i] = queue[i + 1]
             /\ IsKey(Head(queue)) <=> 1 \in KeysQueued
             /\ Head(queue) = queue[1]
             /\ KeysQueued \subseteq {1} => KeysQueued' = {}
             /\ \A i \in KeysQueued : i = 1 \/ i - 1 \in KeysQueued'
  <2>1. /\ Len(queue) \in Nat \ {0} /\ Head(queue) = queue[1]
        /\ Len(queue') = Len(queue) - 1
        /\ \A i \in 1 .. Len(queue) - 1 : queue'[i] = queue[i + 1]
    BY <1>1, <1>3, Queues
  <2>2. \A i \in KeysQueued' : i + 1 \in KeysQueued /\ queue'[i] = queue[i + 1]
    BY <2>1 DEF KeysQueued, IsKey
  <2>3. IsKey(Head(queue)) <=> 1 \in KeysQueued
    BY <2>1 DEF KeysQueued
  <2>4. \A i \in KeysQueued' : i \in Nat \ {0}
    BY <2>1 DEF KeysQueued
  <2>5. KeysQueued \subseteq {1} => KeysQueued' = {}
    BY <2>2, <2>4
  <2>6. ASSUME NEW i \in KeysQueued, i # 1 PROVE i - 1 \in KeysQueued'
    <3>1. i \in 1 .. Len(queue) /\ IsKey(queue[i]) /\ i - 1 \in 1 .. Len(queue')
      BY <2>1, <2>6 DEF KeysQueued
    <3>2. queue'[i - 1] = queue[i]
      BY <2>1, <3>1
    <3>3. QED
      BY <3>1, <3>2 DEF KeysQueued, IsKey
  <2>7. QED
    BY <2>1, <2>2, <2>3, <2>5, <2>6
<1>4. QED
  BY <1>2, <1>3

\* A hart that neither sends nor takes a character, nor asks for one.
LEMMA KeyQuiet ==
  ASSUME KeyInv, NEW h \in Harts,
         UNCHANGED <<tohost, reading, queue, typed, buf>>,
         fromhost' = fromhost \/ (~IsKey(fromhost) /\ fromhost' = None),
         \A g \in Harts : g # h => Asking(g)' = Asking(g),
         Asking(h)' = Asking(h)
  PROVE  KeyInv'
<1>1. SomeAsking' = SomeAsking
  BY DEF SomeAsking
<1>2. KeysQueued' = KeysQueued
  BY DEF KeysQueued, IsKey
<1>3. IsKey(fromhost') = IsKey(fromhost) /\ IsKey(tohost') = IsKey(tohost)
  BY DEF IsKey, None, Msg
<1>4. KeyFlight' = KeyFlight
  BY <1>2, <1>3 DEF KeyFlight
<1>5. OneKey' /\ LastKey'
  BY <1>2, <1>3 DEF KeyInv, OneKey, LastKey, IsKey, None, Msg
<1>6. QED
  BY <1>1, <1>4, <1>5 DEF KeyInv

\* A hart outside its lock's section asks for nothing, and only one is inside.
LEMMA AskingInside ==
  ASSUME LockInv, NEW h \in Harts, InHtif(h)
  PROVE  \A g \in Harts : g # h => ~Asking(g)
<1>1. \A g \in Harts : Asking(g) => InHtif(g)
  BY DEF Asking, InHtif
<1>2. QED
  BY <1>1 DEF LockInv

\* Steps of the harts keep the keyboard invariant.
LEMMA HartKeyInv ==
  ASSUME WordsInv, RetInv, KeyInv, NEW h \in Harts, Call(h) \/ Step(h)
  PROVE  KeyInv'
<1>1. TypeOK /\ LockInv /\ SendInv /\ FlightInv
  BY DEF WordsInv
<1>2. /\ \A g \in Harts : g # h => Asking(g)' = Asking(g)
      /\ UNCHANGED host
  BY <1>1, OneMoves DEF Asking
<1>3. KeysQueued' = KeysQueued /\ UNCHANGED <<reading, queue, typed>>
  BY <1>2 DEF KeysQueued, IsKey, host
<1>4. InHtif(h) => \A g \in Harts : g # h => ~Asking(g) /\ ~Asking(g)'
  BY <1>1, <1>2, AskingInside
<1>5. RetLocal(h) /\ LocalInv(h)
  BY <1>1 DEF RetInv, FlightInv
<1> USE DEF TypeOK, HartTypes, Go
<1>6. CASE Get(h)
  <2>1. /\ pc[h] = "get" /\ op[h] = "getchar" /\ op' = op /\ ret' = ret
        /\ UNCHANGED <<tohost, fromhost>>
    BY <1>5, <1>6 DEF Get, RetLocal
  <2>2. InHtif(h) /\ ~Asking(h) /\ ~SomeAsking
    BY <2>1, <1>4 DEF InHtif, Asking, SomeAsking
  <2>3. CASE buf >= 0
    <3>1. ~KeyFlight /\ buf' = -1 /\ Asking(h)'
      BY <1>1, <1>6, <2>1, <2>2, <2>3 DEF KeyInv, SharedTypes, Get, Asks, Asking
    <3>2. SomeAsking' /\ ~KeyFlight'
      BY <3>1, <2>1, <1>3 DEF SomeAsking, KeyFlight
    <3>3. QED
      BY <3>1, <3>2, <2>1, <1>3 DEF KeyInv, OneKey, LastKey, KeyFlight
  <2>4. CASE ~(buf >= 0)
    <3>1. buf' = buf /\ ~Asking(h)'
      BY <1>1, <1>6, <2>1, <2>4 DEF Get, Asks, Asking
    <3>2. Asking(h)' = Asking(h)
      BY <3>1, <2>2 DEF Asking
    <3>3. QED
      BY <3>1, <3>2, <2>1, <1>2, <1>3, KeyQuiet
  <2>5. QED
    BY <2>3, <2>4
<1>7. CASE Consume(h)
  <2>1. /\ pc[h] = "consume" /\ fh[h] = fromhost /\ fromhost.dev = 1 /\ fromhost' = None
        /\ op' = op /\ ret' = ret /\ tohost' = tohost /\ fromhost \in Msgs
        /\ buf' = IF IsKey(fromhost) THEN 1 + fromhost.data ELSE buf
        /\ pc'[h] = ret[h] /\ InHtif(h) /\ ret[h] \in {"set", "get", "answer"}
    BY <1>1, <1>5, <1>7 DEF Consume, LocalInv, SharedTypes, Stored, Msgs, IsKey, InHtif
  <2>2. Asking(h)' = Asking(h)
    BY <1>1, <2>1 DEF Asking
  <2>3. CASE IsKey(fromhost)
    <3>1. KeyFlight /\ ~SomeAsking
      BY <2>3 DEF KeyFlight, KeyInv
    <3>2. ~SomeAsking'
      BY <1>2, <2>2, <3>1 DEF SomeAsking
    <3>3. fromhost.data = typed /\ fromhost.data \in Nat
      BY <2>1, <2>3 DEF KeyInv, LastKey, Msgs
    <3>4. ~KeyFlight' /\ ~IsKey(fromhost')
      BY <1>3, <2>1, <2>3 DEF KeyInv, OneKey, KeyFlight, IsKey, None, Msg
    <3>5. buf' = typed + 1 /\ buf' # -1 /\ typed' = typed
      BY <1>3, <2>1, <2>3, <3>3
    <3>6. QED
      BY <3>2, <3>4, <3>5 DEF KeyInv, OneKey, LastKey, KeyFlight
  <2>4. CASE ~IsKey(fromhost)
    BY <2>1, <2>2, <2>4, <1>2, <1>3, KeyQuiet
  <2>5. QED
    BY <2>3, <2>4
<1>8. CASE Send(h)
  <2>1. /\ pc[h] = "send" /\ tohost = None /\ InHtif(h) /\ fromhost' = fromhost /\ buf' = buf
        /\ tohost' = Request(h) /\ ~Asking(h)'
    BY <1>1, <1>8 DEF Send, SendInv, InHtif, Asking
  <2>2. CASE op[h] = "getchar"
    <3>1. Asking(h) /\ SomeAsking /\ ~KeyFlight /\ buf = -1
      BY <2>1, <2>2 DEF Asking, SomeAsking, KeyInv
    <3>2. IsKey(tohost') /\ ~SomeAsking'
      BY <2>1, <2>2, <1>4 DEF Request, IsKey, Msg, SomeAsking
    <3>3. ~reading' /\ ~IsKey(fromhost') /\ KeysQueued' = {}
      BY <3>1, <2>1, <1>3 DEF KeyFlight
    <3>4. QED
      BY <3>1, <3>2, <3>3, <2>1 DEF KeyInv, OneKey, LastKey, KeyFlight
  <2>3. CASE op[h] # "getchar"
    <3>1. ~IsKey(tohost) /\ ~IsKey(tohost') /\ ~Asking(h)
      BY <2>1, <2>3 DEF Request, IsKey, Msg, None, Asking
    <3>2. SomeAsking' = SomeAsking
      BY <1>2, <2>1, <3>1 DEF SomeAsking
    <3>3. KeyFlight' = KeyFlight
      BY <1>3, <2>1, <3>1 DEF KeyFlight
    <3>4. QED
      BY <1>3, <2>1, <3>1, <3>2, <3>3 DEF KeyInv, OneKey, LastKey
  <2>4. QED
    BY <2>2, <2>3
<1>9. CASE ~Get(h) /\ ~Consume(h) /\ ~Send(h)
  <2>1. Asking(h)' = Asking(h)
    <3> USE DEF Asking
    <3>1. CASE Call(h)
      BY <1>1, <3>1 DEF Call
    <3>2. ASSUME NEW l \in {"htif", "frontend"}, Spin(h, l) PROVE Asking(h)' = Asking(h)
      BY <1>1, <3>2 DEF Spin, SpinAt, TryAt
    <3>3. ASSUME NEW l \in {"htif", "frontend"}, Try(h, l) PROVE Asking(h)' = Asking(h)
      BY <1>1, <3>3 DEF Try, SpinAt, TryAt
    <3>4. CASE SysFill(h) \/ Set(h) \/ Unlock(h)
      BY <1>1, <3>4 DEF SysFill, Set, Unlock
    <3>5. CASE Check(h)
      BY <1>1, <3>5 DEF Check
    <3>6. CASE Answer(h) \/ Accept(h)
      BY <1>1, <1>5, <3>6 DEF Answer, Accept, RetLocal, Awaits, SysOp
    <3>7. CASE SysRet(h) \/ SysUnlock(h)
      BY <1>1, <3>7 DEF SysRet, SysUnlock
    <3>8. ~PowerOffClear(h) /\ ~PowerOffSend(h)
      BY <1>1 DEF SendInv, PowerOffClear, PowerOffSend
    <3>9. QED
      BY <1>9, <3>1, <3>2, <3>3, <3>4, <3>5, <3>6, <3>7, <3>8 DEF Step
  <2>2. fromhost' = fromhost \/ (~IsKey(fromhost) /\ fromhost' = None)
    <3>1. Accept(h) => ~IsKey(fromhost) /\ fromhost' = None
      BY <1>5 DEF Accept, LocalInv, IsSys, IsKey
    <3>2. QED
      BY <1>1, <1>9, <3>1, SharedWriters
  <2>3. tohost' = tohost /\ buf' = buf
    BY <1>1, <1>9, SharedWriters
  <2>4. QED
    BY <1>2, <1>3, <2>1, <2>2, <2>3, KeyQuiet
<1>10. QED
  BY <1>6, <1>7, <1>8, <1>9

\* Steps of the host keep the keyboard invariant.
LEMMA HostKeyInv ==
  ASSUME WordsInv, KeyInv, HostTake \/ HostType \/ HostGive
  PROVE  KeyInv'
<1>1. UNCHANGED hart /\ UNCHANGED buf
  BY HostSteps
<1>2. SomeAsking' = SomeAsking
  BY <1>1 DEF SomeAsking, Asking, hart
<1>3. TypeOK /\ queue \in Seq(Msgs) /\ typed \in Nat /\ tohost \in Msgs /\ Len(queue) \in Nat
  BY DEF WordsInv, TypeOK, SharedTypes, HostTypes
<1>4. KeysQueued \subseteq Nat \ {0}
  BY DEF KeysQueued
<1>5. KeyFlight' = KeyFlight /\ OneKey' /\ LastKey' => KeyInv'
  BY <1>1, <1>2 DEF KeyInv
<1>6. ~IsKey(None)
  BY DEF IsKey, None, Msg
<1>7. CASE HostTake
  <2>1. tohost' = None /\ tohost # None /\ UNCHANGED <<fromhost, typed>>
    BY <1>7 DEF HostTake
  <2>2. CASE HostRead
    <3>1. IsKey(tohost) /\ reading' /\ queue' = queue
      BY <1>7, <2>2 DEF HostTake, HostRead, IsKey
    <3>2. KeysQueued' = KeysQueued
      BY <3>1 DEF KeysQueued, IsKey
    <3>3. KeyFlight' = KeyFlight
      BY <3>1 DEF KeyFlight
    <3>4. OneKey' /\ LastKey'
      BY <1>1, <1>6, <2>1, <3>1, <3>2 DEF KeyInv, OneKey, LastKey
    <3>5. QED
      BY <1>5, <3>3, <3>4
  <2>3. CASE ~HostRead
    <3>1. ~IsKey(tohost) /\ reading' = reading
      BY <1>7, <2>3 DEF HostTake, HostWrite, HostRead, HostSyscall, HostExit, IsKey, Exit, Msg
    <3>2. \/ queue' = queue
          \/ \E m \in Msgs : queue' = Append(queue, m) /\ ~IsKey(m)
      <4>1. tohost.data \in Nat
        BY <1>3 DEF Msgs
      <4>2. /\ Msg(1, 1, tohost.data) \in Msgs /\ Msg(0, 0, 1) \in Msgs
            /\ ~IsKey(Msg(1, 1, tohost.data)) /\ ~IsKey(Msg(0, 0, 1))
        <5>1. Msg(1, 1, tohost.data) \in Msgs /\ Msg(0, 0, 1) \in Msgs
          BY <1>3, <4>1, MsgTypes
        <5>2. ~IsKey(Msg(1, 1, tohost.data)) /\ ~IsKey(Msg(0, 0, 1))
          BY DEF IsKey, Msg
        <5>3. QED
          BY <5>1, <5>2
      <4>3. \/ queue' = queue
            \/ queue' = Append(queue, Msg(1, 1, tohost.data))
            \/ queue' = Append(queue, Msg(0, 0, 1))
        BY <1>7 DEF HostTake, HostWrite, HostRead, HostSyscall, HostExit
      <4>4. QED
        BY <4>2, <4>3
    <3>3. KeysQueued' = KeysQueued /\ \A i \in KeysQueued : queue'[i] = queue[i]
      <4>1. CASE queue' = queue
        BY <4>1 DEF KeysQueued, IsKey
      <4>2. ASSUME NEW m \in Msgs, queue' = Append(queue, m), ~IsKey(m)
            PROVE  KeysQueued' = KeysQueued /\ \A i \in KeysQueued : queue'[i] = queue[i]
        BY <1>3, <4>2, KeysMove
      <4>3. QED
        BY <3>2, <4>1, <4>2
    <3>4. KeyFlight' = KeyFlight
      BY <1>6, <2>1, <3>1, <3>3 DEF KeyFlight
    <3>5. OneKey' /\ LastKey'
      BY <1>1, <1>6, <2>1, <3>1, <3>3 DEF KeyInv, OneKey, LastKey
    <3>6. QED
      BY <1>5, <3>4, <3>5
  <2>4. QED
    BY <2>2, <2>3
<1>8. CASE HostType
  <2> DEFINE m == Msg(1, 0, typed + 1)
  <2>1. m \in Msgs /\ IsKey(m) /\ m.data = typed + 1
    <3>1. typed + 1 \in Nat
      BY <1>3
    <3>2. m \in Msgs
      BY <1>3, <3>1, MsgTypes
    <3>3. IsKey(m) /\ m.data = typed + 1
      BY DEF IsKey, Msg
    <3>4. QED
      BY <3>2, <3>3
  <2>2. /\ reading /\ ~reading' /\ typed' = typed + 1 /\ queue' = Append(queue, m)
        /\ UNCHANGED <<tohost, fromhost>>
    BY <1>8 DEF HostType, WordsInv, TypeOK, HostTypes
  <2>3. ~IsKey(tohost) /\ ~IsKey(fromhost) /\ KeysQueued = {}
    BY <2>2 DEF KeyInv, OneKey
  <2>4. KeysQueued' = {Len(queue) + 1} /\ queue'[Len(queue) + 1] = m
    BY <1>3, <2>1, <2>2, <2>3, KeysMove
  <2>5. buf = -1 /\ buf' = -1
    BY <1>1, <2>2 DEF KeyInv, KeyFlight
  <2>6. KeyFlight' = KeyFlight
    BY <2>2, <2>4 DEF KeyFlight
  <2>7. OneKey'
    BY <2>2, <2>3, <2>4 DEF OneKey
  <2>8. LastKey'
    BY <2>1, <2>2, <2>3, <2>4, <2>5 DEF LastKey
  <2>9. QED
    BY <1>5, <2>6, <2>7, <2>8
<1>9. CASE HostGive
  <2>1. /\ queue # <<>> /\ fromhost = None /\ fromhost' = Head(queue) /\ queue' = Tail(queue)
        /\ UNCHANGED <<tohost, reading, typed>>
    BY <1>9 DEF HostGive
  <2>2. /\ \A i \in KeysQueued' : i + 1 \in KeysQueued /\ queue'[i] = queue[i + 1]
        /\ IsKey(Head(queue)) <=> 1 \in KeysQueued
        /\ Head(queue) = queue[1]
        /\ KeysQueued \subseteq {1} => KeysQueued' = {}
        /\ \A i \in KeysQueued : i = 1 \/ i - 1 \in KeysQueued'
    BY <1>3, <2>1, KeysMove
  <2>3. \A i, j \in KeysQueued : i = j
    BY DEF KeyInv, OneKey
  <2>4. (IsKey(fromhost') \/ KeysQueued' # {}) <=> KeysQueued # {}
    BY <2>1, <2>2
  <2>5. KeyFlight' <=> KeyFlight
    BY <1>6, <2>1, <2>4 DEF KeyFlight
  <2>6. IsKey(fromhost') => KeysQueued' = {}
    BY <2>1, <2>2, <2>3
  <2>7. KeysQueued' \subseteq Nat
    BY <1>4, <2>2, <1>3 DEF KeysQueued
  <2>8. \A i, j \in KeysQueued' : i = j
    BY <2>2, <2>3, <2>7
  <2>9. OneKey'
    BY <2>1, <2>4, <2>6, <2>8 DEF KeyInv, OneKey
  <2>10. LastKey'
    BY <1>1, <2>1, <2>2 DEF KeyInv, LastKey
  <2>11. QED
    BY <1>1, <1>2, <2>5, <2>9, <2>10 DEF KeyInv
<1>10. QED
  BY <1>7, <1>8, <1>9

\* Every step keeps the keyboard invariant.
LEMMA NextKeyInv == WordsInv /\ RetInv /\ KeyInv /\ [Next]_vars => KeyInv'
<1> SUFFICES ASSUME WordsInv, RetInv, KeyInv, [Next]_vars PROVE KeyInv'
  OBVIOUS
<1>1. CASE UNCHANGED vars
  <2>1. KeysQueued' = KeysQueued /\ SomeAsking' = SomeAsking
    BY <1>1 DEF vars, hart, host, KeysQueued, IsKey, SomeAsking, Asking
  <2>2. QED
    BY <1>1, <2>1 DEF vars, host, KeyInv, OneKey, LastKey, KeyFlight, IsKey
<1>2. QED
  BY <1>1, HartKeyInv, HostKeyInv DEF Next

\* Counting what is on its way: no place or one.
LEMMA CountKeys == ASSUME OneKey PROVE OnItsWay <= 1 /\ (OnItsWay = 1 <=> KeyFlight)
<1>1. Cardinality(KeysQueued) = IF KeysQueued = {} THEN 0 ELSE 1
  <2>1. CASE KeysQueued = {}
    BY <2>1, FS_EmptySet
  <2>2. CASE KeysQueued # {}
    <3>1. PICK i \in KeysQueued : TRUE
      BY <2>2
    <3>2. KeysQueued = {i}
      BY <3>1 DEF OneKey
    <3>3. QED
      BY <2>2, <3>2, FS_Singleton
  <2>3. QED
    BY <2>1, <2>2
<1>2. QED
  BY <1>1 DEF OneKey, OnItsWay, KeyFlight

\* The initial state satisfies them.
LEMMA InitKeyInv == Init => RetInv /\ KeyInv
<1> SUFFICES ASSUME Init PROVE RetInv /\ KeyInv
  OBVIOUS
<1>1. RetInv
  BY DEF Init, RetInv, RetLocal, Awaits
<1>2. KeysQueued = {} /\ ~SomeAsking
  BY DEF Init, KeysQueued, SomeAsking, Asking
<1>3. QED
  BY <1>1, <1>2 DEF Init, KeyInv, OneKey, LastKey, KeyFlight, IsKey, None, Msg

\* Without htif_poweroff, htif_console_buf is -1 exactly while one request for a
\* character, or the answer to it, is on its way, and there is never a second one:
\* for any number of harts and any order in which the host answers.
THEOREM OneRequestAtATime == ASSUME "poweroff" \notin Ops PROVE Spec => []OneRequest
<1>1. WordsInv /\ RetInv /\ KeyInv /\ [Next]_vars => RetInv' /\ KeyInv'
  BY NextRetInv, NextKeyInv
<1>2. KeyInv => OneRequest
  BY CountKeys DEF KeyInv, OneRequest, SomeAsking
<1>3. QED
  BY <1>1, <1>2, InitKeyInv, Inductive, PTL DEF Spec

-----------------------------------------------------------------------------
(* System calls.  magic_mem holds the call of the hart that has              *)
(* frontend_syscall's lock, and is answered once the host has served it.     *)

\* The call has not reached the host yet; the answer has come.
Before(h) == \/ pc[h] \in {"spin", "try", "set", "send"}
             \/ pc[h] \in {"check", "consume"} /\ ret[h] = "set"
After(h) == pc[h] \in {"accept", "unlock", "sys_ret", "sys_unlock"}

SysLocal(h) ==
  /\ InFrontend(h) /\ pc[h] # "sys_fill" => magic.call = Tag(h) /\ magic.op = op[h]
  /\ SysOp(h) /\ Before(h) => ~magic.done
  /\ SysOp(h) /\ After(h) => magic.done
  /\ pc[h] = "sys_unlock" => val[h] = Tag(h)

SysInv ==
  /\ \A h \in Harts : SysLocal(h)
  /\ IsSys(tohost) => ~magic.done
  /\ IsSys(fromhost) \/ SysQueued => magic.done

\* Whoever waits for an answer, or has put a call in magic_mem, has frontend_syscall's
\* lock: no other hart is between its lock and unlock.
LEMMA FrontendAlone ==
  ASSUME LockInv, RetInv, NEW h \in Harts, InFrontend(h)
  PROVE  \A g \in Harts : g # h => ~InFrontend(g) /\ ~Awaits(g)
<1>1. \A g \in Harts : Awaits(g) => InFrontend(g)
  BY DEF RetInv, RetLocal, Awaits, InFrontend
<1>2. QED
  BY <1>1 DEF LockInv

\* magic_mem is filled in by the hart that has the lock, while nothing is on its way.
LEMMA SysFillStep ==
  ASSUME WordsInv, RetInv, SysInv, NEW h \in Harts, SysFill(h)
  PROVE  SysInv'
<1>1. TypeOK /\ LockInv /\ SendInv /\ FlightInv
  BY DEF WordsInv
<1> USE DEF TypeOK, HartTypes, Go
<1>2. /\ pc[h] = "sys_fill" /\ pc'[h] = "spin" /\ SysOp(h)
      /\ magic' = [call |-> Tag(h), op |-> op[h], done |-> FALSE]
      /\ UNCHANGED <<op, calls, val, ret, tohost, fromhost>>
      /\ \A g \in Harts : g # h => pc'[g] = pc[g]
  BY <1>1 DEF SysFill, LockInv, InSyscall
<1>3. InFrontend(h)
  BY <1>2 DEF InFrontend
<1>4. ~SysFlight
  <2>1. ~Awaits(h)
    BY <1>2 DEF Awaits
  <2>2. QED
    BY <1>1, <1>3, <2>1, FrontendAlone DEF FlightInv
<1>5. queue' = queue
  BY DEF SysFill, host
<1>6. SysLocal(h)'
  BY <1>2 DEF SysLocal, After, Tag
<1>7. ASSUME NEW g \in Harts, g # h PROVE SysLocal(g)'
  <2>1. ~InFrontend(g)
    BY <1>1, <1>3, <1>7, FrontendAlone
  <2>2. InSyscall(g) => SysOp(g)
    BY <1>1 DEF LockInv
  <2>3. QED
    BY <1>2, <1>7, <2>1, <2>2 DEF SysLocal, InFrontend, InSyscall, Before, After, SysOp
<1>8. ~IsSys(fromhost') /\ ~SysQueued' /\ ~magic'.done
  BY <1>2, <1>4, <1>5 DEF SysFlight, SysQueued, IsSys
<1>9. QED
  BY <1>6, <1>7, <1>8 DEF SysInv

\* A hart that does not touch magic_mem or what is on its way: its own part remains.
LEMMA SysQuiet ==
  ASSUME SysInv, NEW h \in Harts, magic' = magic, queue' = queue,
         \A g \in Harts : g # h => /\ pc'[g] = pc[g] /\ op'[g] = op[g] /\ ret'[g] = ret[g]
                                  /\ val'[g] = val[g] /\ calls'[g] = calls[g],
         IsSys(tohost') => IsSys(tohost) \/ ~magic.done,
         IsSys(fromhost') => IsSys(fromhost),
         SysLocal(h)'
  PROVE  SysInv'
<1>1. ASSUME NEW g \in Harts, g # h PROVE SysLocal(g)'
  <2>1. SysLocal(g)
    BY DEF SysInv
  <2>2. QED
    BY <1>1, <2>1 DEF SysLocal, InFrontend, SysOp, Before, After, Tag
<1>2. SysQueued' => SysQueued
  BY DEF SysQueued, IsSys
<1>3. QED
  BY <1>1, <1>2 DEF SysInv

\* Steps of the harts keep the invariant of system calls.
LEMMA HartSysInv ==
  ASSUME WordsInv, RetInv, SysInv, NEW h \in Harts, Call(h) \/ Step(h)
  PROVE  SysInv'
<1>1. TypeOK /\ LockInv /\ SendInv /\ FlightInv
  BY DEF WordsInv
<1>2. /\ \A g \in Harts : g # h => /\ pc'[g] = pc[g] /\ op'[g] = op[g] /\ ret'[g] = ret[g]
                                  /\ val'[g] = val[g] /\ calls'[g] = calls[g]
      /\ queue' = queue
  BY <1>1, OneMoves DEF host
<1>3. RetLocal(h) /\ LocalInv(h) /\ SysLocal(h) /\ (InSyscall(h) => SysOp(h))
  BY <1>1 DEF RetInv, FlightInv, SysInv, LockInv
<1>4. CASE SysFill(h)
  BY <1>4, SysFillStep
<1>5. CASE ~SysFill(h)
  <2>1. magic' = magic
    BY <1>1, <1>5, SharedWriters
  <2>2. IsSys(tohost') => IsSys(tohost) \/ ~magic.done
    <3>1. CASE Send(h) /\ SysOp(h)
      BY <1>3, <3>1 DEF Send, SysLocal, Before
    <3>2. CASE Send(h) /\ ~SysOp(h)
      <4>1. op[h] \in {"putchar", "getchar"}
        BY <1>1, <3>2 DEF SysOp, SendInv, TypeOK, HartTypes, Calls
      <4>2. Request(h).dev = 1
        BY <4>1 DEF Request, Msg
      <4>3. QED
        BY <3>2, <4>2 DEF Send, IsSys
    <3>3. CASE ~Send(h)
      BY <1>1, <3>3, SharedWriters
    <3>4. QED
      BY <3>1, <3>2, <3>3
  <2>3. IsSys(fromhost') => IsSys(fromhost)
    <3>1. Consume(h) \/ Accept(h) => fromhost' = None
      BY DEF Consume, Accept
    <3>2. QED
      BY <1>1, <3>1, SharedWriters DEF IsSys
  <2>4. SysLocal(h)'
    <3> USE DEF TypeOK, HartTypes, Go
    <3> USE DEF SysLocal, InFrontend, SysOp, Before, After, Tag
    <3>1. CASE Call(h)
      BY <1>1, <2>1, <3>1 DEF Call
    <3>2. ASSUME NEW l \in {"htif", "frontend"}, Spin(h, l) PROVE SysLocal(h)'
      BY <1>1, <1>3, <2>1, <3>2 DEF Spin, SpinAt, TryAt
    <3>3. ASSUME NEW l \in {"htif", "frontend"}, Try(h, l) PROVE SysLocal(h)'
      BY <1>1, <1>3, <2>1, <3>3 DEF Try, SpinAt, TryAt
    <3>4. CASE Set(h)
      BY <1>1, <1>3, <2>1, <3>4 DEF Set
    <3>5. CASE Send(h)
      BY <1>1, <1>3, <2>1, <3>5 DEF Send
    <3>6. CASE Check(h)
      BY <1>1, <1>3, <2>1, <3>6 DEF Check, RetLocal
    <3>7. CASE Consume(h)
      BY <1>1, <1>3, <2>1, <3>7 DEF Consume, RetLocal
    <3>8. CASE Get(h)
      BY <1>1, <1>3, <2>1, <3>8 DEF Get, RetLocal
    <3>9. CASE Answer(h)
      <4>1. Mine(fromhost) => magic.done
        BY DEF Mine, SysInv, IsSys
      <4>2. QED
        BY <1>1, <1>3, <2>1, <3>9, <4>1 DEF Answer
    <3>10. CASE Accept(h)
      BY <1>1, <1>3, <2>1, <3>10 DEF Accept
    <3>11. CASE Unlock(h)
      BY <1>1, <1>3, <2>1, <3>11 DEF Unlock
    <3>12. CASE SysRet(h)
      BY <1>1, <1>3, <2>1, <3>12 DEF SysRet, InSyscall
    <3>13. CASE SysUnlock(h)
      BY <1>1, <1>3, <2>1, <3>13 DEF SysUnlock
    <3>14. ~PowerOffClear(h) /\ ~PowerOffSend(h)
      BY <1>1 DEF SendInv, PowerOffClear, PowerOffSend
    <3>15. QED
      BY <1>5, <3>1, <3>2, <3>3, <3>4, <3>5, <3>6, <3>7, <3>8, <3>9, <3>10, <3>11, <3>12,
         <3>13, <3>14 DEF Step
  <2>5. QED
    BY <1>2, <2>1, <2>2, <2>3, <2>4, SysQuiet
<1>6. QED
  BY <1>4, <1>5

\* Which system calls and answers a queue holds after an append, and after its head is
\* taken.
LEMMA SysMove ==
  ASSUME TypeOK
  PROVE  /\ \A m \in Msgs : queue' = Append(queue, m) /\ ~IsSys(m) => (SysQueued' => SysQueued)
         /\ queue # <<>> /\ queue' = Tail(queue) => (SysQueued' \/ IsSys(Head(queue)) => SysQueued)
<1>1. queue \in Seq(Msgs) /\ Len(queue) \in Nat
  BY DEF TypeOK, HostTypes
<1>2. ASSUME NEW m \in Msgs, queue' = Append(queue, m), ~IsSys(m) PROVE SysQueued' => SysQueued
  <2>1. /\ Len(queue') = Len(queue) + 1 /\ queue'[Len(queue) + 1] = m
        /\ \A i \in 1 .. Len(queue) : queue'[i] = queue[i]
    BY <1>1, <1>2, Queues
  <2>2. \A i \in 1 .. Len(queue') : i \in 1 .. Len(queue) \/ i = Len(queue) + 1
    BY <1>1, <2>1
  <2>3. QED
    BY <1>2, <2>1, <2>2 DEF SysQueued, IsSys
<1>3. ASSUME queue # <<>>, queue' = Tail(queue)
      PROVE  SysQueued' \/ IsSys(Head(queue)) => SysQueued
  <2>1. /\ Len(queue) \in Nat \ {0} /\ Head(queue) = queue[1]
        /\ Len(queue') = Len(queue) - 1
        /\ \A i \in 1 .. Len(queue) - 1 : queue'[i] = queue[i + 1]
    BY <1>1, <1>3, Queues
  <2>2. 1 \in 1 .. Len(queue)
    BY <2>1
  <2>3. \A i \in 1 .. Len(queue') : i + 1 \in 1 .. Len(queue) /\ queue'[i] = queue[i + 1]
    BY <2>1
  <2>4. QED
    BY <2>1, <2>2, <2>3 DEF SysQueued, IsSys
<1>4. QED
  BY <1>2, <1>3

\* Steps of the host keep the invariant of system calls.
LEMMA HostSysInv ==
  ASSUME WordsInv, RetInv, SysInv, HostTake \/ HostType \/ HostGive
  PROVE  SysInv'
<1>1. TypeOK /\ LockInv /\ SendInv /\ FlightInv
  BY DEF WordsInv
<1>2. UNCHANGED hart
  BY HostSteps
<1>3. /\ tohost.data \in Nat /\ typed + 1 \in Nat
      /\ \A n \in Nat : ~IsSys(Msg(1, 1, n)) /\ ~IsSys(Msg(1, 0, n))
  BY <1>1 DEF TypeOK, SharedTypes, HostTypes, Msgs, IsSys, Msg
<1>4. ASSUME magic' = magic, IsSys(tohost') => IsSys(tohost),
             IsSys(fromhost') \/ SysQueued' => IsSys(fromhost) \/ SysQueued
      PROVE  SysInv'
  <2>1. \A g \in Harts : SysLocal(g)'
    BY <1>2, <1>4 DEF SysInv, SysLocal, InFrontend, SysOp, Before, After, Tag, hart
  <2>2. QED
    BY <1>4, <2>1 DEF SysInv
<1>5. queue' = queue => (SysQueued' => SysQueued)
  BY DEF SysQueued, IsSys
<1>6. CASE HostTake
  <2>1. tohost # None /\ tohost' = None /\ fromhost' = fromhost /\ ~IsSys(tohost')
    BY <1>6 DEF HostTake, IsSys
  <2>2. CASE magic' = magic
    <3>1. \/ queue' = queue
          \/ queue' = Append(queue, Msg(1, 1, tohost.data))
          \/ magic.done
      BY <1>1, <1>6, <2>2 DEF HostTake, HostWrite, HostRead, HostSyscall, HostExit, TypeOK, SharedTypes
    <3>2. ~magic.done => (SysQueued' => SysQueued)
      BY <1>1, <1>3, <1>5, <3>1, SysMove, MsgTypes
    <3>3. CASE ~magic.done
      BY <1>4, <2>1, <2>2, <3>2, <3>3
    <3>4. CASE magic.done
      <4>1. \A g \in Harts : SysLocal(g)'
        BY <1>2, <2>2 DEF SysInv, SysLocal, InFrontend, SysOp, Before, After, Tag, hart
      <4>2. QED
        BY <2>1, <2>2, <3>4, <4>1 DEF SysInv
    <3>5. QED
      BY <3>3, <3>4
  <2>3. CASE magic' # magic
    <3>1. IsSys(tohost) /\ magic' = [magic EXCEPT !.done = TRUE] /\ magic'.done
      BY <1>1, <1>6, <2>1, <2>3
      DEF HostTake, HostWrite, HostRead, HostSyscall, HostExit, IsSys, TypeOK, SharedTypes
    <3>2. PICK w \in Harts : Awaits(w)
      BY <1>1, <3>1 DEF FlightInv, SysFlight
    <3>3. SysOp(w) /\ InFrontend(w) /\ ~Before(w)
      BY <3>2 DEF RetInv, RetLocal, Awaits, InFrontend, Before
    <3>4. ASSUME NEW g \in Harts PROVE ~(SysOp(g) /\ Before(g))
      <4>1. SysOp(g) /\ Before(g) => InFrontend(g)
        BY DEF InFrontend, Before
      <4>2. QED
        BY <1>1, <3>3, <4>1, FrontendAlone
    <3>5. ASSUME NEW g \in Harts PROVE SysLocal(g)'
      <4>1. magic'.call = magic.call /\ magic'.op = magic.op
        BY <1>1, <3>1 DEF TypeOK, SharedTypes
      <4>2. QED
        BY <1>2, <3>1, <3>4, <4>1 DEF SysInv, SysLocal, InFrontend, SysOp, Before, After, Tag, hart
    <3>6. QED
      BY <2>1, <3>1, <3>5 DEF SysInv
  <2>4. QED
    BY <2>2, <2>3
<1>7. CASE HostType
  <2>1. queue' = Append(queue, Msg(1, 0, typed + 1)) /\ UNCHANGED <<magic, tohost, fromhost>>
    BY <1>7 DEF HostType
  <2>2. SysQueued' => SysQueued
    BY <1>1, <1>3, <2>1, SysMove, MsgTypes
  <2>3. QED
    BY <1>4, <2>1, <2>2
<1>8. CASE HostGive
  <2>1. queue # <<>> /\ queue' = Tail(queue) /\ fromhost' = Head(queue) /\ UNCHANGED <<magic, tohost>>
    BY <1>8 DEF HostGive
  <2>2. QED
    BY <1>1, <1>4, <2>1, SysMove
<1>9. QED
  BY <1>6, <1>7, <1>8

\* Every step keeps the invariant of system calls.
LEMMA NextSysInv == WordsInv /\ RetInv /\ SysInv /\ [Next]_vars => SysInv'
<1> SUFFICES ASSUME WordsInv, RetInv, SysInv, [Next]_vars PROVE SysInv'
  OBVIOUS
<1>1. CASE UNCHANGED vars
  BY <1>1 DEF vars, hart, host, SysInv, SysLocal, InFrontend, SysOp, Before, After, Tag,
     SysQueued, IsSys
<1>2. QED
  BY <1>1, HartSysInv, HostSysInv DEF Next

\* The initial state satisfies it.
LEMMA InitSysInv == Init => SysInv
<1> SUFFICES ASSUME Init PROVE SysInv
  OBVIOUS
<1>1. \A h \in Harts : SysLocal(h)
  BY DEF Init, SysLocal, InFrontend, SysOp, Before, After
<1>2. ~IsSys(tohost) /\ ~IsSys(fromhost) /\ ~SysQueued
  BY DEF Init, IsSys, SysQueued
<1>3. QED
  BY <1>1, <1>2 DEF SysInv

\* Without htif_poweroff, frontend_syscall returns the answer to its own call: what it
\* put into magic_mem is served, and is not another hart's, when it reads the result.
THEOREM OwnAnswers == ASSUME "poweroff" \notin Ops PROVE Spec => []OwnAnswer
<1>1. SysInv => OwnAnswer
  BY DEF SysInv, SysLocal, OwnAnswer
<1>2. QED
  BY <1>1, NextRetInv, NextSysInv, InitKeyInv, InitSysInv, Inductive, PTL DEF Spec

-----------------------------------------------------------------------------
(* Characters.  What a putchar wrote is in tohost or printed; while the hart *)
(* that wrote it still holds htif_lock, it is the one character that is not  *)
(* counted as put yet.                                                       *)

Returning(h) == pc[h] = "unlock" /\ op[h] = "putchar"

PrintInv ==
  /\ \A h \in Harts : Returning(h) => PutSoFar = Append(put, Tag(h))
  /\ (\A h \in Harts : ~Returning(h)) => PutSoFar = put
  /\ exited = "shutdown" => tohost = None /\ \A h \in Harts : ~Returning(h)

\* A message to print is neither nothing nor a request of another kind.
LEMMA PutMsg ==
  \A n : LET m == Msg(1, 1, n) IN m # None /\ m.dev = 1 /\ m.cmd = 1 /\ m.data = n
BY DEF Msg, None

\* A step that is neither a store to tohost nor a return leaves putchar alone.
LEMMA NotReturning ==
  ASSUME WordsInv, RetInv, NEW h \in Harts, Call(h) \/ Step(h), ~Send(h), ~Unlock(h)
  PROVE  ~Returning(h) /\ ~Returning(h)' /\ put' = put
<1>1. TypeOK /\ LockInv /\ SendInv
  BY DEF WordsInv
<1>2. RetLocal(h) /\ (InSyscall(h) => SysOp(h))
  BY <1>1 DEF RetInv, LockInv
<1> USE DEF TypeOK, HartTypes, Go, Returning
<1>3. CASE Call(h)
  BY <1>1, <1>3, OpsAssumption DEF Call
<1>4. ASSUME NEW l \in {"htif", "frontend"}, Spin(h, l) \/ Try(h, l)
      PROVE  ~Returning(h) /\ ~Returning(h)' /\ put' = put
  BY <1>1, <1>4 DEF Spin, Try, SpinAt, TryAt
<1>5. CASE SysFill(h) \/ Set(h)
  BY <1>1, <1>5 DEF SysFill, Set
<1>6. CASE Check(h)
  BY <1>1, <1>2, <1>6 DEF Check, RetLocal
<1>7. CASE Consume(h)
  BY <1>1, <1>2, <1>7 DEF Consume, RetLocal
<1>8. CASE Get(h)
  BY <1>1, <1>2, <1>8 DEF Get, RetLocal
<1>9. CASE Answer(h) \/ Accept(h)
  BY <1>1, <1>2, <1>9 DEF Answer, Accept, RetLocal, Awaits, SysOp
<1>10. CASE SysRet(h) \/ SysUnlock(h)
  BY <1>1, <1>2, <1>10 DEF SysRet, SysUnlock, InSyscall, SysOp
<1>11. ~PowerOffClear(h) /\ ~PowerOffSend(h)
  BY <1>1 DEF SendInv, PowerOffClear, PowerOffSend
<1>12. QED
  BY <1>3, <1>4, <1>5, <1>6, <1>7, <1>8, <1>9, <1>10, <1>11 DEF Step

\* Steps of the harts lose no character.
LEMMA HartPrintInv ==
  ASSUME WordsInv, RetInv, PrintInv, exited = "no", NEW h \in Harts, Call(h) \/ Step(h)
  PROVE  PrintInv'
<1>1. TypeOK /\ LockInv /\ SendInv
  BY DEF WordsInv
<1>2. /\ \A g \in Harts : g # h => /\ pc'[g] = pc[g] /\ op'[g] = op[g] /\ calls'[g] = calls[g]
      /\ UNCHANGED <<output, exited>>
  BY <1>1, OneMoves DEF host
<1>3. \A g \in Harts : g # h => Returning(g)' = Returning(g) /\ Tag(g)' = Tag(g)
  BY <1>2 DEF Returning, Tag
<1>4. ~(exited = "shutdown")'
  BY <1>2
<1>5. CASE Send(h)
  <2>1. /\ tohost = None /\ tohost' = Request(h) /\ UNCHANGED <<op, calls, put>>
        /\ pc[h] = "send" /\ pc' = [pc EXCEPT ![h] = IF SysOp(h) THEN "answer" ELSE "unlock"]
    BY <1>1, <1>5 DEF Send, SendInv, Go
  <2>2. \A g \in Harts : ~Returning(g)
    BY <1>1, <2>1 DEF Returning, LockInv, InHtif
  <2>3. put = output
    BY <2>1, <2>2, PutMsg DEF PrintInv, PutSoFar, None, Msg
  <2>4. \A g \in Harts : g # h => ~Returning(g)'
    BY <1>3, <2>2
  <2>5. CASE op[h] = "putchar"
    <3>1. tohost' = Msg(1, 1, Tag(h)) /\ Tag(h)' = Tag(h) /\ put' = put
      BY <2>1, <2>5 DEF Request, Tag
    <3>2. PutSoFar' = Append(output', Tag(h))
      BY <3>1, PutMsg DEF PutSoFar
    <3>3. PutSoFar' = Append(put', Tag(h)') /\ Tag(h)' = Tag(h)
      BY <1>2, <2>3, <3>1, <3>2
    <3>4. pc'[h] = "unlock" /\ op'[h] = "putchar"
      BY <1>1, <2>1, <2>5 DEF SysOp, TypeOK, HartTypes
    <3>5. Returning(h)'
      BY <3>4 DEF Returning
    <3>6. QED
      BY <1>4, <2>4, <3>3, <3>5 DEF PrintInv
  <2>6. CASE op[h] # "putchar"
    <3>1. ~(tohost'.dev = 1 /\ tohost'.cmd = 1)
      BY <2>1, <2>6 DEF Request, Msg
    <3>2. PutSoFar' = put'
      BY <1>2, <2>1, <2>3, <3>1 DEF PutSoFar
    <3>3. ~Returning(h)'
      BY <2>1, <2>6 DEF Returning
    <3>4. QED
      BY <1>4, <2>4, <3>2, <3>3 DEF PrintInv
  <2>7. QED
    BY <2>5, <2>6
<1>6. CASE ~Send(h)
  <2>1. PutSoFar' = PutSoFar
    BY <1>1, <1>2, <1>6, SharedWriters DEF PutSoFar
  <2>2. CASE Unlock(h)
    <3>1. /\ pc[h] = "unlock" /\ put' = IF op[h] = "putchar" THEN Append(put, Tag(h)) ELSE put
          /\ pc'[h] # "unlock"
      BY <1>1, <2>2 DEF Unlock, Go, TypeOK, HartTypes
    <3>2. \A g \in Harts : g # h => ~Returning(g)
      BY <1>1, <3>1 DEF Returning, LockInv, InHtif
    <3>3. \A g \in Harts : ~Returning(g)'
      BY <1>3, <3>1, <3>2 DEF Returning
    <3>4. PutSoFar = put'
      BY <3>1, <3>2 DEF PrintInv, Returning
    <3>5. QED
      BY <1>4, <2>1, <3>3, <3>4 DEF PrintInv
  <2>3. CASE ~Unlock(h)
    <3>1. ~Returning(h) /\ ~Returning(h)' /\ put' = put
      BY <1>6, <2>3, NotReturning
    <3>2. \A g \in Harts : Returning(g)' = Returning(g) /\ (Returning(g) => Tag(g)' = Tag(g))
      BY <1>3, <3>1 DEF Returning
    <3>3. QED
      BY <1>4, <2>1, <3>1, <3>2 DEF PrintInv
  <2>4. QED
    BY <2>2, <2>3
<1>7. QED
  BY <1>5, <1>6

\* The host prints what it takes, and does nothing else with it.  When it takes a
\* system call, the hart that made it holds htif_lock: nobody is in putchar.
LEMMA HostPrintInv ==
  ASSUME WordsInv, PrintInv, exited = "no", HostTake \/ HostType \/ HostGive
  PROVE  PrintInv'
<1>1. TypeOK /\ LockInv /\ FlightInv
  BY DEF WordsInv
<1>2. UNCHANGED <<hart, put>>
  BY HostSteps DEF HostTake, HostType, HostGive
<1>3. \A g \in Harts : Returning(g)' = Returning(g) /\ Tag(g)' = Tag(g)
  BY <1>2 DEF Returning, Tag, hart
<1>4. CASE HostTake
  <2>1. tohost' = None /\ tohost # None
    BY <1>4 DEF HostTake
  <2>2. PutSoFar' = output'
    BY <2>1 DEF PutSoFar, None, Msg
  <2>3. CASE HostWrite
    <3>1. output' = PutSoFar /\ exited' = exited
      BY <2>3 DEF HostWrite, PutSoFar
    <3>2. QED
      BY <1>2, <1>3, <2>1, <2>2, <3>1 DEF PrintInv
  <2>4. CASE ~HostWrite
    <3>1. output' = output
      BY <1>4, <2>4 DEF HostTake, HostRead, HostSyscall, HostExit
    <3>2. ~(tohost.dev = 1 /\ tohost.cmd = 1)
      BY <1>4, <2>4 DEF HostTake, HostRead, HostSyscall, HostExit, Exit, Msg
    <3>3. PutSoFar' = PutSoFar
      BY <2>2, <3>1, <3>2 DEF PutSoFar
    <3>4. ASSUME exited' = "shutdown" PROVE \A g \in Harts : ~Returning(g)
      <4>1. IsSys(tohost)
        BY <1>4, <2>1, <2>4, <3>4 DEF HostTake, HostRead, HostSyscall, HostExit, IsSys
      <4>2. PICK f \in Harts : Awaits(f)
        BY <1>1, <4>1 DEF FlightInv, SysFlight
      <4>3. InHtif(f) /\ ~Returning(f)
        BY <4>2 DEF Awaits, InHtif, Returning
      <4>4. QED
        BY <1>1, <4>3 DEF LockInv, InHtif, Returning
    <3>5. QED
      BY <1>2, <1>3, <2>1, <3>3, <3>4 DEF PrintInv
  <2>5. QED
    BY <2>3, <2>4
<1>5. CASE HostType \/ HostGive
  <2>1. UNCHANGED <<tohost, output, exited>>
    BY <1>5 DEF HostType, HostGive
  <2>2. QED
    BY <1>2, <1>3, <2>1 DEF PrintInv, PutSoFar
<1>6. QED
  BY <1>4, <1>5

\* Without htif_poweroff, a run that SYS_exit ends has printed exactly the characters
\* whose putchar had returned, in that order: the host has emptied tohost before it sees
\* the call, and the hart that makes it has kept the others out of putchar.
THEOREM NothingLostAtExit == ASSUME "poweroff" \notin Ops PROVE Spec => []PrintedAtExit
<1>1. Init => PrintInv
  BY DEF Init, PrintInv, Returning, PutSoFar, None, Msg
<1>2. WordsInv /\ RetInv /\ PrintInv /\ [Next]_vars => PrintInv'
  <2> SUFFICES ASSUME WordsInv, RetInv, PrintInv, [Next]_vars PROVE PrintInv'
    OBVIOUS
  <2>1. CASE UNCHANGED vars
    BY <2>1 DEF vars, hart, host, PrintInv, Returning, PutSoFar, Tag
  <2>2. QED
    BY <2>1, HartPrintInv, HostPrintInv DEF Next
<1>3. PrintInv => PrintedAtExit
  BY DEF PrintInv, PrintedAtExit, PutSoFar, None, Msg
<1>4. QED
  BY <1>1, <1>2, <1>3, NextRetInv, InitKeyInv, Inductive, PTL DEF Spec

-----------------------------------------------------------------------------
(* Htif implements Console: every step is an operation of Console taking     *)
(* effect, or changes nothing that callers see.                              *)

\* The call in magic_mem is old until it is filled in.
Unfilled(h) == pc[h] \in {"sys_spin", "sys_try", "sys_fill"}
FreshInv ==
  \A h \in Harts : \A c \in Nat :
    magic.call = 10 * c + h => c <= calls[h] /\ (Unfilled(h) => c < calls[h])

\* A call is identified by its hart and number.
LEMMA TagsDiffer ==
  \A g, h \in Harts : \A c, d \in Nat : 10 * c + g = 10 * d + h => g = h /\ c = d
BY HartsAssumption

\* Every step keeps the calls in magic_mem old.
LEMMA NextFreshInv == WordsInv /\ FreshInv /\ [Next]_vars => FreshInv'
<1> SUFFICES ASSUME WordsInv, FreshInv, [Next]_vars PROVE FreshInv'
  OBVIOUS
<1>1. TypeOK /\ LockInv /\ SendInv
  BY DEF WordsInv
<1>2. ASSUME NEW h \in Harts, Call(h) \/ Step(h) PROVE FreshInv'
  <2>1. \A g \in Harts : g # h => pc'[g] = pc[g] /\ calls'[g] = calls[g]
    BY <1>1, <1>2, OneMoves
  <2> USE DEF TypeOK, HartTypes, Go
  <2>2. CASE SysFill(h)
    <3>1. /\ magic'.call = 10 * calls[h] + h /\ calls' = calls /\ pc'[h] = "spin"
          /\ pc[h] = "sys_fill"
      BY <1>1, <2>2 DEF SysFill, Tag
    <3>2. ASSUME NEW g \in Harts, NEW c \in Nat, magic'.call = 10 * c + g
          PROVE  c <= calls'[g] /\ ~Unfilled(g)'
      <4>1. g = h /\ c = calls[h]
        BY <1>1, <3>1, <3>2, TagsDiffer
      <4>2. QED
        BY <1>1, <3>1, <4>1 DEF Unfilled
    <3>3. QED
      BY <3>2 DEF FreshInv
  <2>3. CASE Call(h)
    <3>1. calls'[h] = calls[h] + 1 /\ magic' = magic /\ calls[h] \in Nat
      BY <1>1, <2>3 DEF Call
    <3>2. QED
      BY <1>1, <2>1, <3>1 DEF FreshInv, Unfilled
  <2>4. CASE ~SysFill(h) /\ ~Call(h)
    <3>1. magic' = magic /\ calls' = calls
      BY <1>1, <1>2, <2>4, SharedWriters
    <3>2. Unfilled(h)' => Unfilled(h)
      <4> USE DEF Unfilled
      <4>1. ASSUME NEW l \in {"htif", "frontend"}, Spin(h, l) PROVE Unfilled(h)' => Unfilled(h)
        BY <1>1, <4>1 DEF Spin, SpinAt, TryAt
      <4>2. ASSUME NEW l \in {"htif", "frontend"}, Try(h, l) PROVE Unfilled(h)' => Unfilled(h)
        BY <1>1, <4>2 DEF Try, SpinAt, TryAt
      <4>3. CASE Set(h) \/ Send(h) \/ Unlock(h)
        BY <1>1, <4>3 DEF Set, Send, Unlock
      <4>4. CASE Check(h) \/ Consume(h)
        BY <1>1, <4>4 DEF Check, Consume
      <4>5. CASE Get(h) \/ Answer(h) \/ Accept(h)
        BY <1>1, <4>5 DEF Get, Answer, Accept
      <4>6. CASE SysRet(h) \/ SysUnlock(h)
        BY <1>1, <4>6 DEF SysRet, SysUnlock
      <4>7. ~PowerOffClear(h) /\ ~PowerOffSend(h)
        BY <1>1 DEF SendInv, PowerOffClear, PowerOffSend
      <4>8. QED
        BY <1>2, <2>4, <4>1, <4>2, <4>3, <4>4, <4>5, <4>6, <4>7 DEF Step
    <3>3. QED
      BY <2>1, <3>1, <3>2 DEF FreshInv, Unfilled
  <2>5. QED
    BY <2>2, <2>3, <2>4
<1>3. CASE HostTake \/ HostType \/ HostGive \/ UNCHANGED vars
  <2>1. UNCHANGED <<pc, calls>>
    BY <1>3, HostSteps DEF vars, hart
  <2>2. magic'.call = magic.call
    BY <1>1, <1>3 DEF HostTake, HostWrite, HostRead, HostSyscall, HostExit, HostType, HostGive,
       vars, TypeOK, SharedTypes
  <2>3. QED
    BY <2>1, <2>2 DEF FreshInv, Unfilled
<1>4. QED
  BY <1>2, <1>3 DEF Next

\* The initial state maps to the initial state of Console.
LEMMA InitSeen == Init => FreshInv /\ Seen!Init
<1> SUFFICES ASSUME Init PROVE FreshInv /\ Seen!Init
  OBVIOUS
<1>1. FreshInv
  <2>1. ASSUME NEW h \in Harts, NEW c \in Nat, magic.call = 10 * c + h
        PROVE  c <= calls[h] /\ ~Unfilled(h)
    <3>1. calls[h] = 0 /\ pc[h] = "idle" /\ magic.call = 0
      BY DEF Init
    <3>2. c = 0
      BY <2>1, <3>1, HartsAssumption
    <3>3. ~Unfilled(h)
      BY <3>1 DEF Unfilled
    <3>4. QED
      BY <3>1, <3>2, <3>3
  <2>2. QED
    BY <2>1 DEF FreshInv
<1>2. Stages = [h \in Harts |-> "idle"] /\ Results = [h \in Harts |-> 0]
  BY DEF Init, Stages, Stage, Results, Result
<1>3. Unread = 0 /\ PutSoFar = <<>> /\ GotSoFar = 0
  <2>1. KeysQueued = {}
    BY DEF Init, KeysQueued
  <2>2. Unread = 0
    BY <2>1 DEF Init, Unread, IsKey, None, Msg
  <2>3. PutSoFar = <<>>
    BY DEF Init, PutSoFar, None, Msg
  <2>4. QED
    BY <2>2, <2>3 DEF Init, GotSoFar
<1>4. QED
  BY <1>1, <1>2, <1>3 DEF Init, Seen!Init

\* Callers see a system call as not served until it is in magic_mem and answered.
LEMMA WaitingCalls ==
  ASSUME WordsInv, SysInv, FreshInv, NEW h \in Harts, SysOp(h), pc[h] # "idle"
  PROVE  /\ Unfilled(h) \/ Before(h) => Waiting(h)
         /\ After(h) => ~Waiting(h)
         /\ ~Unfilled(h) => (Waiting(h) <=> ~magic.done)
<1>1. calls[h] \in Nat /\ SysLocal(h)
  BY DEF WordsInv, TypeOK, HartTypes, SysInv
<1>2. op[h] \notin {"putchar", "getchar"}
  BY DEF SysOp
<1>3. Waiting(h) <=> ~(magic.call = Tag(h) /\ magic.done)
  BY <1>2 DEF Waiting
<1>4. Unfilled(h) => magic.call # Tag(h)
  BY <1>1 DEF FreshInv, Tag
<1>5. ~Unfilled(h) => magic.call = Tag(h)
  BY <1>1 DEF SysLocal, InFrontend, Unfilled
<1>6. QED
  BY <1>1, <1>3, <1>4, <1>5 DEF SysLocal, Before, After, Unfilled

\* A step of a hart changes nothing of what the other harts' callers see.
LEMMA OthersSeen ==
  ASSUME WordsInv, RetInv, SysInv, FreshInv, SysInv', FreshInv', WordsInv',
         NEW h \in Harts, Call(h) \/ Step(h), NEW g \in Harts, g # h
  PROVE  Stage(g)' = Stage(g) /\ Result(g)' = Result(g)
<1>1. TypeOK /\ LockInv /\ SendInv
  BY DEF WordsInv
<1>2. /\ pc'[g] = pc[g] /\ op'[g] = op[g] /\ ret'[g] = ret[g] /\ val'[g] = val[g]
      /\ calls'[g] = calls[g]
  BY <1>1, OneMoves
<1>3. Result(g)' = Result(g)
  BY <1>2 DEF Result
<1>4. CASE ~SysFill(h)
  <2>1. magic' = magic
    BY <1>1, <1>4, SharedWriters
  <2>2. QED
    BY <1>2, <1>3, <2>1 DEF Stage, Waiting, SysOp, Tag
<1>5. CASE SysFill(h)
  <2>1. SysOp(g) /\ pc[g] # "idle" => Unfilled(g)
    <3>1. InFrontend(h)
      BY <1>1, <1>5 DEF SysFill, LockInv, InSyscall, InFrontend
    <3>2. ~InFrontend(g)
      BY <1>1, <3>1 DEF LockInv
    <3>3. QED
      BY <3>2 DEF InFrontend, Unfilled
  <2>2. CASE SysOp(g) /\ pc[g] # "idle"
    <3>1. Waiting(g)
      BY <2>1, <2>2, WaitingCalls
    <3>2. SysOp(g)' /\ pc'[g] # "idle" /\ Unfilled(g)'
      BY <1>2, <2>1, <2>2 DEF SysOp, Unfilled
    <3>3. calls'[g] \in Nat
      BY DEF WordsInv, TypeOK, HartTypes
    <3>4. magic'.call # Tag(g)'
      BY <3>2, <3>3 DEF FreshInv, Tag
    <3>5. Waiting(g)'
      BY <3>2, <3>4 DEF Waiting
    <3>6. QED
      BY <1>2, <1>3, <3>1, <3>5 DEF Stage
  <2>3. CASE ~(SysOp(g) /\ pc[g] # "idle")
    <3>1. Waiting(g)' <=> Waiting(g)
      BY <1>2, <2>3 DEF Waiting, SysOp
    <3>2. QED
      BY <1>2, <1>3, <3>1 DEF Stage
  <2>4. QED
    BY <2>2, <2>3
<1>6. QED
  BY <1>4, <1>5

\* The view of the stepping hart's own caller, for the steps that end or begin something.
LEMMA OwnSeen ==
  ASSUME "poweroff" \notin Ops, WordsInv, RetInv, SysInv, FreshInv, NEW h \in Harts
  PROVE  /\ Call(h) => /\ Stage(h) = "idle" /\ Stage(h)' = "called"
                       /\ Result(h)' = IF op'[h] = "getchar" THEN -1 ELSE 0
                       /\ op'[h] \in {"putchar", "getchar", "syscall", "exit"}
                       /\ calls' = [calls EXCEPT ![h] = @ + 1]
                       /\ op' = [op EXCEPT ![h] = op'[h]]
         /\ Get(h) => /\ Stage(h) = "called" /\ Stage(h)' = "done" /\ op[h] = "getchar"
                      /\ Result(h)' = buf - 1
         /\ Send(h) /\ op[h] = "putchar" =>
              /\ Stage(h) = "called" /\ Stage(h)' = "done" /\ Result(h)' = Result(h)
         /\ SysUnlock(h) \/ (Unlock(h) /\ ~SysOp(h)) =>
              Stage(h) = "done" /\ Stage(h)' = "idle" /\ Result(h)' = 0
<1>1. TypeOK /\ LockInv /\ SendInv /\ calls[h] \in Nat
  BY DEF WordsInv, TypeOK, HartTypes
<1> USE DEF TypeOK, HartTypes, Go
<1>2. ASSUME Call(h)
      PROVE  /\ Stage(h) = "idle" /\ Stage(h)' = "called"
             /\ Result(h)' = IF op'[h] = "getchar" THEN -1 ELSE 0
             /\ op'[h] \in {"putchar", "getchar", "syscall", "exit"}
             /\ calls' = [calls EXCEPT ![h] = @ + 1]
             /\ op' = [op EXCEPT ![h] = op'[h]]
  <2>1. /\ pc[h] = "idle" /\ calls' = [calls EXCEPT ![h] = @ + 1] /\ magic' = magic
        /\ calls'[h] = calls[h] + 1 /\ val'[h] = 0 /\ ret' = ret
    BY <1>1, <1>2 DEF Call
  <2>2. PICK o \in Ops : /\ op' = [op EXCEPT ![h] = o]
                         /\ pc'[h] = CASE o \in {"putchar", "getchar"} -> "spin"
                                       [] o \in {"syscall", "exit"}    -> "sys_spin"
                                       [] OTHER                        -> "off"
    BY <1>1, <1>2 DEF Call
  <2>3. o \in {"putchar", "getchar", "syscall", "exit"} /\ op'[h] = o
    BY <1>1, <2>2, OpsAssumption
  <2>4. CASE o \in {"putchar", "getchar"}
    <3>1. pc'[h] = "spin" /\ Waiting(h)'
      BY <2>2, <2>3, <2>4 DEF Waiting
    <3>2. Stage(h) = "idle" /\ Stage(h)' = "called"
      BY <2>1, <3>1 DEF Stage
    <3>3. Result(h)' = IF op'[h] = "getchar" THEN -1 ELSE 0
      BY <2>1, <3>1 DEF Result
    <3>4. QED
      BY <2>1, <2>2, <2>3, <3>2, <3>3
  <2>5. CASE o \in {"syscall", "exit"}
    <3>1. pc'[h] = "sys_spin" /\ SysOp(h)'
      BY <2>2, <2>3, <2>5 DEF SysOp
    <3>2. magic.call # 10 * (calls[h] + 1) + h
      BY <1>1 DEF FreshInv
    <3>3. Waiting(h)'
      BY <2>1, <3>1, <3>2 DEF Waiting, Tag
    <3>4. QED
      BY <2>1, <2>2, <2>3, <2>5, <3>1, <3>3 DEF Stage, Result
  <2>6. QED
    BY <2>3, <2>4, <2>5
<1>3. ASSUME Get(h)
      PROVE  /\ Stage(h) = "called" /\ Stage(h)' = "done" /\ op[h] = "getchar"
             /\ Result(h)' = buf - 1
  <2>1. /\ op[h] = "getchar" /\ pc[h] = "get" /\ op' = op /\ val'[h] = buf /\ ret' = ret
        /\ pc'[h] \in {"set", "unlock"}
    BY <1>1, <1>3 DEF Get, RetInv, RetLocal
  <2>2. Waiting(h) /\ ~Waiting(h)'
    BY <2>1 DEF Waiting, SysOp
  <2>3. QED
    BY <2>1, <2>2 DEF Stage, Result
<1>4. ASSUME Send(h), op[h] = "putchar"
      PROVE  Stage(h) = "called" /\ Stage(h)' = "done" /\ Result(h)' = Result(h)
  <2>1. pc[h] = "send" /\ op' = op /\ pc'[h] = "unlock"
    BY <1>1, <1>4 DEF Send, SysOp
  <2>2. Waiting(h) /\ ~Waiting(h)'
    BY <1>4, <2>1 DEF Waiting, SysOp
  <2>3. QED
    BY <1>4, <2>1, <2>2 DEF Stage, Result
<1>5. ASSUME SysUnlock(h) \/ (Unlock(h) /\ ~SysOp(h))
      PROVE  Stage(h) = "done" /\ Stage(h)' = "idle" /\ Result(h)' = 0
  <2>1. pc[h] \in {"sys_unlock", "unlock"} /\ pc'[h] = "idle"
    BY <1>1, <1>5 DEF SysUnlock, Unlock
  <2>2. pc[h] = "sys_unlock" => SysOp(h)
    BY <1>1 DEF LockInv, InSyscall
  <2>3. ~Waiting(h)
    <3>1. CASE SysOp(h)
      <4>1. After(h)
        BY <2>1 DEF After
      <4>2. QED
        BY <2>1, <3>1, <4>1, WaitingCalls
    <3>2. CASE ~SysOp(h)
      BY <2>1, <2>2, <3>2 DEF Waiting
    <3>3. QED
      BY <3>1, <3>2
  <2>4. QED
    BY <2>1, <2>3 DEF Stage, Result
<1>6. QED
  BY <1>2, <1>3, <1>4, <1>5

\* A getchar that has not looked at htif_console_buf yet.
GetWaits(h) == \/ pc[h] \in {"spin", "try", "get"}
               \/ pc[h] \in {"check", "consume"} /\ ret[h] = "get"

\* The other steps change nothing of what the hart's own caller sees.
LEMMA OwnUnseen ==
  ASSUME WordsInv, RetInv, SysInv, FreshInv, WordsInv', SysInv', FreshInv',
         NEW h \in Harts, Step(h), ~Call(h), ~Get(h), ~SysUnlock(h),
         ~(Send(h) /\ op[h] = "putchar"), ~(Unlock(h) /\ ~SysOp(h))
  PROVE  Stage(h)' = Stage(h) /\ Result(h)' = Result(h) /\ UNCHANGED <<op, calls>>
<1>1. /\ TypeOK /\ LockInv /\ SendInv
      /\ LocalInv(h) /\ LocalInv(h)' /\ RetLocal(h) /\ (InSyscall(h) => SysOp(h))
  BY DEF WordsInv, FlightInv, RetInv, LockInv
<1>2. UNCHANGED <<op, calls>>
  BY <1>1, SharedWriters
<1>3. SysOp(h)' = SysOp(h) /\ (SysOp(h) => op[h] \notin {"putchar", "getchar"})
  BY <1>2 DEF SysOp
<1>4. ASSUME magic' = magic, pc[h] # "idle", pc'[h] # "idle",
             op[h] = "putchar" => pc[h] # "unlock" /\ pc'[h] # "unlock",
             op[h] = "getchar" => (GetWaits(h)' <=> GetWaits(h)) /\ val'[h] = val[h]
      PROVE  Stage(h)' = Stage(h) /\ Result(h)' = Result(h)
  <2>1. Waiting(h)' <=> Waiting(h)
    <3>1. CASE op[h] = "putchar"
      BY <1>2, <1>3, <1>4, <3>1 DEF Waiting
    <3>2. CASE op[h] = "getchar"
      BY <1>2, <1>3, <1>4, <3>2 DEF Waiting, GetWaits
    <3>3. CASE op[h] \notin {"putchar", "getchar"}
      BY <1>2, <1>3, <1>4, <3>3 DEF Waiting, Tag
    <3>4. QED
      BY <3>1, <3>2, <3>3
  <2>2. QED
    BY <1>2, <1>4, <2>1 DEF Stage, Result
<1> USE DEF TypeOK, HartTypes, Go
<1>5. CASE SysFill(h)
  <2>1. SysOp(h) /\ pc[h] = "sys_fill" /\ pc'[h] = "spin"
    BY <1>1, <1>5 DEF SysFill, InSyscall
  <2>2. Unfilled(h) /\ Before(h)' /\ SysOp(h)'
    BY <1>3, <2>1 DEF Unfilled, Before
  <2>3. Waiting(h) /\ Waiting(h)'
    <3>1. Waiting(h)
      BY <2>1, <2>2, WaitingCalls
    <3>2. SysLocal(h)'
      BY DEF SysInv
    <3>3. ~magic'.done
      BY <2>2, <3>2 DEF SysLocal
    <3>4. QED
      BY <2>1, <2>2, <3>1, <3>3 DEF Waiting
  <2>4. QED
    BY <1>2, <1>3, <2>1, <2>3 DEF Stage, Result
<1>6. CASE ~SysFill(h)
  <2>1. magic' = magic
    BY <1>1, <1>6, SharedWriters
  <2> USE DEF GetWaits
  <2>2. ASSUME NEW l \in {"htif", "frontend"}, Spin(h, l)
        PROVE  Stage(h)' = Stage(h) /\ Result(h)' = Result(h)
    BY <1>1, <1>3, <1>4, <2>1, <2>2 DEF Spin, SpinAt, TryAt, InSyscall
  <2>3. ASSUME NEW l \in {"htif", "frontend"}, Try(h, l)
        PROVE  Stage(h)' = Stage(h) /\ Result(h)' = Result(h)
    BY <1>1, <1>3, <1>4, <2>1, <2>3 DEF Try, SpinAt, TryAt, InSyscall
  <2>4. CASE Set(h)
    BY <1>1, <1>4, <2>1, <2>4 DEF Set
  <2>5. CASE Send(h)
    BY <1>1, <1>3, <1>4, <2>1, <2>5 DEF Send
  <2>6. CASE Check(h)
    BY <1>1, <1>3, <1>4, <2>1, <2>6 DEF Check, RetLocal, Awaits
  <2>7. CASE Consume(h)
    BY <1>1, <1>3, <1>4, <2>1, <2>7 DEF Consume, LocalInv, RetLocal, Awaits
  <2>8. CASE Answer(h) \/ Accept(h)
    BY <1>1, <1>3, <1>4, <2>1, <2>8 DEF Answer, Accept, RetLocal, Awaits
  <2>9. CASE Unlock(h) \/ SysRet(h)
    BY <1>1, <1>3, <1>4, <2>1, <2>9 DEF Unlock, SysRet, InSyscall
  <2>10. ~PowerOffClear(h) /\ ~PowerOffSend(h)
    BY <1>1 DEF SendInv, PowerOffClear, PowerOffSend
  <2>11. QED
    BY <1>2, <1>6, <2>2, <2>3, <2>4, <2>5, <2>6, <2>7, <2>8, <2>9, <2>10 DEF Step
<1>7. QED
  BY <1>2, <1>5, <1>6

\* What a step of a hart does to the characters put, and to those got.
LEMMA HartCharacters ==
  ASSUME WordsInv, RetInv, KeyInv, NEW h \in Harts, Call(h) \/ Step(h)
  PROVE  /\ typed' = typed /\ typed \in Nat
         /\ PutSoFar' = IF Send(h) /\ op[h] = "putchar" THEN Append(PutSoFar, Tag(h)) ELSE PutSoFar
         /\ ~Get(h) => GotSoFar' = GotSoFar
         /\ Get(h) => /\ buf > 0 => GotSoFar < typed /\ GotSoFar' = GotSoFar + 1 /\ buf = GotSoFar' + 1
                      /\ ~(buf > 0) => GotSoFar' = GotSoFar /\ buf \in {0, -1}
<1>1. TypeOK /\ LockInv /\ SendInv /\ LocalInv(h) /\ RetLocal(h)
  BY DEF WordsInv, FlightInv, RetInv
<1>2. UNCHANGED <<output, reading, typed, queue>> /\ typed \in Nat
  BY <1>1, OneMoves DEF host, TypeOK, HostTypes
<1>3. KeysQueued' = KeysQueued
  BY <1>2 DEF KeysQueued, IsKey
<1>4. PutSoFar' = IF Send(h) /\ op[h] = "putchar" THEN Append(PutSoFar, Tag(h)) ELSE PutSoFar
  <2>1. CASE Send(h)
    <3>1. tohost = None /\ tohost' = Request(h) /\ PutSoFar = output
      BY <1>1, <2>1 DEF Send, SendInv, PutSoFar, None, Msg
    <3>2. CASE op[h] = "putchar"
      <4>1. tohost'.dev = 1 /\ tohost'.cmd = 1 /\ tohost'.data = Tag(h)
        BY <3>1, <3>2 DEF Request, Msg
      <4>2. QED
        BY <1>2, <2>1, <3>1, <3>2, <4>1 DEF PutSoFar
    <3>3. CASE op[h] # "putchar"
      <4>1. ~(tohost'.dev = 1 /\ tohost'.cmd = 1)
        BY <3>1, <3>3 DEF Request, Msg
      <4>2. QED
        BY <1>2, <3>1, <3>3, <4>1 DEF PutSoFar
    <3>4. QED
      BY <3>2, <3>3
  <2>2. CASE ~Send(h)
    <3>1. tohost' = tohost
      BY <1>1, <2>2, SharedWriters
    <3>2. QED
      BY <1>2, <2>2, <3>1 DEF PutSoFar
  <2>3. QED
    BY <2>1, <2>2
<1>5. ASSUME ~Get(h) PROVE GotSoFar' = GotSoFar
  <2>1. CASE Consume(h)
    <3>1. /\ fh[h] = fromhost /\ fromhost' = None /\ fromhost \in Msgs
          /\ buf' = IF IsKey(fromhost) THEN 1 + fromhost.data ELSE buf
      BY <1>1, <2>1 DEF Consume, LocalInv, Stored, IsKey, TypeOK, SharedTypes
    <3>2. ~IsKey(fromhost') /\ fromhost.data \in Nat
      BY <3>1 DEF IsKey, None, Msg, Msgs
    <3>3. (IsKey(fromhost) \/ buf > 0) <=> buf' > 0
      <4>1. CASE IsKey(fromhost)
        BY <3>1, <3>2, <4>1
      <4>2. CASE ~IsKey(fromhost)
        BY <3>1, <4>2
      <4>3. QED
        BY <4>1, <4>2
    <3>4. Unread' = Unread
      BY <1>3, <3>2, <3>3 DEF Unread
    <3>5. QED
      BY <1>2, <3>4 DEF GotSoFar
  <2>2. CASE ~Consume(h)
    <3>1. buf' = buf
      BY <1>1, <1>5, <2>2, SharedWriters
    <3>2. IsKey(fromhost') <=> IsKey(fromhost)
      <4>1. Accept(h) => ~IsKey(fromhost) /\ fromhost' = None
        BY <1>1 DEF Accept, LocalInv, IsSys, IsKey
      <4>2. ~IsKey(None)
        BY DEF IsKey, None, Msg
      <4>3. QED
        BY <1>1, <2>2, <4>1, <4>2, SharedWriters
    <3>3. QED
      BY <1>2, <1>3, <3>1, <3>2 DEF GotSoFar, Unread
  <2>3. QED
    BY <2>1, <2>2
<1>6. ASSUME Get(h)
      PROVE  /\ buf > 0 => GotSoFar < typed /\ GotSoFar' = GotSoFar + 1 /\ buf = GotSoFar' + 1
             /\ ~(buf > 0) => GotSoFar' = GotSoFar /\ buf \in {0, -1}
  <2>1. buf \in Int /\ buf >= -1 /\ fromhost' = fromhost
    BY <1>1, <1>6 DEF Get, TypeOK, SharedTypes
  <2>2. CASE buf >= 0
    <3>1. buf' = -1 /\ ~IsKey(fromhost) /\ KeysQueued = {}
      BY <1>6, <2>1, <2>2 DEF Get, Asks, KeyInv, KeyFlight
    <3>2. Unread' = 0 /\ Unread = IF buf > 0 THEN 1 ELSE 0
      BY <1>3, <2>1, <3>1 DEF Unread
    <3>3. buf > 0 => buf = typed + 1
      BY DEF KeyInv, LastKey
    <3>4. QED
      BY <1>2, <2>1, <2>2, <3>2, <3>3 DEF GotSoFar
  <2>3. CASE ~(buf >= 0)
    <3>1. buf' = buf /\ buf = -1
      BY <1>6, <2>1, <2>3 DEF Get, Asks
    <3>2. GotSoFar' = GotSoFar
      BY <1>2, <1>3, <2>1, <3>1 DEF GotSoFar, Unread
    <3>3. QED
      BY <3>1, <3>2
  <2>4. QED
    BY <2>2, <2>3
<1>7. QED
  BY <1>2, <1>4, <1>5, <1>6

\* One hart's caller sees a change, the others see none.
LEMMA SeenChange ==
  ASSUME NEW h \in Harts, NEW s, NEW r, Stage(h)' = s, Result(h)' = r,
         \A g \in Harts : g # h => Stage(g)' = Stage(g) /\ Result(g)' = Result(g)
  PROVE  /\ Stages' = [Stages EXCEPT ![h] = s] /\ Results' = [Results EXCEPT ![h] = r]
         /\ Stages[h] = Stage(h) /\ Results[h] = Result(h)
         /\ s = Stage(h) => Stages' = Stages
         /\ r = Result(h) => Results' = Results
BY DEF Stages, Results

\* The invariant of the calls.
CallsInv == WordsInv /\ RetInv /\ KeyInv /\ SysInv /\ FreshInv

\* Every step of a hart is an operation of Console, or changes nothing that callers see.
LEMMA HartSeen ==
  ASSUME "poweroff" \notin Ops, CallsInv, CallsInv', NEW h \in Harts, Call(h) \/ Step(h)
  PROVE  Seen!Next \/ UNCHANGED Seen!vars
<1>1. WordsInv /\ RetInv /\ KeyInv /\ SysInv /\ FreshInv /\ WordsInv' /\ SysInv' /\ FreshInv'
  BY DEF CallsInv
<1>2. TypeOK /\ SendInv
  BY <1>1 DEF WordsInv
<1>3. \A g \in Harts : g # h => Stage(g)' = Stage(g) /\ Result(g)' = Result(g)
  BY <1>1, OthersSeen
<1>4. typed' = typed /\ typed \in Nat
  BY <1>1, HartCharacters
<1>5. ~Send(h) => PutSoFar' = PutSoFar
  BY <1>1, HartCharacters
<1>6. ~Get(h) => GotSoFar' = GotSoFar
  BY <1>1, HartCharacters
<1>7. CASE Call(h)
  <2>1. /\ Stage(h) = "idle" /\ Stage(h)' = "called"
        /\ Result(h)' = IF op'[h] = "getchar" THEN -1 ELSE 0
        /\ op'[h] \in {"putchar", "getchar", "syscall", "exit"}
        /\ calls' = [calls EXCEPT ![h] = @ + 1]
        /\ op' = [op EXCEPT ![h] = op'[h]]
    BY <1>1, <1>7, OwnSeen
  <2>2. ~Send(h) /\ ~Get(h)
    BY <1>7 DEF Call, Send, Get
  <2>3. Seen!Call(h, op'[h])
    BY <1>3, <1>4, <1>5, <1>6, <2>1, <2>2, SeenChange DEF Seen!Call
  <2>4. QED
    BY <2>1, <2>3 DEF Seen!Next
<1>8. CASE Get(h)
  <2>1. /\ Stage(h) = "called" /\ Stage(h)' = "done" /\ op[h] = "getchar"
        /\ Result(h)' = buf - 1
    BY <1>1, <1>8, OwnSeen
  <2>2. UNCHANGED <<op, calls>> /\ ~Send(h)
    BY <1>8 DEF Get, Send
  <2>3. Seen!Effect(h)
    BY <1>3, <1>4, <2>1, <2>2, SeenChange DEF Seen!Effect
  <2>4. Results' = [Results EXCEPT ![h] = buf - 1]
    BY <1>3, <2>1, SeenChange
  <2>5. CASE buf > 0
    <3>1. GotSoFar < typed /\ GotSoFar' = GotSoFar + 1 /\ buf = GotSoFar' + 1
      BY <1>1, <1>8, <2>5, HartCharacters
    <3>2. GotSoFar \in Int
      BY <1>4 DEF GotSoFar, Unread
    <3>3. Results' = [Results EXCEPT ![h] = GotSoFar + 1]
      BY <2>4, <3>1, <3>2
    <3>4. Seen!GetChar(h)
      BY <1>5, <2>1, <2>2, <2>3, <3>1, <3>3 DEF Seen!GetChar
    <3>5. QED
      BY <3>4 DEF Seen!Next
  <2>6. CASE ~(buf > 0)
    <3>1. GotSoFar' = GotSoFar /\ buf \in {0, -1}
      BY <1>1, <1>8, <2>6, HartCharacters
    <3>2. Seen!GetNone(h)
      <4>1. buf - 1 \in {-1, -2}
        BY <3>1
      <4>2. QED
        BY <1>5, <2>1, <2>2, <2>3, <2>4, <3>1, <4>1 DEF Seen!GetNone
    <3>3. QED
      BY <3>2 DEF Seen!Next
  <2>7. QED
    BY <2>5, <2>6
<1>9. CASE Send(h) /\ op[h] = "putchar"
  <2>1. Stage(h) = "called" /\ Stage(h)' = "done" /\ Result(h)' = Result(h)
    BY <1>1, <1>9, OwnSeen
  <2>2. UNCHANGED <<op, calls>> /\ ~Get(h)
    BY <1>9 DEF Send, Get
  <2>3. Seen!Effect(h) /\ Results' = Results
    BY <1>3, <1>4, <2>1, <2>2, SeenChange DEF Seen!Effect
  <2>4. PutSoFar' = Append(PutSoFar, Tag(h))
    BY <1>1, <1>9, HartCharacters
  <2>5. Seen!Put(h)
    BY <1>6, <1>9, <2>2, <2>3, <2>4 DEF Seen!Put, Seen!Tag, Tag
  <2>6. QED
    BY <2>5 DEF Seen!Next
<1>10. CASE SysUnlock(h) \/ (Unlock(h) /\ ~SysOp(h))
  <2>1. Stage(h) = "done" /\ Stage(h)' = "idle" /\ Result(h)' = 0
    BY <1>1, <1>10, OwnSeen
  <2>2. UNCHANGED <<op, calls>> /\ ~Get(h) /\ ~Send(h)
    BY <1>10 DEF SysUnlock, Unlock, Send, Get
  <2>3. Seen!Return(h)
    BY <1>3, <1>4, <1>5, <1>6, <2>1, <2>2, SeenChange DEF Seen!Return
  <2>4. QED
    BY <2>3 DEF Seen!Next
<1>11. CASE /\ ~Call(h) /\ ~Get(h) /\ ~SysUnlock(h)
            /\ ~(Send(h) /\ op[h] = "putchar") /\ ~(Unlock(h) /\ ~SysOp(h))
  <2>1. Stage(h)' = Stage(h) /\ Result(h)' = Result(h) /\ UNCHANGED <<op, calls>>
    BY <1>1, <1>11, OwnUnseen
  <2>2. Stages' = Stages /\ Results' = Results
    BY <1>3, <2>1, SeenChange
  <2>3. PutSoFar' = PutSoFar
    BY <1>1, <1>11, HartCharacters
  <2>4. QED
    BY <1>4, <1>6, <1>11, <2>1, <2>2, <2>3 DEF Seen!vars
<1>12. QED
  BY <1>7, <1>8, <1>9, <1>10, <1>11

\* What the host does to the characters put and got: nothing, but for typing.
LEMMA HostCharacters ==
  ASSUME WordsInv, KeyInv, HostTake \/ HostType \/ HostGive
  PROVE  /\ PutSoFar' = PutSoFar /\ GotSoFar' = GotSoFar
         /\ typed' = IF HostType THEN typed + 1 ELSE typed
<1>1. TypeOK /\ queue \in Seq(Msgs) /\ typed \in Nat /\ tohost.data \in Nat
  BY DEF WordsInv, TypeOK, SharedTypes, HostTypes, Msgs
<1>2. buf' = buf /\ ~IsKey(None)
  BY HostSteps DEF IsKey, None, Msg
<1>3. queue' = queue => KeysQueued' = KeysQueued
  BY DEF KeysQueued, IsKey
<1>4. CASE HostTake
  <2>1. tohost' = None /\ UNCHANGED <<fromhost, typed>>
    BY <1>4 DEF HostTake
  <2>2. PutSoFar' = PutSoFar
    <3>1. PutSoFar' = output'
      BY <2>1 DEF PutSoFar, None, Msg
    <3>2. CASE tohost.dev = 1 /\ tohost.cmd = 1
      BY <1>4, <3>1, <3>2
      DEF HostTake, HostWrite, HostRead, HostSyscall, HostExit, PutSoFar, Exit, Msg
    <3>3. CASE ~(tohost.dev = 1 /\ tohost.cmd = 1)
      BY <1>4, <3>1, <3>3
      DEF HostTake, HostWrite, HostRead, HostSyscall, HostExit, PutSoFar
    <3>4. QED
      BY <3>2, <3>3
  <2>3. KeysQueued' = KeysQueued
    <3>1. /\ Msg(1, 1, tohost.data) \in Msgs /\ Msg(0, 0, 1) \in Msgs
      BY <1>1, MsgTypes
    <3>2. ~IsKey(Msg(1, 1, tohost.data)) /\ ~IsKey(Msg(0, 0, 1))
      BY DEF IsKey, Msg
    <3>3. \/ queue' = queue
          \/ queue' = Append(queue, Msg(1, 1, tohost.data))
          \/ queue' = Append(queue, Msg(0, 0, 1))
      BY <1>4 DEF HostTake, HostWrite, HostRead, HostSyscall, HostExit
    <3>4. QED
      BY <1>1, <1>3, <3>1, <3>2, <3>3, KeysMove
  <2>4. GotSoFar' = GotSoFar /\ (~HostType => typed' = typed)
    BY <1>2, <2>1, <2>3 DEF GotSoFar, Unread
  <2>5. typed' = typed /\ ~HostType
    BY <1>1, <2>1 DEF HostType
  <2>6. QED
    BY <2>2, <2>4, <2>5
<1>5. CASE HostType
  <2> DEFINE m == Msg(1, 0, typed + 1)
  <2>1. reading /\ UNCHANGED <<tohost, fromhost, output>> /\ typed' = typed + 1 /\ queue' = Append(queue, m)
    BY <1>5 DEF HostType
  <2>2. m \in Msgs
    <3>1. typed + 1 \in Nat
      BY <1>1
    <3>2. QED
      BY <1>1, <3>1, MsgTypes
  <2>3. IsKey(m)
    BY DEF IsKey, Msg
  <2>4. KeysQueued' = KeysQueued \cup {Len(queue) + 1}
    BY <1>1, <2>1, <2>2, <2>3, KeysMove
  <2>5. KeysQueued' # {}
    BY <2>4
  <2>6. ~IsKey(fromhost) /\ KeysQueued = {} /\ buf = -1
    BY <2>1 DEF KeyInv, OneKey, KeyFlight
  <2>7. Unread = 0 /\ Unread' = 1
    BY <2>5, <2>6 DEF Unread
  <2>8. GotSoFar' = GotSoFar
    BY <1>1, <2>1, <2>7 DEF GotSoFar
  <2>9. QED
    BY <1>5, <2>1, <2>8 DEF PutSoFar
<1>6. CASE HostGive
  <2>1. /\ queue # <<>> /\ fromhost = None /\ fromhost' = Head(queue) /\ queue' = Tail(queue)
        /\ UNCHANGED <<tohost, typed, output>>
    BY <1>6 DEF HostGive
  <2>2. /\ \A i \in KeysQueued' : i + 1 \in KeysQueued
        /\ IsKey(Head(queue)) <=> 1 \in KeysQueued
        /\ \A i \in KeysQueued : i = 1 \/ i - 1 \in KeysQueued'
    BY <1>1, <2>1, KeysMove
  <2>3. (IsKey(fromhost') \/ KeysQueued' # {}) <=> (IsKey(fromhost) \/ KeysQueued # {})
    BY <1>2, <2>1, <2>2
  <2>4. Unread' = Unread
    BY <1>2, <2>3 DEF Unread
  <2>5. typed' = typed /\ ~HostType
    BY <1>1, <2>1 DEF HostType
  <2>6. QED
    BY <2>1, <2>4, <2>5 DEF PutSoFar, GotSoFar
<1>7. QED
  BY <1>4, <1>5, <1>6

\* A step of the host is a character typed, a system call served, or not seen.
LEMMA HostSeen ==
  ASSUME CallsInv, HostTake \/ HostType \/ HostGive
  PROVE  Seen!Next \/ UNCHANGED Seen!vars
<1>1. WordsInv /\ RetInv /\ KeyInv /\ SysInv /\ FreshInv
  BY DEF CallsInv
<1>2. TypeOK /\ LockInv /\ FlightInv
  BY <1>1 DEF WordsInv
<1>3. UNCHANGED <<pc, op, ret, fh, val, calls>>
  BY HostSteps DEF hart
<1>4. /\ PutSoFar' = PutSoFar /\ GotSoFar' = GotSoFar
      /\ typed' = IF HostType THEN typed + 1 ELSE typed
  BY <1>1, HostCharacters
<1>5. Results' = Results
  BY <1>3 DEF Results, Result
<1>6. CASE magic' = magic
  <2>1. Stages' = Stages
    BY <1>3, <1>6 DEF Stages, Stage, Waiting, SysOp, Tag
  <2>2. CASE HostType
    BY <1>3, <1>4, <1>5, <2>1, <2>2 DEF Seen!Next, Seen!Type
  <2>3. CASE ~HostType
    BY <1>3, <1>4, <1>5, <2>1, <2>3 DEF Seen!vars
  <2>4. QED
    BY <2>2, <2>3
<1>7. CASE magic' # magic
  <2>1. HostTake /\ HostSyscall /\ ~HostType
    BY <1>7 DEF HostTake, HostType, HostGive, HostWrite, HostRead, HostExit
  <2>2. /\ IsSys(tohost) /\ magic' = [magic EXCEPT !.done = TRUE]
        /\ magic'.done /\ magic'.call = magic.call
    BY <1>2, <1>7, <2>1 DEF HostTake, HostSyscall, IsSys, TypeOK, SharedTypes
  <2>3. PICK w \in Harts : Awaits(w)
    BY <1>2, <2>2 DEF FlightInv, SysFlight
  <2>4. SysOp(w) /\ InFrontend(w) /\ pc[w] # "idle" /\ ~Unfilled(w)
    BY <1>1, <2>3 DEF RetInv, RetLocal, Awaits, InFrontend, Unfilled
  <2>5. Waiting(w)
    <3>1. ~magic.done
      BY <1>1, <2>2 DEF SysInv
    <3>2. QED
      BY <1>1, <2>4, <3>1, WaitingCalls
  <2>6. ~Waiting(w)'
    <3>1. magic.call = Tag(w)
      BY <1>1, <2>4 DEF SysInv, SysLocal, Unfilled
    <3>2. op[w] \notin {"putchar", "getchar"}
      BY <2>4 DEF SysOp
    <3>3. QED
      BY <1>3, <2>2, <2>4, <3>1, <3>2 DEF Waiting, Tag
  <2>7. ASSUME NEW g \in Harts, g # w PROVE Stage(g)' = Stage(g)
    <3>1. CASE SysOp(g) /\ pc[g] # "idle"
      <4>1. Unfilled(g) /\ calls[g] \in Nat
        <5>1. ~InFrontend(g)
          BY <1>2, <2>4, <2>7 DEF LockInv
        <5>2. Unfilled(g)
          BY <3>1, <5>1 DEF InFrontend, Unfilled
        <5>3. QED
          BY <1>2, <5>2 DEF TypeOK, HartTypes
      <4>2. magic.call # Tag(g)
        BY <1>1, <4>1 DEF FreshInv, Tag
      <4>3. Waiting(g) /\ Waiting(g)'
        BY <1>3, <2>2, <3>1, <4>2 DEF Waiting, SysOp, Tag
      <4>4. QED
        BY <1>3, <4>3 DEF Stage
    <3>2. CASE ~(SysOp(g) /\ pc[g] # "idle")
      <4>1. Waiting(g)' <=> Waiting(g)
        BY <1>3, <3>2 DEF Waiting, SysOp
      <4>2. QED
        BY <1>3, <4>1 DEF Stage
    <3>3. QED
      BY <3>1, <3>2
  <2>8. Stage(w) = "called" /\ Stage(w)' = "done"
    BY <1>3, <2>4, <2>5, <2>6 DEF Stage
  <2>9. Stages' = [Stages EXCEPT ![w] = "done"] /\ Stages[w] = "called"
    <3>1. \A g \in Harts : Result(g)' = Result(g)
      BY <1>3 DEF Result
    <3>2. QED
      BY <2>7, <2>8, <3>1, SeenChange
  <2>10. Seen!Serve(w)
    <3>1. Seen!Effect(w)
      BY <1>3, <1>4, <2>1, <2>9 DEF Seen!Effect
    <3>2. QED
      BY <1>4, <1>5, <2>4, <3>1 DEF Seen!Serve, SysOp
  <2>11. QED
    BY <2>10 DEF Seen!Next
<1>8. QED
  BY <1>6, <1>7

\* The calls' invariant holds in every behaviour.
LEMMA CallsInductive == ASSUME "poweroff" \notin Ops PROVE Spec => []CallsInv
<1>1. Init => RetInv /\ KeyInv /\ SysInv /\ FreshInv
  BY InitKeyInv, InitSysInv, InitSeen
<1>2. WordsInv /\ RetInv /\ KeyInv /\ SysInv /\ FreshInv /\ [Next]_vars
      => RetInv' /\ KeyInv' /\ SysInv' /\ FreshInv'
  BY NextRetInv, NextKeyInv, NextSysInv, NextFreshInv
<1>3. QED
  BY <1>1, <1>2, Inductive, PTL DEF Spec, CallsInv

\* Without htif_poweroff, callers may think of the console and of system calls as
\* operations that take effect at one instant: every behaviour of the two words, the
\* buffer and the locks is one of Console, for any number of harts.
THEOREM CallsAreAtomic == ASSUME "poweroff" \notin Ops PROVE Spec => AtomicConsole
<1>1. CallsInv /\ CallsInv' /\ [Next]_vars => [Seen!Next]_(Seen!vars)
  <2> SUFFICES ASSUME CallsInv, CallsInv', [Next]_vars PROVE Seen!Next \/ UNCHANGED Seen!vars
    OBVIOUS
  <2>1. CASE UNCHANGED vars
    BY <2>1 DEF vars, hart, host, Seen!vars, Stages, Stage, Waiting, SysOp, Tag, Results, Result,
       PutSoFar, GotSoFar, Unread, KeysQueued, IsKey
  <2>2. QED
    BY <2>1, HartSeen, HostSeen DEF Next
<1>2. Init => Seen!Init
  BY InitSeen
<1>3. QED
  BY <1>1, <1>2, CallsInductive, PTL DEF Spec, AtomicConsole, Seen!Spec
=============================================================================
