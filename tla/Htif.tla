-------------------------------- MODULE Htif --------------------------------
(***************************************************************************)
(* The host-target interface (machine/htif.c) with its callers: console    *)
(* output and input, system calls through frontend_syscall                 *)
(* (user/frontend.c), and poweroff.  The target writes tohost and clears   *)
(* fromhost; the host (external) clears tohost and writes fromhost.  Harts *)
(* take turns by two spinlocks (machine/atomic.h): htif_lock around every  *)
(* exchange, and the lock of frontend_syscall around magic_mem.            *)
(***************************************************************************)
EXTENDS Integers, Sequences, FiniteSets

CONSTANTS
  Harts,      \* the harts that use the interface
  Ops,        \* which calls they make
  MaxCalls,   \* bound: calls per hart
  MaxInput    \* bound: characters typed at the host

ASSUME HartsAssumption == Harts \subseteq 0 .. 9
ASSUME OpsAssumption == Ops \subseteq {"putchar", "getchar", "syscall", "exit", "poweroff"}
ASSUME BoundsAssumption == MaxCalls \in Nat /\ MaxInput \in Nat

VARIABLES
  pc, op, ret, fh, val, \* per hart: place, call, return place of __check_fromhost, locals
  calls,              \* calls made (the bound, and the identity of a call's data)
  lock,               \* htif_lock and frontend_syscall's lock: 0 free, -1 taken
  tohost, fromhost,
  buf,                \* htif_console_buf
  magic,              \* magic_mem: whose call it holds, and whether it is answered
  put,                \* history: the characters whose htif_console_putchar has returned
  \* the host
  output, reading, typed, queue, exited

hart == <<pc, op, ret, fh, val, calls>>
host == <<output, reading, typed, queue, exited>>
vars == <<hart, lock, tohost, fromhost, buf, magic, put, host>>

Msg(dev, cmd, data) == [dev |-> dev, cmd |-> cmd, data |-> data]
None == Msg(0, 0, 0)
Exit == Msg(0, 0, 1)
MagicMem == 2           \* its address: neither 0 nor 1

Tag(h) == 10 * calls[h] + h
SysOp(h) == op[h] \in {"syscall", "exit"}

Request(h) ==
  CASE op[h] = "putchar" -> Msg(1, 1, Tag(h))
    [] op[h] = "getchar" -> Msg(1, 0, 0)
    [] OTHER             -> Msg(0, 0, MagicMem)

Init ==
  /\ pc = [h \in Harts |-> "idle"]
  /\ op = [h \in Harts |-> "putchar"]
  /\ ret = [h \in Harts |-> "set"]
  /\ fh = [h \in Harts |-> None]
  /\ val = [h \in Harts |-> 0]
  /\ calls = [h \in Harts |-> 0]
  /\ lock = [l \in {"htif", "frontend"} |-> 0]
  /\ tohost = None /\ fromhost = None
  /\ buf = 0
  /\ magic = [call |-> 0, op |-> "syscall", done |-> FALSE]
  /\ put = <<>>
  /\ output = <<>> /\ reading = FALSE /\ typed = 0 /\ queue = <<>> /\ exited = "no"

Go(h, place) == pc' = [pc EXCEPT ![h] = place]

-----------------------------------------------------------------------------
(* The callers. *)

Call(h) ==
  /\ pc[h] = "idle" /\ calls[h] < MaxCalls
  /\ calls' = [calls EXCEPT ![h] = @ + 1]
  /\ \E o \in Ops :
       /\ op' = [op EXCEPT ![h] = o]
       /\ Go(h, CASE o \in {"putchar", "getchar"} -> "spin"
                  [] o \in {"syscall", "exit"}    -> "sys_spin"
                  [] OTHER                        -> "off")
       /\ val' = [val EXCEPT ![h] = 0]
  /\ UNCHANGED <<ret, fh, lock, tohost, fromhost, buf, magic, put, host>>

\* spinlock_lock: read until the lock is free, then try to swap it in.
SpinAt(l) == IF l = "htif" THEN "spin" ELSE "sys_spin"
TryAt(l)  == IF l = "htif" THEN "try" ELSE "sys_try"

Spin(h, l) ==
  /\ pc[h] = SpinAt(l) /\ lock[l] = 0
  /\ Go(h, TryAt(l))
  /\ UNCHANGED <<op, ret, fh, val, calls, lock, tohost, fromhost, buf, magic, put, host>>

\* Mutant: the result of spinlock_trylock is not looked at.
M_Got(l) == TRUE

\* atomic_swap(&lock->lock, -1)
Got(l) == lock[l] = 0
Taken(l) == -1

\* What follows the lock: __set_tohost, or first __check_fromhost for input.
Try(h, l) ==
  /\ pc[h] = TryAt(l)
  /\ lock' = [lock EXCEPT ![l] = Taken(l)]
  /\ IF ~Got(l) THEN Go(h, SpinAt(l)) /\ ret' = ret
     ELSE IF l = "frontend" THEN Go(h, "sys_fill") /\ ret' = ret
     ELSE IF op[h] = "getchar" THEN Go(h, "check") /\ ret' = [ret EXCEPT ![h] = "get"]
     ELSE Go(h, "set") /\ ret' = ret
  /\ UNCHANGED <<op, fh, val, calls, tohost, fromhost, buf, magic, put, host>>

\* magic_mem[0] = n, ...
SysFill(h) ==
  /\ pc[h] = "sys_fill"
  /\ magic' = [call |-> Tag(h), op |-> op[h], done |-> FALSE]
  /\ Go(h, "spin")
  /\ UNCHANGED <<op, ret, fh, val, calls, lock, tohost, fromhost, buf, put, host>>

\* Mutant: tohost written without waiting for the host to take what is there.
M_Vacant == TRUE

Vacant == tohost = None

\* while (tohost) __check_fromhost();
Set(h) ==
  /\ pc[h] = "set"
  /\ IF Vacant THEN Go(h, "send") /\ ret' = ret
     ELSE Go(h, "check") /\ ret' = [ret EXCEPT ![h] = "set"]
  /\ UNCHANGED <<op, fh, val, calls, lock, tohost, fromhost, buf, magic, put, host>>

Send(h) ==
  /\ pc[h] = "send"
  /\ tohost' = Request(h)
  /\ Go(h, IF SysOp(h) THEN "answer" ELSE "unlock")
  /\ UNCHANGED <<op, ret, fh, val, calls, lock, fromhost, buf, magic, put, host>>

\* __check_fromhost: fromhost is read, cleared, and must come from the console.
Check(h) ==
  /\ pc[h] = "check"
  /\ fh' = [fh EXCEPT ![h] = fromhost]
  /\ Go(h, IF fromhost = None THEN ret[h] ELSE "consume")
  /\ UNCHANGED <<op, ret, val, calls, lock, tohost, fromhost, buf, magic, put, host>>

\* Mutant: the character is stored without the 1 that tells it from "none".
M_Stored(m) == m.data

Stored(m) == 1 + m.data

Consume(h) ==
  /\ pc[h] = "consume"
  /\ fromhost' = None
  /\ fh' = [fh EXCEPT ![h] = None]
  /\ buf' = IF fh[h].dev = 1 /\ fh[h].cmd = 0 THEN Stored(fh[h]) ELSE buf
  /\ Go(h, IF fh[h].dev = 1 /\ fh[h].cmd \in {0, 1} THEN ret[h] ELSE "die")
  /\ UNCHANGED <<op, ret, val, calls, lock, tohost, magic, put, host>>

\* Mutant: a request is sent whether or not one is outstanding.
M_Asks == TRUE

Asks == buf >= 0

Get(h) ==
  /\ pc[h] = "get"
  /\ val' = [val EXCEPT ![h] = buf]
  /\ IF Asks THEN buf' = -1 /\ Go(h, "set") ELSE buf' = buf /\ Go(h, "unlock")
  /\ UNCHANGED <<op, ret, fh, calls, lock, tohost, fromhost, magic, put, host>>

\* Mutant: any answer is taken for the system call's.
M_Mine(m) == m # None

Mine(m) == m # None /\ m.dev = 0 /\ m.cmd = 0

\* Mutant: an answer for someone else is left in fromhost.
M_Answer(h) ==
  /\ pc[h] = "answer" /\ Mine(fromhost)
  /\ fh' = [fh EXCEPT ![h] = fromhost]
  /\ Go(h, "accept")
  /\ UNCHANGED <<op, ret, val, calls, lock, tohost, fromhost, buf, magic, put, host>>

\* The loop of do_tohost_fromhost, at a non-zero fromhost.
Answer(h) ==
  /\ pc[h] = "answer" /\ fromhost # None
  /\ fh' = [fh EXCEPT ![h] = fromhost]
  /\ IF Mine(fromhost)
     THEN Go(h, "accept") /\ ret' = ret
     ELSE Go(h, "check") /\ ret' = [ret EXCEPT ![h] = "answer"]
  /\ UNCHANGED <<op, val, calls, lock, tohost, fromhost, buf, magic, put, host>>

Accept(h) ==
  /\ pc[h] = "accept"
  /\ fromhost' = None
  /\ fh' = [fh EXCEPT ![h] = None]
  /\ Go(h, "unlock")
  /\ UNCHANGED <<op, ret, val, calls, lock, tohost, buf, magic, put, host>>

Unlock(h) ==
  /\ pc[h] = "unlock"
  /\ lock' = [lock EXCEPT !["htif"] = 0]
  /\ Go(h, IF SysOp(h) THEN "sys_ret" ELSE "idle")
  /\ put' = IF op[h] = "putchar" THEN Append(put, Tag(h)) ELSE put
  /\ UNCHANGED <<op, ret, fh, val, calls, tohost, fromhost, buf, magic, host>>

\* ret = magic_mem[0]; spinlock_unlock(&lock)
SysRet(h) ==
  /\ pc[h] = "sys_ret"
  /\ val' = [val EXCEPT ![h] = IF magic.done THEN magic.call ELSE 0]
  /\ Go(h, "sys_unlock")
  /\ UNCHANGED <<op, ret, fh, calls, lock, tohost, fromhost, buf, magic, put, host>>

SysUnlock(h) ==
  /\ pc[h] = "sys_unlock"
  /\ lock' = [lock EXCEPT !["frontend"] = 0]
  /\ Go(h, "idle")
  /\ UNCHANGED <<op, ret, fh, val, calls, tohost, fromhost, buf, magic, put, host>>

\* htif_poweroff takes no lock: for ever, fromhost = 0; tohost = 1.
PowerOffClear(h) ==
  /\ pc[h] = "off"
  /\ fromhost' = None
  /\ Go(h, "off_send")
  /\ UNCHANGED <<op, ret, fh, val, calls, lock, tohost, buf, magic, put, host>>

\* Mutant: the request is written once.
M_Again == "off_wait"

Again == "off"

PowerOffSend(h) ==
  /\ pc[h] = "off_send"
  /\ tohost' = Exit
  /\ Go(h, Again)
  /\ UNCHANGED <<op, ret, fh, val, calls, lock, fromhost, buf, magic, put, host>>

-----------------------------------------------------------------------------
(* The host (external): it takes a command from tohost, and hands over an  *)
(* answer when fromhost is free.  Some hosts acknowledge a written         *)
(* character, some do not.                                                 *)

HostWrite ==
  /\ tohost.dev = 1 /\ tohost.cmd = 1
  /\ output' = Append(output, tohost.data)
  /\ queue' \in {queue, Append(queue, Msg(1, 1, tohost.data))}
  /\ UNCHANGED <<reading, magic, exited>>

HostRead ==
  /\ tohost.dev = 1 /\ tohost.cmd = 0
  /\ reading' = TRUE
  /\ UNCHANGED <<output, queue, magic, exited>>

HostSyscall ==
  /\ tohost.dev = 0 /\ tohost # Exit
  /\ IF magic.op = "exit"
     THEN exited' = "shutdown" /\ UNCHANGED <<queue, magic>>
     ELSE /\ magic' = [magic EXCEPT !.done = TRUE]
          /\ queue' = Append(queue, Msg(0, 0, 1))
          /\ exited' = exited
  /\ UNCHANGED <<output, reading>>

HostExit ==
  /\ tohost = Exit
  /\ exited' = "poweroff"
  /\ UNCHANGED <<output, reading, queue, magic>>

HostTake ==
  /\ tohost # None
  /\ tohost' = None
  /\ HostWrite \/ HostRead \/ HostSyscall \/ HostExit
  /\ UNCHANGED <<hart, put, lock, fromhost, buf, typed>>

HostType ==
  /\ reading /\ typed < MaxInput
  /\ reading' = FALSE
  /\ typed' = typed + 1
  /\ queue' = Append(queue, Msg(1, 0, typed + 1))
  /\ UNCHANGED <<hart, put, lock, tohost, fromhost, buf, magic, output, exited>>

HostGive ==
  /\ queue # <<>> /\ fromhost = None
  /\ fromhost' = Head(queue)
  /\ queue' = Tail(queue)
  /\ UNCHANGED <<hart, put, lock, tohost, buf, magic, output, reading, typed, exited>>

-----------------------------------------------------------------------------
Step(h) ==
  \/ \E l \in {"htif", "frontend"} : Spin(h, l) \/ Try(h, l)
  \/ SysFill(h) \/ Set(h) \/ Send(h) \/ Check(h) \/ Consume(h) \/ Get(h) \/ Answer(h) \/ Accept(h)
  \/ Unlock(h) \/ SysRet(h) \/ SysUnlock(h) \/ PowerOffClear(h) \/ PowerOffSend(h)

Next ==
  /\ exited = "no"
  /\ (\E h \in Harts : Call(h) \/ Step(h)) \/ HostTake \/ HostType \/ HostGive

Spec == Init /\ [][Next]_vars

\* Every hart runs, and the host serves both words.  Nobody need call or type.
Running(A) == exited = "no" /\ A
Fairness ==
  /\ \A h \in Harts : WF_vars(Running(Step(h)))
  /\ WF_vars(Running(HostTake)) /\ WF_vars(Running(HostGive))
FairSpec == Spec /\ Fairness
-----------------------------------------------------------------------------
(* Properties. *)

Places == {"idle", "spin", "try", "sys_spin", "sys_try", "sys_fill", "set", "send",
           "check", "consume", "get", "answer", "accept", "unlock", "sys_ret", "sys_unlock",
           "off", "off_send", "off_wait", "die"}
Msgs == [dev : {0, 1}, cmd : {0, 1}, data : Nat]

Calls == {"putchar", "getchar", "syscall", "exit", "poweroff"}

HartTypes ==
  /\ pc \in [Harts -> Places]
  /\ op \in [Harts -> Calls]
  /\ ret \in [Harts -> {"set", "get", "answer"}]
  /\ fh \in [Harts -> Msgs]
  /\ val \in [Harts -> Int]
  /\ calls \in [Harts -> Nat]
SharedTypes ==
  /\ lock \in [{"htif", "frontend"} -> {0, -1}]
  /\ tohost \in Msgs
  /\ fromhost \in Msgs
  /\ buf \in Int /\ buf >= -1
  /\ magic \in [call : Nat, op : Calls, done : BOOLEAN]
HostTypes ==
  /\ output \in Seq(Nat) /\ queue \in Seq(Msgs)
  /\ reading \in BOOLEAN /\ typed \in Nat
  /\ exited \in {"no", "shutdown", "poweroff"}
PutTypes == put \in Seq(Nat)
TypeOK == HartTypes /\ SharedTypes /\ HostTypes /\ PutTypes

\* Who holds which lock.
InHtif(h) == pc[h] \in {"set", "send", "check", "consume", "get", "answer", "accept", "unlock"}
InFrontend(h) == SysOp(h) /\ pc[h] \notin {"idle", "sys_spin", "sys_try"}

\* The two locks exclude: one hart at a time talks to the host, one owns magic_mem.
MutualExclusion ==
  \A g, h \in Harts :
    g # h => ~(InHtif(g) /\ InHtif(h)) /\ ~(InFrontend(g) /\ InFrontend(h))

\* assert(FROMHOST_DEV(fh) == 1) and the default: assert(0) of __check_fromhost
\* never fail: no answer to a system call is left for a console user to find.
AssertionsHold == \A h \in Harts : pc[h] # "die"

\* A request is in tohost until the host has taken it.
NoOverwrite == [][tohost # None /\ tohost' # tohost => tohost' = None]_vars

\* A character is asked for exactly while htif_console_buf says so: the buffer is
\* -1 if and only if one request or one answer to it is on its way.
IsKey(m) == m.dev = 1 /\ m.cmd = 0
KeysQueued == {i \in 1 .. Len(queue) : IsKey(queue[i])}
OnItsWay ==
  (IF IsKey(tohost) THEN 1 ELSE 0) + (IF reading THEN 1 ELSE 0)
  + (IF IsKey(fromhost) THEN 1 ELSE 0) + Cardinality(KeysQueued)
Asking(h) == /\ op[h] = "getchar"
             /\ \/ pc[h] \in {"set", "send"}
                \/ pc[h] \in {"check", "consume"} /\ ret[h] = "set"
OneRequest ==
  /\ OnItsWay <= 1
  /\ buf = -1 <=> OnItsWay = 1 \/ \E h \in Harts : Asking(h)

\* A system call gets the answer to its own request.
OwnAnswer == \A h \in Harts : pc[h] = "sys_unlock" => val[h] = Tag(h)

\* Every call comes back, whatever the other harts do, unless the run ends.
CallsReturn ==
  \A h \in Harts : pc[h] \in {"spin", "sys_spin"} ~> pc[h] = "idle" \/ exited # "no"

\* htif_poweroff ends the run, although it takes no lock and other harts may
\* overwrite its request or be overwritten by it.
PowersOff == \A h \in Harts : pc[h] = "off" ~> exited = "poweroff"

\* A run that SYS_exit ends has printed what was put, each character once and in
\* the order in which the calls returned: neither the request to exit nor that of
\* another hart has overtaken or overwritten a character, whoever put it, the hart
\* that exits included.
PrintedAtExit == exited = "shutdown" => output = put

\* What callers see is a console with atomic operations.
Waiting(h) == \* the call has not had its effect yet
  \/ op[h] = "putchar" /\ pc[h] \notin {"idle", "unlock"}
  \/ op[h] = "getchar" /\ \/ pc[h] \in {"spin", "try", "get"}
                          \/ pc[h] \in {"check", "consume"} /\ ret[h] = "get"
  \/ SysOp(h) /\ pc[h] # "idle" /\ ~(magic.call = Tag(h) /\ magic.done)
Stage(h) == IF pc[h] = "idle" THEN "idle" ELSE IF Waiting(h) THEN "called" ELSE "done"
Result(h) == IF pc[h] # "idle" /\ op[h] = "getchar" THEN val[h] - 1 ELSE 0
Unread == IF IsKey(fromhost) \/ buf > 0 \/ KeysQueued # {} THEN 1 ELSE 0

Stages == [h \in Harts |-> Stage(h)]
Results == [h \in Harts |-> Result(h)]
PutSoFar == IF tohost.dev = 1 /\ tohost.cmd = 1 THEN Append(output, tohost.data) ELSE output
GotSoFar == typed - Unread

Seen == INSTANCE Console WITH stage <- Stages, out <- PutSoFar, got <- GotSoFar, result <- Results
AtomicConsole == Seen!Spec
=============================================================================
