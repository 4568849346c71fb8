------------------------------ MODULE Console ------------------------------
(***************************************************************************)
(* What callers may assume of the console and of system calls: operations  *)
(* that take effect at one instant between call and return.  A character   *)
(* put is printed once; a typed character is got once, in order; get may   *)
(* also say that there is none.                                            *)
(***************************************************************************)
EXTENDS Integers, Sequences

CONSTANT Harts

VARIABLES
  calls,    \* calls made per hart
  op,       \* the last call of a hart
  stage,    \* "idle", "called", or "done": effect had, not yet returned
  result,   \* what getchar returns
  out,      \* the characters put
  typed,    \* how many characters were typed: they are 1 .. typed
  got       \* how many of them were got

vars == <<calls, op, stage, result, out, typed, got>>

Tag(h) == 10 * calls[h] + h

Init ==
  /\ calls = [h \in Harts |-> 0]
  /\ op \in [Harts -> {"putchar"}]
  /\ stage = [h \in Harts |-> "idle"]
  /\ result = [h \in Harts |-> 0]
  /\ out = <<>> /\ typed = 0 /\ got = 0

Call(h, o) ==
  /\ stage[h] = "idle"
  /\ calls' = [calls EXCEPT ![h] = @ + 1]
  /\ op' = [op EXCEPT ![h] = o]
  /\ stage' = [stage EXCEPT ![h] = "called"]
  /\ result' = [result EXCEPT ![h] = IF o = "getchar" THEN -1 ELSE 0]
  /\ UNCHANGED <<out, typed, got>>

Effect(h) ==
  /\ stage[h] = "called"
  /\ stage' = [stage EXCEPT ![h] = "done"]
  /\ UNCHANGED <<calls, op, typed>>

Put(h) ==
  /\ op[h] = "putchar" /\ Effect(h)
  /\ out' = Append(out, Tag(h))
  /\ UNCHANGED <<result, got>>

GetChar(h) ==
  /\ op[h] = "getchar" /\ Effect(h)
  /\ got < typed /\ got' = got + 1
  /\ result' = [result EXCEPT ![h] = got + 1]
  /\ UNCHANGED out

GetNone(h) ==
  /\ op[h] = "getchar" /\ Effect(h)
  /\ \E none \in {-1, -2} : result' = [result EXCEPT ![h] = none]
  /\ UNCHANGED <<out, got>>

Serve(h) ==
  /\ op[h] \in {"syscall", "exit"} /\ Effect(h)
  /\ UNCHANGED <<result, out, got>>

Return(h) ==
  /\ stage[h] = "done"
  /\ stage' = [stage EXCEPT ![h] = "idle"]
  /\ result' = [result EXCEPT ![h] = 0]
  /\ UNCHANGED <<calls, op, out, typed, got>>

Type == typed' = typed + 1 /\ UNCHANGED <<calls, op, stage, result, out, got>>

Next ==
  \/ Type
  \/ \E h \in Harts :
       \/ \E o \in {"putchar", "getchar", "syscall", "exit"} : Call(h, o)
       \/ Put(h) \/ GetChar(h) \/ GetNone(h) \/ Serve(h) \/ Return(h)

Spec == Init /\ [][Next]_vars
=============================================================================
