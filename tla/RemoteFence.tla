---------------------------- MODULE RemoteFence ----------------------------
(***************************************************************************)
(* What SBI_REMOTE_FENCE_I and SBI_REMOTE_SFENCE_VMA promise a supervisor: *)
(* once the call has returned, no target hart executes a lower-mode        *)
(* instruction before it has executed the fence.  How machine mode brings  *)
(* that about, and when the fence itself runs, is left open.               *)
(***************************************************************************)
EXTENDS Naturals

CONSTANTS Harts, Fences

VARIABLES
  running,    \* harts executing lower-mode instructions
  owed,       \* owed[t]: callers still in a call that asked t for a fence
  promised    \* promised[t]: fences of returned calls that t has not executed

vars == <<running, owed, promised>>

Init ==
  /\ running \subseteq Harts
  /\ owed = [t \in Harts |-> {}]
  /\ promised = [t \in Harts |-> {}]

\* A hart may run only with every promise to it kept.
Ready(t, promises) == promises[t] = {}

Enter(h) == \* an SBI call or an interrupt
  /\ running' = running \ {h}
  /\ UNCHANGED <<owed, promised>>

Ask(h, t) ==
  /\ h \notin running
  /\ owed' = [owed EXCEPT ![t] = @ \cup {h}]
  /\ UNCHANGED <<running, promised>>

Return(h, e) ==
  /\ h \notin running
  /\ \A t \in running : h \notin owed[t]
  /\ promised' = [t \in Harts |->
                    IF h \in owed[t] THEN promised[t] \cup {e} ELSE promised[t]]
  /\ owed' = [t \in Harts |-> owed[t] \ {h}]
  /\ running' \in {running} \cup
                  IF Ready(h, promised') THEN {running \cup {h}} ELSE {}

Serve(t, F, S) == \* t executes the fences F, which the callers S wait for
  /\ t \notin running
  /\ promised' = [promised EXCEPT ![t] = @ \ F]
  /\ owed' = [owed EXCEPT ![t] = @ \ S]
  /\ running' \in {running} \cup
                  IF Ready(t, promised') THEN {running \cup {t}} ELSE {}

Resume(h) == \* back from machine mode, with no fence executed
  /\ Ready(h, promised)
  /\ running' = running \cup {h}
  /\ UNCHANGED <<owed, promised>>

Next ==
  \E h \in Harts :
    \/ Enter(h) \/ Resume(h)
    \/ \E t \in Harts : Ask(h, t)
    \/ \E e \in Fences : Return(h, e)
    \/ \E F \in SUBSET Fences, S \in SUBSET Harts : Serve(h, F, S)

Spec == Init /\ [][Next]_vars

\* The promise as an invariant of the abstract specification.
NoStaleCode == \A t \in running : promised[t] = {}
=============================================================================
