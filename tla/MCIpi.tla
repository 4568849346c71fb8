------------------------------- MODULE MCIpi -------------------------------
(* Ipi on small machines.                                                  *)
EXTENDS Ipi, TLC

TwoHarts == {0, 1}
ThreeHarts == {0, 1, 2}
OnlyHart0 == {0}
NoHart == {}
LastHart == {2}
TwoSenders == (0 :> 1) @@ (1 :> 1) @@ (2 :> 0)
ThreeCalls == (0 :> 2) @@ (1 :> 1) @@ (2 :> 0)
AllKinds == Events
SoftAndFence == {"soft", "sfence_vma"}
=============================================================================
