------------------------------- MODULE MCTrap -------------------------------
(* Trap with one stack pointer per lower mode.                             *)
EXTENDS Trap

CONSTANTS ssp, usp
Sps == {ssp, usp}
=============================================================================
